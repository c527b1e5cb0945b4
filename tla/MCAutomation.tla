---------------------------- MODULE MCAutomation ----------------------------
(* An instance of Automation for TLC. *)
EXTENDS Automation

CONSTANTS u, o, nan   \* Undefined, Null, NaN

\* Number() and includes() of the texts below.
MCNumberOf(s) == IF s = "7" THEN 7 ELSE IF s = "" THEN 0 ELSE nan
MCLengthOf(s) == IF s = "won" THEN 3 ELSE IF s = "" THEN 0 ELSE 1
MCIncludes(x, y) ==
    /\ x.type = "text" /\ y \notin {u, o} /\ y.type = "text"
    /\ x.text = y.text \/ y.text = ""

MCAddr(f, n) == [form |-> f, length |-> n]

MCEnvs ==
    {[mode |-> "demo", allowFallback |-> TRUE, unset |-> {"email", "sms"}],
     [mode |-> "live", allowFallback |-> FALSE, unset |-> {"sms"}],
     [mode |-> "live", allowFallback |-> TRUE, unset |-> {"email"}]}

MCCustomers ==
    {[live |-> TRUE, email |-> None, phone |-> MCAddr("at", 7)],
     [live |-> TRUE, email |-> MCAddr("email", 9), phone |-> MCAddr("plus", 16)]}

MCCond(l, op, r) == [left |-> l, op |-> op, right |-> r]

\* The events of a deal and of a task, with what the conditions below look at.
MCDeal(c) == [key |-> "deal_stage_changed",
              data |-> Object([customerId |-> c, toStage |-> Text("won")])]
MCTask(c) == [key |-> "task_overdue",
              data |-> Object([customerId |-> c, dueDate |-> Date(7)])]

MCEvents == {MCDeal(Text("c")), MCDeal(o), MCTask(Text("c"))}

\* What these events hold and what conditions below compare it with.
MCValues ==
    {e.data : e \in MCEvents} \cup {Object(<<>>), Date(7), o, u} \cup
    {Text(s) : s \in {"", "c", "x", "7", "won"}} \cup {Num(n) : n \in {0, 1, 3, 7}}

MCRule(key, en, co, so, ch, to) ==
    [key |-> key, enabled |-> en, conditions |-> co,
     action |-> [type |-> "sendMessage", channel |-> ch, source |-> so, to |-> to]]

\* Paths that lead somewhere and nowhere, values that are numbers and that are
\* not, null and missing.
MCAny ==
    {MCCond(l, "lt", r) :
        l \in {<<"toStage">>, <<"dueDate">>, <<"customerId">>, <<"none", "n">>},
        r \in {Text("won"), Text("7"), Num(7), Object(<<>>), o, u}} \cup
    {MCCond(<<"toStage", "length">>, op, Num(3)) : op \in {"eq", "gt", "is"}} \cup
    {MCCond(<<>>, "eq", u), MCCond(<<"toStage">>, "contains", Text("x"))}

MCContents ==
    {MCRule("deal_stage_changed", TRUE, o, "customer.email", "email", None),
     MCRule("deal_stage_changed", TRUE,
            [all |-> {MCCond(<<"toStage">>, "eq", Text("won")),
                      MCCond(<<"toStage", "length">>, "gte", Text(""))}],
            "customer.phone", "sms", None),
     MCRule("task_overdue", FALSE, [any |-> MCAny], "text", "push",
            MCAddr("other", 12)),
     MCRule("task_overdue", TRUE, [any |-> {}], "text", "fax", MCAddr("other", 0))}

MCPatches == {{"enabled"}, {"key"}, {"conditions", "action"}}

MCTestSends ==
    {[channel |-> "email", to |-> MCAddr("at", 5), customer |-> FALSE],
     [channel |-> "email", to |-> MCAddr("email", 9), customer |-> TRUE],
     [channel |-> "sms", to |-> MCAddr("e164", 9), customer |-> TRUE],
     [channel |-> "sms", to |-> MCAddr("digits", 15), customer |-> FALSE],
     [channel |-> "push", to |-> MCAddr("other", 10), customer |-> TRUE]}
=============================================================================
