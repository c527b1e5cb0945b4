------------------------- MODULE ConditionEvaluator -------------------------
(***************************************************************************)
(* ConditionEvaluatorService: whether the conditions of a rule hold of an  *)
(* event.  Both are JSON, and the comparisons are those of JavaScript.     *)
(***************************************************************************)
EXTENDS Integers, Sequences, SequencesExt

CONSTANTS
    Undefined, Null,   \* values
    Values,            \* the values events and conditions hold, and those within
    NaN,               \* Number(x) of what is not a number
    NumberOf(_),       \* Number(x) of a text: an integer or NaN
    LengthOf(_),       \* x.length of a text
    Includes(_, _)     \* String(x) includes String(y), in lower case

\* Other values are texts, numbers, objects and dates (the type keeps values of
\* different kinds apart).  A date is no key of JSON: it equals nothing there.
Text(s) == [type |-> "text", text |-> s]
Num(n) == [type |-> "number", n |-> n]
Date(n) == [type |-> "date", n |-> n]
Object(f) == [type |-> "object", fields |-> f]

\* A value is of one kind; what Number() makes of it, if anything, is a number.
ASSUME ValuesAssumption ==
    /\ NaN \notin Int
    /\ {Undefined, Null} \subseteq Values
    /\ \A v \in Values \ {Undefined, Null} :
          \/ /\ v.type = "text"
             /\ NumberOf(v.text) \in Int \cup {NaN}
             /\ Num(LengthOf(v.text)) \in Values
          \/ v.type \in {"number", "date"} /\ v.n \in Int
          \/ /\ v.type = "object"
             /\ \A key \in DOMAIN v.fields : v.fields[key] \in Values

\* left is split into keys, and without any when the condition has no left.
Condition == [left : Seq(STRING), op : STRING, right : Values]

----------------------------------------------------------------------------
\* acc == null ? undefined : acc[key].  Of what texts, numbers and dates have
\* of their own only the length of a text is kept.
Field(acc, key) ==
    CASE acc \in {Undefined, Null} -> Undefined
      [] acc \notin {Undefined, Null} /\ acc.type = "object"
                                     /\ key \in DOMAIN acc.fields -> acc.fields[key]
      [] acc \notin {Undefined, Null} /\ acc.type = "text" /\ key = "length" ->
            Num(LengthOf(acc.text))
      [] OTHER -> Undefined

\* getByPath of the service, a reduce over the keys.
GetByPath(obj, path) == FoldLeft(Field, obj, path)

\* getByPath of path.util.ts, a loop that returns early.
GetByPathLoop(obj, path) ==
    LET cur[i \in 0 .. Len(path)] ==
            IF i = 0 THEN obj ELSE Field(cur[i - 1], path[i])
        nil == {i \in 0 .. Len(path) - 1 : cur[i] \in {Undefined, Null}}
    IN  IF nil # {} THEN Undefined ELSE cur[Len(path)]

\* Number(x)
ToNumber(v) ==
    CASE v = Undefined -> NaN
      [] v = Null -> 0
      [] v \notin {Undefined, Null} /\ v.type \in {"number", "date"} -> v.n
      [] v \notin {Undefined, Null} /\ v.type = "text" -> NumberOf(v.text)
      [] OTHER -> NaN

Test(op, m, n) ==
    CASE op = "gt" -> m > n [] op = "gte" -> m >= n
      [] op = "lt" -> m < n [] op = "lte" -> m <= n

\* Mutant: what is not a number counts as zero.
ComparesZero(op, l, r) ==
    LET n(v) == IF ToNumber(v) = NaN THEN 0 ELSE ToNumber(v)
    IN  Test(op, n(l), n(r))

\* A comparison with NaN is false.
Compares(op, l, r) ==
    /\ ToNumber(l) # NaN /\ ToNumber(r) # NaN
    /\ Test(op, ToNumber(l), ToNumber(r))

\* left === right, where right comes from JSON: two objects are never one.
Same(l, r) ==
    /\ l = r
    /\ l \in {Undefined, Null} \/ l.type \in {"text", "number"}

\* A condition without op or left is false, and so is an op that is not known.
EvalOne(c, e) ==
    LET left == GetByPath(e, c.left)
    IN  CASE c.left = <<>> -> FALSE
          [] c.left # <<>> /\ c.op = "eq" -> Same(left, c.right)
          [] c.left # <<>> /\ c.op = "contains" ->
                left \notin {Undefined, Null} /\ Includes(left, c.right)
          [] c.left # <<>> /\ c.op \in {"gt", "gte", "lt", "lte"} ->
            Compares(c.op, left, c.right)
      [] OTHER -> FALSE

\* Conditions are null or an object: "all" goes before "any", and without
\* either of the two they hold.
Matches(conditions, e) ==
    CASE conditions = Null -> TRUE
      [] conditions # Null /\ "all" \in DOMAIN conditions ->
            \A c \in conditions.all : EvalOne(c, e)
      [] conditions # Null /\ "all" \notin DOMAIN conditions
                           /\ "any" \in DOMAIN conditions ->
            \E c \in conditions.any : EvalOne(c, e)
      [] OTHER -> TRUE

----------------------------------------------------------------------------
\* A threshold splits the events in two, whichever way it is written, and an
\* event for which a side is not a number is on neither side; and a path leads
\* to the same value however it is followed.
SoundOn(e, c) ==
    LET holds(op) == EvalOne([c EXCEPT !.op = op], e)
        left == GetByPath(e, c.left)
        numbers == ToNumber(left) # NaN /\ ToNumber(c.right) # NaN
    IN  /\ left = GetByPathLoop(e, c.left)
        /\ c.left # <<>> =>
              /\ numbers => /\ holds("gt") # holds("lte")
                            /\ holds("lt") # holds("gte")
                            /\ holds("eq") => holds("gte") /\ holds("lte")
              /\ ~numbers => \A op \in {"gt", "gte", "lt", "lte"} : ~holds(op)
=============================================================================
