------------------------------ MODULE Contacts ------------------------------
(***************************************************************************)
(* ContactsService: create, update and softDelete of the contacts of one   *)
(* customer, each in an interactive transaction, and the isPrimary flag    *)
(* they move between the rows.                                             *)
(*                                                                         *)
(* The transactions run at PostgreSQL's default level, READ COMMITTED: a   *)
(* statement sees what was committed when it started and the writes of its *)
(* own transaction; a row that is written stays locked until the end of    *)
(* the transaction; a statement that waited for a lock looks at the row    *)
(* again before it writes.  Every statement of the code is one step, an    *)
(* updateMany one step per row.                                            *)
(*                                                                         *)
(* A contact is a number, in the order of createdAt.                       *)
(***************************************************************************)
EXTENDS Integers, FiniteSets

CONSTANTS
    Procs,        \* requests that may be under way at the same time
    NoProc,       \* "row not locked"
    MaxContacts,  \* bound on the contacts ever created
    Existing,     \* contacts the customer has at the start, the first primary
    Calls,        \* the operations clients use: "create", "update", "delete"
    Flags         \* what they give as isPrimary: "unset", "true", "false"

ASSUME ContactsAssumption ==
    /\ Procs # {} /\ IsFiniteSet(Procs)
    /\ NoProc \notin Procs
    /\ MaxContacts \in Nat
    /\ Existing \in 0 .. MaxContacts
    /\ Calls \subseteq {"create", "update", "delete"}
    /\ Flags \subseteq {"unset", "true", "false"}

Ids == 1 .. MaxContacts

VARIABLES
    row,         \* row[c]: the committed columns; not live if absent or deleted
    draft,       \* draft[c]: the columns as the transaction holding c sees them
    holder,      \* holder[c]: the request whose transaction has written c
    made,        \* contacts inserted so far, those rolled back included
    pc,          \* pc[p]: the statement request p is at
    kind,        \* kind[p]: its operation
    flag,        \* flag[p]: dto.isPrimary
    target,      \* target[p]: the contact it writes by id
    todo,        \* todo[p]: rows its updateMany has still to write
    wasPrimary   \* wasPrimary[p]: contact.isPrimary as softDelete read it

locals == <<kind, flag, wasPrimary>>
vars == <<row, draft, holder, made, pc, kind, flag, target, todo, wasPrimary>>

----------------------------------------------------------------------------
(* State *)

Contact == [live : BOOLEAN, primary : BOOLEAN]

Pc == {"idle", "open", "demote", "insert", "look", "set", "delete", "next",
       "promote", "commit"}

TypeOK ==
    /\ row \in [Ids -> Contact]
    /\ draft \in [Ids -> Contact]
    /\ holder \in [Ids -> Procs \cup {NoProc}]
    /\ made \in 0 .. MaxContacts
    /\ pc \in [Procs -> Pc]
    /\ kind \in [Procs -> {"create", "update", "delete"}]
    /\ flag \in [Procs -> {"unset", "true", "false"}]
    /\ target \in [Procs -> 0 .. MaxContacts]
    /\ todo \in [Procs -> SUBSET Ids]
    /\ wasPrimary \in [Procs -> BOOLEAN]
    /\ \A c \in Ids : holder[c] = NoProc => draft[c] = row[c]
    /\ \A p \in Procs :
          /\ pc[p] \in {"look", "set", "delete", "promote"} \/ kind[p] = "update"
                => target[p] \in Ids
          /\ pc[p] \in {"open", "demote"} => kind[p] # "delete"
          /\ pc[p] # "demote" => todo[p] = {}

Init ==
    /\ row = [c \in Ids |-> [live |-> c <= Existing,
                             primary |-> c = 1 /\ Existing > 0]]
    /\ draft = row
    /\ holder = [c \in Ids |-> NoProc]
    /\ made = Existing
    /\ pc = [p \in Procs |-> "idle"]
    /\ kind = [p \in Procs |-> "create"]
    /\ flag = [p \in Procs |-> "unset"]
    /\ target = [p \in Procs |-> 0]
    /\ todo = [p \in Procs |-> {}]
    /\ wasPrimary = [p \in Procs |-> FALSE]

\* What a statement of p reads.
View(p, c) == IF holder[c] = p THEN draft[c] ELSE row[c]

Live(p) == {c \in Ids : View(p, c).live}

Free(p, c) == holder[c] \in {p, NoProc}

\* p writes c, which it holds from now on.
Write(p, c, columns) ==
    /\ draft' = [draft EXCEPT ![c] = columns]
    /\ holder' = [holder EXCEPT ![c] = p]
    /\ UNCHANGED row

GoTo(p, where) == pc' = [pc EXCEPT ![p] = where]

----------------------------------------------------------------------------
(* The calls.  A call whose findFirst finds nothing ends with 404 and       *)
(* changes nothing.                                                        *)

\* The call is at work on c with isPrimary = f.
Enter(p, k, c, f, primary) ==
    /\ pc[p] = "idle"
    /\ k \in Calls
    /\ kind' = [kind EXCEPT ![p] = k]
    /\ target' = [target EXCEPT ![p] = c]
    /\ flag' = [flag EXCEPT ![p] = f]
    /\ wasPrimary' = [wasPrimary EXCEPT ![p] = primary]
    /\ UNCHANGED <<row, draft, holder, made, todo>>

\* The creates under way that have not inserted yet.
Creating ==
    {q \in Procs : kind[q] = "create" /\ pc[q] \in {"open", "demote", "insert"}}

CallCreate(p, f) ==
    /\ Enter(p, "create", 0, f, FALSE)
    /\ made + Cardinality(Creating) < MaxContacts
    /\ GoTo(p, IF f = "true" THEN "open" ELSE "insert")

CallUpdate(p, c, f) ==
    /\ Enter(p, "update", c, f, FALSE)
    /\ row[c].live
    /\ GoTo(p, IF f = "true" THEN "open" ELSE "set")

CallDelete(p, c) ==
    /\ Enter(p, "delete", c, "unset", row[c].primary)
    /\ row[c].live
    /\ GoTo(p, "delete")

----------------------------------------------------------------------------
(* The statements of the transactions *)

\* Mutant: it takes the rows that are primary only.
DemotablePrimary(p) == {c \in Live(p) : View(p, c).primary}

\* updateMany finds the rows that are not deleted ...
Demotable(p) == Live(p)

DemoteStarts(p) ==
    /\ pc[p] = "open"
    /\ todo' = [todo EXCEPT ![p] = Demotable(p)]
    /\ GoTo(p, "demote")
    /\ UNCHANGED <<row, draft, holder, made, locals, target>>

\* ... takes them one by one, but for those deleted while it waited ...
Demotes(p, c) ==
    /\ pc[p] = "demote"
    /\ c \in todo[p]
    /\ Free(p, c)
    /\ todo' = [todo EXCEPT ![p] = @ \ {c}]
    /\ IF View(p, c).live
       THEN Write(p, c, [View(p, c) EXCEPT !.primary = FALSE])
       ELSE UNCHANGED <<row, draft, holder>>
    /\ UNCHANGED <<made, pc, locals, target>>

\* ... and ends with the last of them.
Awaited(p) == todo[p] = {}

DemoteEnds(p) ==
    /\ pc[p] = "demote"
    /\ Awaited(p)
    /\ GoTo(p, IF kind[p] = "create" THEN "insert" ELSE "set")
    /\ UNCHANGED <<row, draft, holder, made, locals, target, todo>>

\* tx.contact.create; isPrimary is false unless it was given.
Inserts(p) ==
    /\ pc[p] = "insert"
    /\ made < MaxContacts
    /\ made' = made + 1
    /\ Write(p, made + 1, [live |-> TRUE, primary |-> flag[p] = "true"])
    /\ target' = [target EXCEPT ![p] = made + 1]
    /\ GoTo(p, IF flag[p] = "true" THEN "commit" ELSE "look")
    /\ UNCHANGED <<locals, todo>>

\* tx.contact.update by id: it waits for the row and does not look at
\* deletedAt again.
UpdateById(p, at, columns, next) ==
    /\ pc[p] = at
    /\ Free(p, target[p])
    /\ Write(p, target[p], columns)
    /\ GoTo(p, next)
    /\ UNCHANGED <<made, locals, target, todo>>

Own(p) == View(p, target[p])

\* Mutant: the new contact becomes primary in any case.
LooksNot(p) == UpdateById(p, "look", [Own(p) EXCEPT !.primary = TRUE], "commit")

\* hasPrimary is read; without one the new contact, which nobody else can
\* see yet, becomes primary.
Looks(p) ==
    LET hasPrimary == \E c \in Live(p) : View(p, c).primary
    IN  UpdateById(p, "look", [Own(p) EXCEPT !.primary = ~hasPrimary], "commit")

\* Mutants of update: isPrimary = true is left out of the data; the write is
\* made outside the transaction, which holds the row.
SetsRest(p) ==
    UpdateById(p, "set", [Own(p) EXCEPT !.primary = @ /\ flag[p] # "false"],
               "commit")
SetsOutside(p) ==
    /\ UpdateById(p, "set", [Own(p) EXCEPT !.primary = flag[p] = "true"],
                  "commit")
    /\ holder[target[p]] = NoProc

Sets(p) ==
    UpdateById(p, "set",
               [Own(p) EXCEPT !.primary =
                   IF flag[p] = "unset" THEN @ ELSE flag[p] = "true"],
               "commit")

\* wasPrimary is what the read before the update saw.
Deletes(p) ==
    UpdateById(p, "delete", [live |-> FALSE, primary |-> FALSE],
               IF wasPrimary[p] THEN "next" ELSE "commit")

\* Mutant: the promoted contact may be any.
SuccessorsAny(p) == Live(p)

\* The oldest contact that is left.
Successors(p) == {c \in Live(p) : \A d \in Live(p) : c <= d}

FindsNext(p) ==
    /\ pc[p] = "next"
    /\ \/ /\ Successors(p) = {}
          /\ GoTo(p, "commit")
          /\ UNCHANGED target
       \/ \E c \in Successors(p) :
             /\ target' = [target EXCEPT ![p] = c]
             /\ GoTo(p, "promote")
    /\ UNCHANGED <<row, draft, holder, made, locals, todo>>

Promotes(p) ==
    UpdateById(p, "promote", [Own(p) EXCEPT !.primary = TRUE], "commit")

----------------------------------------------------------------------------
(* The end of a transaction *)

Release(p) == holder' = [c \in Ids |-> IF holder[c] = p THEN NoProc
                                                        ELSE holder[c]]

Leave(p) ==
    /\ GoTo(p, "idle")
    /\ todo' = [todo EXCEPT ![p] = {}]
    /\ kind' = [kind EXCEPT ![p] = "create"]
    /\ flag' = [flag EXCEPT ![p] = "unset"]
    /\ target' = [target EXCEPT ![p] = 0]
    /\ wasPrimary' = [wasPrimary EXCEPT ![p] = FALSE]

\* Audit row and commit: the drafts become visible together.
Commits(p) ==
    /\ pc[p] = "commit"
    /\ row' = [c \in Ids |-> View(p, c)]
    /\ Release(p)
    /\ Leave(p)
    /\ UNCHANGED <<draft, made>>

Rollback(p) ==
    /\ draft' = [c \in Ids |-> IF holder[c] = p THEN row[c] ELSE draft[c]]
    /\ Release(p)
    /\ Leave(p)
    /\ UNCHANGED <<row, made>>

\* A unique key is taken, the transaction takes more than five seconds, the
\* database or the process fails.
Fails(p) == pc[p] # "idle" /\ Rollback(p)

\* The rows the next write of p may have to wait for.
Wanted(p) ==
    {c \in Ids : \/ pc[p] = "demote" /\ c \in todo[p]
                 \/ pc[p] \in {"set", "delete", "promote"} /\ c = target[p]}

\* p is one of some requests that all wait for rows the others hold.
Deadlocked(p) ==
    \E D \in SUBSET Procs :
        /\ p \in D
        /\ \A q \in D :
              /\ Wanted(q) # {}
              /\ \A c \in Wanted(q) : holder[c] \in D \ {q}

\* PostgreSQL ends a deadlock by failing one of the transactions.
IsVictim(p) == Deadlocked(p) /\ Rollback(p)

----------------------------------------------------------------------------
Step(p) ==
    \/ DemoteStarts(p) \/ DemoteEnds(p) \/ \E c \in Ids : Demotes(p, c)
    \/ Inserts(p) \/ Looks(p) \/ Sets(p)
    \/ Deletes(p) \/ FindsNext(p) \/ Promotes(p)
    \/ Commits(p) \/ IsVictim(p)

Call(p) ==
    \/ \E f \in Flags : \/ CallCreate(p, f)
                        \/ \E c \in Ids : CallUpdate(p, c, f)
    \/ \E c \in Ids : CallDelete(p, c)

Next == \E p \in Procs : Call(p) \/ Step(p) \/ Fails(p)

Spec == Init /\ [][Next]_vars

\* Statements end, a lock that comes free again and again is got (PostgreSQL
\* queues those that wait), deadlocks are found.
Fairness == \A p \in Procs : SF_vars(Step(p))

FairSpec == Spec /\ Fairness

\* A create or a softDelete is under way alone; updates may overlap.
Alone ==
    \A p, q \in Procs :
        /\ pc[p] # "idle" /\ kind[p] \in {"create", "delete"}
        /\ pc[q] # "idle"
        => p = q

----------------------------------------------------------------------------
(* Properties *)

Primaries == {c \in Ids : row[c].live /\ row[c].primary}

\* A customer has at most one primary contact.  Holds of any number of updates
\* that overlap, which lock all rows, as long as each create and softDelete is
\* alone.
AtMostOnePrimary == \A c, d \in Primaries : c = d

\* Overlapping creates and updates leave several primary contacts, but no
\* more of them than calls overlap.
PrimariesBounded == Cardinality(Primaries) <= Cardinality(Procs)

\* ... and only creates do: as long as nothing was inserted next to the
\* contacts of the start, updates that overlap leave at most one.
OnePrimaryBeforeCreates == made = Existing => AtMostOnePrimary

\* A customer with contacts loses its last primary contact only when an update
\* of that very contact that says isPrimary = false commits, whatever overlaps.
PrimaryLostOnRequest ==
    [][Primaries # {} /\ Primaries' = {} /\ (\E c \in Ids : row'[c].live)
        => \E p \in Procs : /\ pc[p] = "commit" /\ pc'[p] = "idle"
                            /\ kind[p] = "update" /\ flag[p] = "false"
                            /\ Primaries = {target[p]}]_vars

\* When softDelete takes away the primary contact, the oldest of those that
\* are left takes its place.
OldestPromoted ==
    [][\A c \in Primaries : ~row'[c].live =>
          \A d \in Ids : row'[d].live =>
              \E e \in Primaries' : e <= d]_vars

\* Every call ends, in spite of the locks it waits for and of deadlocks.
CallsEnd == \A p \in Procs : pc[p] # "idle" ~> pc[p] = "idle"
=============================================================================
