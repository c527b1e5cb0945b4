--------------------------- MODULE ContactsProofs ---------------------------
(***************************************************************************)
(* Proofs about Contacts, for any number of requests and contacts: type    *)
(* correctness; what overlapping creates and updates leave of the primary  *)
(* contact, although none of them sees what the others have not committed; *)
(* and that updates which overlap keep a single one, as long as creates    *)
(* and deletes overlap with nothing.                                       *)
(***************************************************************************)
EXTENDS Contacts, FiniteSetTheorems, TLAPS

LEMMA InitType == Init => TypeOK
BY ContactsAssumption
   DEF Init, TypeOK, Contact, Pc, Ids

\* What a statement reads is a row, and writing one row keeps the types.
LEMMA ViewType ==
    ASSUME TypeOK, NEW p \in Procs, NEW c \in Ids
    PROVE  View(p, c) \in Contact
BY DEF TypeOK, View

LEMMA WriteType ==
    ASSUME TypeOK, NEW p \in Procs, NEW c \in Ids, NEW r \in Contact,
           Write(p, c, r)
    PROVE  /\ row' \in [Ids -> Contact]
           /\ draft' \in [Ids -> Contact]
           /\ holder' \in [Ids -> Procs \cup {NoProc}]
           /\ \A d \in Ids : holder'[d] = NoProc => draft'[d] = row'[d]
BY ContactsAssumption DEF TypeOK, Write

LEMMA UpdateByIdType ==
    ASSUME TypeOK, NEW p \in Procs, NEW at, NEW r \in Contact, NEW next,
           at \in {"look", "set", "delete", "promote"},
           next \in {"next", "commit"},
           UpdateById(p, at, r, next)
    PROVE  TypeOK'
<1>1. target[p] \in Ids
  BY DEF TypeOK, UpdateById
<1>2. /\ row' \in [Ids -> Contact]
      /\ draft' \in [Ids -> Contact]
      /\ holder' \in [Ids -> Procs \cup {NoProc}]
      /\ \A d \in Ids : holder'[d] = NoProc => draft'[d] = row'[d]
  BY <1>1, WriteType DEF UpdateById
<1> QED
  BY <1>1, <1>2 DEF TypeOK, UpdateById, GoTo, Pc, locals

LEMMA LeaveType ==
    ASSUME TypeOK, NEW p \in Procs, Leave(p)
    PROVE  /\ pc' \in [Procs -> Pc]
           /\ kind' \in [Procs -> {"create", "update", "delete"}]
           /\ flag' \in [Procs -> {"unset", "true", "false"}]
           /\ target' \in [Procs -> 0 .. MaxContacts]
           /\ todo' \in [Procs -> SUBSET Ids]
           /\ wasPrimary' \in [Procs -> BOOLEAN]
           /\ \A q \in Procs :
                 /\ pc'[q] \in {"look", "set", "delete", "promote"}
                       \/ kind'[q] = "update"
                    => target'[q] \in Ids
                 /\ pc'[q] \in {"open", "demote"} => kind'[q] # "delete"
                 /\ pc'[q] # "demote" => todo'[q] = {}
BY ContactsAssumption DEF TypeOK, Leave, GoTo, Pc, Ids

LEMMA CallType ==
    ASSUME TypeOK, NEW p \in Procs, Call(p)
    PROVE  TypeOK'
<1> USE ContactsAssumption DEF TypeOK, Contact, Pc, Ids
<1>1. ASSUME NEW f \in Flags, CallCreate(p, f)
      PROVE  TypeOK'
  BY <1>1 DEF CallCreate, Enter, GoTo
<1>2. ASSUME NEW f \in Flags, NEW c \in Ids, CallUpdate(p, c, f)
      PROVE  TypeOK'
  BY <1>2 DEF CallUpdate, Enter, GoTo
<1>3. ASSUME NEW c \in Ids, CallDelete(p, c)
      PROVE  TypeOK'
  BY <1>3 DEF CallDelete, Enter, GoTo
<1> QED
  BY <1>1, <1>2, <1>3 DEF Call

LEMMA RollbackType ==
    ASSUME TypeOK, NEW p \in Procs, Rollback(p)
    PROVE  TypeOK'
<1>1. /\ draft' \in [Ids -> Contact]
      /\ holder' \in [Ids -> Procs \cup {NoProc}]
      /\ \A c \in Ids : holder'[c] = NoProc => draft'[c] = row'[c]
  BY ContactsAssumption DEF TypeOK, Rollback, Release
<1> QED
  BY <1>1, LeaveType DEF Rollback, TypeOK

LEMMA StepType ==
    ASSUME TypeOK, NEW p \in Procs, Step(p)
    PROVE  TypeOK'
<1>1. CASE DemoteStarts(p)
  BY <1>1 DEF DemoteStarts, Demotable, Live, GoTo, locals, TypeOK, Pc
<1>2. ASSUME NEW c \in Ids, Demotes(p, c)
      PROVE  TypeOK'
  <2>1. todo' \in [Procs -> SUBSET Ids]
    BY <1>2 DEF Demotes, TypeOK
  <2>2. \A q \in Procs : pc[q] # "demote" => todo'[q] = {}
    BY <1>2 DEF Demotes, TypeOK
  <2>3. CASE View(p, c).live
    <3> DEFINE r == [View(p, c) EXCEPT !.primary = FALSE]
    <3>1. r \in Contact
      BY <1>2, ViewType DEF Contact
    <3>2. Write(p, c, r)
      BY <1>2, <2>3 DEF Demotes
    <3> HIDE DEF r
    <3>3. /\ row' \in [Ids -> Contact]
          /\ draft' \in [Ids -> Contact]
          /\ holder' \in [Ids -> Procs \cup {NoProc}]
          /\ \A d \in Ids : holder'[d] = NoProc => draft'[d] = row'[d]
      BY <3>1, <3>2, <1>2, WriteType
    <3> QED
      BY <1>2, <2>1, <2>2, <3>3 DEF Demotes, TypeOK, locals
  <2>4. CASE ~View(p, c).live
    BY <1>2, <2>1, <2>2, <2>4 DEF Demotes, TypeOK, locals
  <2> QED
    BY <2>3, <2>4
<1>3. CASE DemoteEnds(p)
  <2> DEFINE next == IF kind[p] = "create" THEN "insert" ELSE "set"
  <2>1. /\ next \in {"insert", "set"}
        /\ next = "set" => kind[p] = "update"
    BY <1>3 DEF DemoteEnds, TypeOK
  <2>2. pc' = [pc EXCEPT ![p] = next] /\ todo[p] = {}
    BY <1>3 DEF DemoteEnds, Awaited, GoTo
  <2> HIDE DEF next
  <2>3. pc' \in [Procs -> Pc]
    BY <2>1, <2>2 DEF TypeOK, Pc
  <2> QED
    BY <1>3, <2>1, <2>2, <2>3 DEF DemoteEnds, locals, TypeOK
<1>4. CASE Inserts(p)
  <2> DEFINE r == [live |-> TRUE, primary |-> flag[p] = "true"]
  <2>1. r \in Contact /\ made + 1 \in Ids
    BY <1>4, ContactsAssumption DEF Inserts, TypeOK, Contact, Ids
  <2>2. Write(p, made + 1, r)
    BY <1>4 DEF Inserts
  <2> HIDE DEF r
  <2>3. /\ row' \in [Ids -> Contact]
        /\ draft' \in [Ids -> Contact]
        /\ holder' \in [Ids -> Procs \cup {NoProc}]
        /\ \A d \in Ids : holder'[d] = NoProc => draft'[d] = row'[d]
    BY <2>1, <2>2, WriteType
  <2> QED
    BY <1>4, <2>1, <2>3, ContactsAssumption
       DEF Inserts, GoTo, TypeOK, locals, Pc, Ids
<1>5. CASE Looks(p) \/ Sets(p) \/ Deletes(p) \/ Promotes(p)
  <2>1. target[p] \in Ids
    BY <1>5 DEF Looks, Sets, Deletes, Promotes, UpdateById, TypeOK
  <2>2. Own(p) \in Contact
    BY <2>1, ViewType DEF Own
  <2>3. \A b \in BOOLEAN : [Own(p) EXCEPT !.primary = b] \in Contact
    BY <2>2 DEF Contact
  <2>4. CASE Looks(p)
    <3> DEFINE r == [Own(p) EXCEPT !.primary =
                        ~\E c \in Live(p) : View(p, c).primary]
    <3>1. r \in Contact
      BY <2>3
    <3>2. UpdateById(p, "look", r, "commit")
      BY <2>4 DEF Looks
    <3> HIDE DEF r
    <3> QED
      BY <3>1, <3>2, UpdateByIdType
  <2>5. CASE Sets(p)
    <3> DEFINE r == [Own(p) EXCEPT !.primary =
                        IF flag[p] = "unset" THEN @ ELSE flag[p] = "true"]
    <3>1. r \in Contact
      BY <2>2 DEF Contact
    <3>2. UpdateById(p, "set", r, "commit")
      BY <2>5 DEF Sets
    <3> HIDE DEF r
    <3> QED
      BY <3>1, <3>2, UpdateByIdType
  <2>6. CASE Deletes(p)
    <3> DEFINE r == [live |-> FALSE, primary |-> FALSE]
    <3>1. r \in Contact
      BY DEF Contact
    <3>2. UpdateById(p, "delete", r, 
                     IF wasPrimary[p] THEN "next" ELSE "commit")
      BY <2>6 DEF Deletes
    <3> HIDE DEF r
    <3> QED
      BY <3>1, <3>2, UpdateByIdType
  <2>7. CASE Promotes(p)
    <3> DEFINE r == [Own(p) EXCEPT !.primary = TRUE]
    <3>1. r \in Contact
      BY <2>3
    <3>2. UpdateById(p, "promote", r, "commit")
      BY <2>7 DEF Promotes
    <3> HIDE DEF r
    <3> QED
      BY <3>1, <3>2, UpdateByIdType
  <2> QED
    BY <1>5, <2>4, <2>5, <2>6, <2>7
<1>6. CASE FindsNext(p)
  <2>1. CASE GoTo(p, "commit") /\ UNCHANGED target
    BY <1>6, <2>1 DEF FindsNext, GoTo, locals, TypeOK, Pc
  <2>2. CASE \E c \in Ids : /\ target' = [target EXCEPT ![p] = c]
                            /\ GoTo(p, "promote")
    BY <1>6, <2>2, ContactsAssumption
       DEF FindsNext, GoTo, locals, TypeOK, Pc, Ids
  <2> QED
    BY <1>6, <2>1, <2>2 DEF FindsNext, Successors, Live
<1>7. CASE Commits(p)
  <2>1. row' \in [Ids -> Contact]
    BY <1>7, ViewType DEF Commits
  <2>2. holder' \in [Ids -> Procs \cup {NoProc}]
    BY <1>7 DEF Commits, Release, TypeOK
  <2>3. \A c \in Ids : holder'[c] = NoProc => draft'[c] = row'[c]
    BY <1>7, ContactsAssumption DEF Commits, Release, View, TypeOK
  <2> QED
    BY <1>7, <2>1, <2>2, <2>3, LeaveType DEF Commits, TypeOK
<1>8. CASE IsVictim(p)
  BY <1>8, RollbackType DEF IsVictim
<1> QED
  BY <1>1, <1>2, <1>3, <1>4, <1>5, <1>6, <1>7, <1>8 DEF Step

\* Every variable keeps its type, no row is locked by nobody with a draft of
\* its own, and a request that writes by id has an id.
THEOREM TypeCorrect == Spec => []TypeOK
<1>1. TypeOK /\ [Next]_vars => TypeOK'
  <2> SUFFICES ASSUME TypeOK, [Next]_vars
               PROVE  TypeOK'
    OBVIOUS
  <2>1. ASSUME NEW p \in Procs, Call(p) \/ Step(p) \/ Fails(p)
        PROVE  TypeOK'
    BY <2>1, CallType, StepType, RollbackType DEF Fails
  <2>2. CASE UNCHANGED vars
    BY <2>2 DEF vars, TypeOK
  <2> QED
    BY <2>1, <2>2 DEF Next
<1> QED
  BY <1>1, InitType, PTL DEF Spec

----------------------------------------------------------------------------
(* Overlapping creates and updates, until a contact is inserted *)

NoDeletes == "delete" \notin Calls

OnlyUpdates == Calls \subseteq {"update"}

\* Who holds which rows, and what a draft may say, while the contacts of the
\* start are all there are.  An update to primary that is past its updateMany
\* holds every live row, so there is one such update at a time.
BeforeInv ==
    /\ AtMostOnePrimary
    /\ \A c \in Ids : draft[c].live = row[c].live
    /\ \A p \in Procs :
          /\ pc[p] \in {"idle", "open", "demote", "insert", "set", "commit"}
          /\ pc[p] \in {"open", "demote"} => flag[p] = "true"
          /\ pc[p] = "insert" => kind[p] = "create"
          /\ pc[p] \in {"set", "commit"} => kind[p] = "update"
    /\ \A p \in Procs, c \in Ids :
          /\ row[c].live /\ pc[p] = "demote" => c \in todo[p] \/ holder[c] = p
          /\ row[c].live /\ flag[p] = "true" /\ pc[p] \in {"set", "commit"}
                => holder[c] = p
          /\ holder[c] = p => pc[p] \in {"demote", "insert", "set", "commit"}
          /\ holder[c] = p /\ draft[c].live /\ draft[c].primary =>
                \/ flag[p] = "true" /\ pc[p] = "commit" /\ c = target[p]
                \/ flag[p] = "unset" /\ row[c].primary

LEMMA BeforeInit == Init => BeforeInv
<1> SUFFICES ASSUME Init
             PROVE  BeforeInv
  OBVIOUS
<1>1. AtMostOnePrimary
  BY DEF Init, AtMostOnePrimary, Primaries
<1>2. \A c \in Ids : holder[c] = NoProc /\ draft[c] = row[c]
  BY DEF Init
<1> QED
  BY <1>1, <1>2, ContactsAssumption DEF Init, BeforeInv

\* An idle request enters a create or an update; it holds no row yet.
LEMMA BeforeCall ==
    ASSUME TypeOK, BeforeInv, NEW p \in Procs, Call(p), kind'[p] # "delete"
    PROVE  BeforeInv' /\ made' = made
<1>1. /\ UNCHANGED <<row, draft, holder, made, todo>>
      /\ pc[p] = "idle"
  BY DEF Call, CallCreate, CallUpdate, CallDelete, Enter
<1>2. AtMostOnePrimary'
  BY <1>1 DEF BeforeInv, AtMostOnePrimary, Primaries
<1>3. \A d \in Ids : holder[d] # p
  BY <1>1 DEF BeforeInv
<1>4. ASSUME NEW f \in Flags, NEW k \in {"create", "update"}, NEW at, NEW c,
             at = IF f = "true" THEN "open"
                  ELSE IF k = "create" THEN "insert" ELSE "set",
             pc' = [pc EXCEPT ![p] = at],
             kind' = [kind EXCEPT ![p] = k],
             flag' = [flag EXCEPT ![p] = f],
             target' = [target EXCEPT ![p] = c]
      PROVE  BeforeInv'
  BY <1>1, <1>2, <1>3, <1>4 DEF BeforeInv, TypeOK
<1>5. ASSUME NEW f \in Flags, CallCreate(p, f)
      PROVE  BeforeInv'
  BY <1>5, <1>4 DEF CallCreate, Enter, GoTo
<1>6. ASSUME NEW f \in Flags, NEW c \in Ids, CallUpdate(p, c, f)
      PROVE  BeforeInv'
  BY <1>6, <1>4 DEF CallUpdate, Enter, GoTo
<1>7. \A c \in Ids : ~CallDelete(p, c)
  BY DEF CallDelete, Enter, TypeOK
<1> QED
  BY <1>1, <1>5, <1>6, <1>7 DEF Call

\* A rolled back transaction leaves its rows as they were committed.
LEMMA BeforeRollback ==
    ASSUME TypeOK, BeforeInv, NEW p \in Procs, Rollback(p)
    PROVE  BeforeInv'
<1>1. AtMostOnePrimary'
  BY DEF BeforeInv, AtMostOnePrimary, Primaries, Rollback
<1>2. /\ UNCHANGED row
      /\ draft' = [c \in Ids |-> IF holder[c] = p THEN row[c] ELSE draft[c]]
      /\ holder' = [c \in Ids |-> IF holder[c] = p THEN NoProc ELSE holder[c]]
      /\ pc' = [pc EXCEPT ![p] = "idle"]
      /\ todo' = [todo EXCEPT ![p] = {}]
      /\ kind' = [kind EXCEPT ![p] = "create"]
      /\ flag' = [flag EXCEPT ![p] = "unset"]
      /\ target' = [target EXCEPT ![p] = 0]
  BY DEF Rollback, Release, Leave, GoTo
<1> QED
  BY <1>1, <1>2, ContactsAssumption DEF BeforeInv, TypeOK

\* The updateMany: the rows it has found are taken or still to be taken.
LEMMA BeforeDemote ==
    ASSUME TypeOK, BeforeInv, NEW p \in Procs,
           \/ DemoteStarts(p)
           \/ \E c \in Ids : Demotes(p, c)
           \/ DemoteEnds(p)
    PROVE  BeforeInv'
<1>1. AtMostOnePrimary' /\ UNCHANGED row
  BY DEF BeforeInv, AtMostOnePrimary, Primaries, DemoteStarts, Demotes,
         DemoteEnds, Write
<1>2. CASE DemoteStarts(p)
  <2>1. todo' = [todo EXCEPT ![p] = {c \in Ids : row[c].live}]
    BY <1>2 DEF DemoteStarts, Demotable, Live, View, BeforeInv
  <2> QED
    BY <1>1, <1>2, <2>1 DEF DemoteStarts, GoTo, BeforeInv, TypeOK, locals
<1>3. ASSUME NEW c \in Ids, Demotes(p, c)
      PROVE  BeforeInv'
  <2>1. CASE View(p, c).live
    <3> DEFINE r == [View(p, c) EXCEPT !.primary = FALSE]
    <3>1. r.live = row[c].live /\ ~r.primary
      BY <1>3, <2>1, ViewType DEF Contact, View, BeforeInv
    <3>2. /\ draft' = [draft EXCEPT ![c] = r]
          /\ holder' = [holder EXCEPT ![c] = p]
      BY <1>3, <2>1 DEF Demotes, Write
    <3> HIDE DEF r
    <3> QED
      BY <1>1, <1>3, <3>1, <3>2, ContactsAssumption
         DEF Demotes, Free, BeforeInv, TypeOK, locals
  <2>2. CASE ~View(p, c).live
    <3>1. ~row[c].live
      BY <2>2 DEF View, BeforeInv
    <3> QED
      BY <1>1, <1>3, <2>2, <3>1 DEF Demotes, BeforeInv, TypeOK, locals
  <2> QED
    BY <2>1, <2>2
<1>4. CASE DemoteEnds(p)
  <2> DEFINE next == IF kind[p] = "create" THEN "insert" ELSE "set"
  <2>1. /\ next \in {"insert", "set"}
        /\ next = "insert" => kind[p] = "create"
        /\ next = "set" => kind[p] = "update"
    BY <1>4 DEF DemoteEnds, TypeOK
  <2>2. pc' = [pc EXCEPT ![p] = next] /\ todo[p] = {}
    BY <1>4 DEF DemoteEnds, Awaited, GoTo
  <2> HIDE DEF next
  <2> QED
    BY <1>1, <1>4, <2>1, <2>2 DEF DemoteEnds, BeforeInv, TypeOK, locals
<1> QED
  BY <1>2, <1>3, <1>4

\* The update by id.
LEMMA BeforeSet ==
    ASSUME TypeOK, BeforeInv, NEW p \in Procs, Sets(p)
    PROVE  BeforeInv'
<1> DEFINE r == [Own(p) EXCEPT !.primary =
                     IF flag[p] = "unset" THEN @ ELSE flag[p] = "true"]
<1>1. /\ pc[p] = "set" /\ target[p] \in Ids
      /\ holder[target[p]] \in {p, NoProc}
      /\ draft' = [draft EXCEPT ![target[p]] = r]
      /\ holder' = [holder EXCEPT ![target[p]] = p]
      /\ pc' = [pc EXCEPT ![p] = "commit"]
      /\ UNCHANGED <<row, kind, flag, target, todo>>
  BY DEF Sets, UpdateById, Write, GoTo, Free, TypeOK, locals
<1>2. Own(p) \in Contact
  BY <1>1, ViewType DEF Own
<1>3. r.live = row[target[p]].live
  BY <1>1, <1>2 DEF Own, View, BeforeInv, Contact
<1>4. r.live /\ r.primary =>
         \/ flag[p] = "true"
         \/ flag[p] = "unset" /\ row[target[p]].primary
  <2>1. CASE flag[p] = "unset"
    <3>1. r.live = Own(p).live /\ r.primary = Own(p).primary
      BY <1>2, <2>1 DEF Contact
    <3>2. Own(p).live /\ Own(p).primary => row[target[p]].primary
      BY <1>1, <2>1 DEF Own, View, BeforeInv
    <3> QED
      BY <2>1, <3>1, <3>2
  <2>2. CASE flag[p] = "false"
    BY <1>2, <2>2 DEF Contact
  <2>3. CASE flag[p] = "true"
    BY <2>3
  <2> QED
    BY <2>1, <2>2, <2>3 DEF TypeOK
<1>5. AtMostOnePrimary'
  BY <1>1 DEF BeforeInv, AtMostOnePrimary, Primaries
<1> HIDE DEF r
<1> QED
  BY <1>1, <1>3, <1>4, <1>5, ContactsAssumption DEF BeforeInv, TypeOK

\* The commit: an update to primary publishes drafts of all live rows, one of
\* them primary; any other update adds no primary contact.
LEMMA BeforeCommit ==
    ASSUME TypeOK, BeforeInv, NEW p \in Procs, Commits(p)
    PROVE  BeforeInv'
<1>1. /\ pc[p] = "commit"
      /\ row' = [c \in Ids |-> IF holder[c] = p THEN draft[c] ELSE row[c]]
      /\ holder' = [c \in Ids |-> IF holder[c] = p THEN NoProc ELSE holder[c]]
      /\ pc' = [pc EXCEPT ![p] = "idle"]
      /\ todo' = [todo EXCEPT ![p] = {}]
      /\ kind' = [kind EXCEPT ![p] = "create"]
      /\ flag' = [flag EXCEPT ![p] = "unset"]
      /\ target' = [target EXCEPT ![p] = 0]
      /\ UNCHANGED draft
  BY DEF Commits, View, Release, Leave, GoTo
<1>2. \A c \in Ids : row'[c].live = row[c].live
  BY <1>1 DEF BeforeInv
<1>3. AtMostOnePrimary'
  <2>1. CASE flag[p] = "true"
    <3>1. \A c \in Ids : row'[c].live /\ row'[c].primary => c = target[p]
      BY <1>1, <1>2, <2>1 DEF BeforeInv
    <3> QED
      BY <3>1 DEF AtMostOnePrimary, Primaries
  <2>2. CASE flag[p] # "true"
    <3>1. \A c \in Ids : row'[c].live /\ row'[c].primary => row[c].primary
      BY <1>1, <1>2, <2>2 DEF BeforeInv
    <3> QED
      BY <1>2, <3>1 DEF AtMostOnePrimary, Primaries, BeforeInv
  <2> QED
    BY <2>1, <2>2
<1> QED
  BY <1>1, <1>2, <1>3, ContactsAssumption DEF BeforeInv, TypeOK

\* A step that leaves the number of contacts as it was at the start.
LEMMA BeforeNext ==
    ASSUME NoDeletes, TypeOK, BeforeInv, [Next]_vars, made' = made
    PROVE  BeforeInv'
<1>1. ASSUME NEW p \in Procs, Step(p)
      PROVE  BeforeInv'
  <2>1. /\ ~Looks(p) /\ ~Deletes(p) /\ ~FindsNext(p) /\ ~Promotes(p)
    BY DEF Looks, Deletes, FindsNext, Promotes, UpdateById, BeforeInv
  <2>2. ~Inserts(p)
    BY DEF Inserts, TypeOK
  <2> QED
    BY <1>1, <2>1, <2>2, BeforeDemote, BeforeSet, BeforeCommit, BeforeRollback
       DEF Step, IsVictim
<1>2. CASE UNCHANGED vars
  BY <1>2 DEF vars, BeforeInv, AtMostOnePrimary, Primaries
<1>3. ASSUME NEW p \in Procs, Call(p)
      PROVE  kind'[p] # "delete"
  BY <1>3 DEF Call, CallCreate, CallUpdate, CallDelete, Enter, TypeOK, NoDeletes
<1> QED
  BY <1>1, <1>2, <1>3, BeforeCall, BeforeRollback DEF Next, Fails

\* The number of contacts never goes down; it goes up with an insert.
LEMMA MadeGrows ==
    ASSUME TypeOK, [Next]_vars
    PROVE  /\ made \in Nat /\ made' \in Nat
           /\ made' = made \/ made' = made + 1
           /\ made' # made => \E p \in Procs : Inserts(p)
<1>1. made \in Nat
  BY ContactsAssumption DEF TypeOK
<1>2. made' = made \/ (made' = made + 1 /\ \E p \in Procs : Inserts(p))
  <2>1. ASSUME NEW p \in Procs, Step(p), ~Inserts(p)
        PROVE  made' = made
    BY <2>1 DEF Step, DemoteStarts, DemoteEnds, Demotes, Looks, Sets, Deletes,
         FindsNext, Promotes, Commits, IsVictim, Rollback, UpdateById
  <2>2. ASSUME NEW p \in Procs, Call(p) \/ Fails(p)
        PROVE  made' = made
    BY <2>2 DEF Call, CallCreate, CallUpdate, CallDelete, Enter, Fails,
         Rollback
  <2>3. ASSUME NEW p \in Procs, Inserts(p)
        PROVE  made' = made + 1
    BY <2>3 DEF Inserts
  <2>4. CASE UNCHANGED vars
    BY <2>4 DEF vars
  <2> QED
    BY <2>1, <2>2, <2>3, <2>4 DEF Next
<1> QED
  BY <1>1, <1>2

\* However many creates and updates overlap, and whichever are rolled back:
\* as long as none of the creates has inserted its contact, the customer has
\* at most one primary contact, for an update to primary locks every contact
\* before it sets one.
THEOREM BeforeCreatesOnePrimary ==
    ASSUME NoDeletes
    PROVE  Spec => []OnePrimaryBeforeCreates
<1> DEFINE IInv == made >= Existing /\ (made = Existing => BeforeInv)
<1>1. Init => IInv
  BY BeforeInit, ContactsAssumption DEF Init
<1>2. TypeOK /\ IInv /\ [Next]_vars => IInv'
  <2> SUFFICES ASSUME TypeOK, IInv, [Next]_vars
               PROVE  IInv'
    OBVIOUS
  <2>1. made \in Nat /\ (made' = made \/ made' = made + 1)
    BY MadeGrows
  <2>2. made' >= Existing /\ (made' = Existing => made' = made)
    BY <2>1, ContactsAssumption
  <2> QED
    BY <2>2, BeforeNext
<1>3. IInv => OnePrimaryBeforeCreates
  BY DEF BeforeInv, OnePrimaryBeforeCreates
<1> QED
  BY <1>1, <1>2, <1>3, TypeCorrect, PTL DEF Spec

\* Where clients only update, no contact is ever inserted, and so there is
\* one primary contact at most whatever the updates that overlap.
THEOREM UpdatesKeepOnePrimary ==
    ASSUME OnlyUpdates
    PROVE  Spec => []AtMostOnePrimary
<1> DEFINE IInv == /\ made = Existing
                   /\ \A p \in Procs :
                         pc[p] # "idle" => kind[p] = "update" /\ pc[p] # "insert"
<1>1. Init => IInv
  BY DEF Init
<1>2. TypeOK /\ IInv /\ [Next]_vars => IInv'
  <2> SUFFICES ASSUME TypeOK, IInv, [Next]_vars
               PROVE  IInv'
    OBVIOUS
  <2>1. made' = Existing
    BY MadeGrows DEF Inserts
  <2>2. ASSUME NEW p \in Procs, Call(p)
        PROVE  IInv'
    <3>1. PICK f \in Flags, c \in Ids : CallUpdate(p, c, f)
      BY <2>2 DEF Call, CallCreate, CallDelete, Enter, OnlyUpdates
    <3> QED
      BY <2>1, <3>1 DEF CallUpdate, Enter, GoTo, TypeOK
  <2>3. ASSUME NEW p \in Procs, Step(p)
        PROVE  IInv'
    <3>1. CASE DemoteStarts(p) \/ \E c \in Ids : Demotes(p, c)
      BY <2>1, <3>1 DEF DemoteStarts, Demotes, GoTo, TypeOK, locals
    <3>2. CASE DemoteEnds(p)
      BY <2>1, <3>2 DEF DemoteEnds, GoTo, TypeOK, locals
    <3>3. CASE Inserts(p)
      BY <3>3 DEF Inserts
    <3>4. CASE Looks(p) \/ Sets(p) \/ Deletes(p) \/ Promotes(p)
      BY <2>1, <3>4 DEF Looks, Sets, Deletes, Promotes, UpdateById, GoTo,
           TypeOK, locals
    <3>5. CASE FindsNext(p)
      BY <2>1, <3>5 DEF FindsNext, GoTo, TypeOK, locals
    <3>6. CASE Commits(p) \/ IsVictim(p)
      BY <2>1, <3>6 DEF Commits, IsVictim, Rollback, Leave, GoTo, TypeOK
    <3> QED
      BY <2>3, <3>1, <3>2, <3>3, <3>4, <3>5, <3>6 DEF Step
  <2>4. ASSUME NEW p \in Procs, Fails(p)
        PROVE  IInv'
    BY <2>1, <2>4 DEF Fails, Rollback, Leave, GoTo, TypeOK
  <2>5. CASE UNCHANGED vars
    BY <2>5 DEF vars
  <2> QED
    BY <2>2, <2>3, <2>4, <2>5 DEF Next
<1>3. IInv /\ OnePrimaryBeforeCreates => AtMostOnePrimary
  BY DEF OnePrimaryBeforeCreates
<1>4. NoDeletes
  BY DEF OnlyUpdates, NoDeletes
<1>5. Spec => []OnePrimaryBeforeCreates
  BY <1>4, BeforeCreatesOnePrimary
<1> QED
  BY <1>1, <1>2, <1>3, <1>5, TypeCorrect, PTL DEF Spec

----------------------------------------------------------------------------
(* Overlapping creates and updates, inserts included *)

\* Without deletes: a live row stays live; only a contact that was inserted
\* is live or locked; a transaction that is not a demotion holds the contact
\* it writes by id, and the other rows it holds it has demoted.
HoldInv ==
    /\ \A c \in Ids :
          /\ row[c].live => draft[c].live
          /\ c > made => ~row[c].live /\ holder[c] = NoProc
    /\ \A p \in Procs :
          /\ pc[p] \in {"idle", "open", "demote", "insert", "set", "look",
                        "commit"}
          /\ pc[p] \in {"open", "demote"} => flag[p] = "true"
          /\ pc[p] = "insert" => kind[p] = "create"
          /\ pc[p] = "look" => kind[p] = "create" /\ flag[p] # "true"
          /\ pc[p] = "set" => kind[p] = "update"
          /\ kind[p] # "delete"
          /\ kind[p] = "update" => row[target[p]].live
          /\ pc[p] \in {"look", "commit"} =>
                /\ target[p] \in Ids /\ holder[target[p]] = p
                /\ draft[target[p]].live
                /\ kind[p] = "create" => ~row[target[p]].live
          /\ pc[p] = "commit" /\ flag[p] = "true" => draft[target[p]].primary
          /\ pc[p] = "commit" /\ flag[p] = "unset" /\ kind[p] = "update" =>
                draft[target[p]].primary = row[target[p]].primary
          /\ pc[p] = "commit" /\ flag[p] = "false" /\ kind[p] = "update" =>
                ~draft[target[p]].primary
    /\ \A p \in Procs, c \in Ids : holder[c] = p =>
          /\ pc[p] \in {"demote", "insert", "set", "look", "commit"}
          /\ \/ c = target[p] /\ pc[p] \in {"look", "commit"}
             \/ flag[p] = "true" /\ ~draft[c].primary

LEMMA HoldInit == Init => HoldInv
<1> SUFFICES ASSUME Init
             PROVE  HoldInv
  OBVIOUS
<1>1. \A c \in Ids : /\ row[c].live <=> c <= Existing
                     /\ draft[c] = row[c] /\ holder[c] = NoProc
  BY DEF Init
<1>2. \A c \in Ids : c > made => ~(c <= Existing)
  BY ContactsAssumption DEF Init, Ids
<1>3. \A p \in Procs : pc[p] = "idle" /\ kind[p] = "create"
  BY DEF Init
<1> QED
  BY <1>1, <1>2, <1>3, ContactsAssumption DEF HoldInv

LEMMA HoldCall ==
    ASSUME NoDeletes, TypeOK, HoldInv, NEW p \in Procs, Call(p)
    PROVE  HoldInv'
<1>1. /\ UNCHANGED <<row, draft, holder, made, todo>>
      /\ pc[p] = "idle"
  BY DEF Call, CallCreate, CallUpdate, CallDelete, Enter
<1>2. \A d \in Ids : holder[d] # p
  BY <1>1 DEF HoldInv
<1>3. ASSUME NEW f \in Flags, CallCreate(p, f)
      PROVE  HoldInv'
  <2> DEFINE at == IF f = "true" THEN "open" ELSE "insert"
  <2>1. /\ pc' = [pc EXCEPT ![p] = at]
        /\ kind' = [kind EXCEPT ![p] = "create"]
        /\ flag' = [flag EXCEPT ![p] = f]
        /\ target' = [target EXCEPT ![p] = 0]
    BY <1>3 DEF CallCreate, Enter, GoTo
  <2>2. at \in {"open", "insert"} /\ (at = "open" => f = "true")
    OBVIOUS
  <2> HIDE DEF at
  <2> QED
    BY <1>1, <1>2, <2>1, <2>2 DEF HoldInv, TypeOK
<1>4. ASSUME NEW f \in Flags, NEW c \in Ids, CallUpdate(p, c, f)
      PROVE  HoldInv'
  <2> DEFINE at == IF f = "true" THEN "open" ELSE "set"
  <2>1. /\ pc' = [pc EXCEPT ![p] = at]
        /\ kind' = [kind EXCEPT ![p] = "update"]
        /\ flag' = [flag EXCEPT ![p] = f]
        /\ target' = [target EXCEPT ![p] = c]
        /\ row[c].live
    BY <1>4 DEF CallUpdate, Enter, GoTo
  <2>2. at \in {"open", "set"} /\ (at = "open" => f = "true")
    OBVIOUS
  <2> HIDE DEF at
  <2> QED
    BY <1>1, <1>2, <2>1, <2>2 DEF HoldInv, TypeOK
<1> QED
  BY <1>3, <1>4 DEF Call, CallDelete, Enter, NoDeletes

LEMMA HoldRollback ==
    ASSUME TypeOK, HoldInv, NEW p \in Procs, Rollback(p)
    PROVE  HoldInv'
<1>1. /\ UNCHANGED <<row, made>>
      /\ draft' = [c \in Ids |-> IF holder[c] = p THEN row[c] ELSE draft[c]]
      /\ holder' = [c \in Ids |-> IF holder[c] = p THEN NoProc ELSE holder[c]]
      /\ pc' = [pc EXCEPT ![p] = "idle"]
      /\ kind' = [kind EXCEPT ![p] = "create"]
      /\ flag' = [flag EXCEPT ![p] = "unset"]
      /\ target' = [target EXCEPT ![p] = 0]
  BY DEF Rollback, Release, Leave, GoTo
<1> QED
  BY <1>1, ContactsAssumption DEF HoldInv, TypeOK

LEMMA HoldDemote ==
    ASSUME TypeOK, HoldInv, NEW p \in Procs,
           \/ DemoteStarts(p)
           \/ \E c \in Ids : Demotes(p, c)
           \/ DemoteEnds(p)
    PROVE  HoldInv'
<1>1. CASE DemoteStarts(p)
  BY <1>1 DEF DemoteStarts, GoTo, HoldInv, TypeOK, locals
<1>2. ASSUME NEW c \in Ids, Demotes(p, c)
      PROVE  HoldInv'
  <2>1. CASE View(p, c).live
    <3> DEFINE r == [View(p, c) EXCEPT !.primary = FALSE]
    <3>1. r.live /\ ~r.primary
      BY <1>2, <2>1, ViewType DEF Contact
    <3>2. /\ draft' = [draft EXCEPT ![c] = r]
          /\ holder' = [holder EXCEPT ![c] = p]
          /\ UNCHANGED <<row, made, pc, kind, flag, target>>
      BY <1>2, <2>1 DEF Demotes, Write, locals
    <3>3. pc[p] = "demote" /\ holder[c] \in {p, NoProc}
      BY <1>2 DEF Demotes, Free
    <3>4. ~(c > made)
      <4>1. CASE holder[c] = p
        BY <4>1, ContactsAssumption DEF HoldInv
      <4>2. CASE holder[c] # p
        BY <2>1, <4>2 DEF View, HoldInv
      <4> QED
        BY <4>1, <4>2
    <3> HIDE DEF r
    <3> QED
      BY <3>1, <3>2, <3>3, <3>4, ContactsAssumption DEF HoldInv, TypeOK
  <2>2. CASE ~View(p, c).live
    BY <1>2, <2>2 DEF Demotes, HoldInv, TypeOK, locals
  <2> QED
    BY <2>1, <2>2
<1>3. CASE DemoteEnds(p)
  <2> DEFINE next == IF kind[p] = "create" THEN "insert" ELSE "set"
  <2>1. /\ next \in {"insert", "set"}
        /\ next = "insert" => kind[p] = "create"
        /\ next = "set" => kind[p] = "update"
    BY <1>3 DEF DemoteEnds, TypeOK
  <2>2. pc[p] = "demote" /\ pc' = [pc EXCEPT ![p] = next]
    BY <1>3 DEF DemoteEnds, GoTo
  <2> HIDE DEF next
  <2> QED
    BY <1>3, <2>1, <2>2 DEF DemoteEnds, HoldInv, TypeOK, locals
<1> QED
  BY <1>1, <1>2, <1>3

LEMMA HoldInsert ==
    ASSUME TypeOK, HoldInv, NEW p \in Procs, Inserts(p)
    PROVE  HoldInv'
<1> DEFINE r == [live |-> TRUE, primary |-> flag[p] = "true"]
           next == IF flag[p] = "true" THEN "commit" ELSE "look"
           n == made + 1
<1>1. /\ n \in Ids /\ n > made /\ made' = n
      /\ \A c \in Ids : c > n => c > made
  BY ContactsAssumption DEF Inserts, TypeOK, Ids
<1>2. ~row[n].live /\ holder[n] = NoProc
  BY <1>1 DEF HoldInv
<1>3. /\ pc[p] = "insert"
      /\ draft' = [draft EXCEPT ![n] = r]
      /\ holder' = [holder EXCEPT ![n] = p]
      /\ target' = [target EXCEPT ![p] = n]
      /\ pc' = [pc EXCEPT ![p] = next]
      /\ UNCHANGED <<row, kind, flag>>
  BY DEF Inserts, Write, GoTo, locals
<1>4. /\ next \in {"commit", "look"} /\ (next = "look" => flag[p] # "true")
      /\ r.live /\ (flag[p] = "true" => r.primary)
      /\ next = "commit" => flag[p] = "true"
  OBVIOUS
<1>5. /\ kind[p] = "create"
      /\ \A c \in Ids : holder[c] = p => flag[p] = "true" /\ ~draft[c].primary
      /\ \A c \in Ids : c > n => c # n
  BY <1>1, <1>3 DEF HoldInv, Ids
<1> HIDE DEF r, next, n
<1> QED
  BY <1>1, <1>2, <1>3, <1>4, <1>5, ContactsAssumption DEF HoldInv, TypeOK

\* The writes by id of a create and of an update.
LEMMA HoldWrite ==
    ASSUME TypeOK, HoldInv, NEW p \in Procs, Looks(p) \/ Sets(p)
    PROVE  HoldInv'
<1>1. /\ target[p] \in Ids /\ holder[target[p]] \in {p, NoProc}
      /\ holder' = [holder EXCEPT ![target[p]] = p]
      /\ pc' = [pc EXCEPT ![p] = "commit"]
      /\ UNCHANGED <<row, made, kind, flag, target>>
  BY DEF Looks, Sets, UpdateById, Write, GoTo, Free, TypeOK, locals
<1>2. Own(p) \in Contact
  BY <1>1, ViewType DEF Own
<1>3. ASSUME NEW r, r.live,
             draft' = [draft EXCEPT ![target[p]] = r],
             kind[p] = "create" => ~row[target[p]].live,
             flag[p] = "true" => r.primary,
             flag[p] = "unset" /\ kind[p] = "update" =>
                 r.primary = row[target[p]].primary,
             flag[p] = "false" /\ kind[p] = "update" => ~r.primary,
             ~(target[p] > made), pc[p] \in {"look", "set"},
             flag[p] = "true" => kind[p] # "create"
      PROVE  HoldInv'
  <2>1. \A c \in Ids : /\ row'[c].live => draft'[c].live
                       /\ c > made' => ~row'[c].live /\ holder'[c] = NoProc
    BY <1>1, <1>3 DEF HoldInv, TypeOK
  <2>2. \A q \in Procs, c \in Ids : holder'[c] = q =>
          /\ pc'[q] \in {"demote", "insert", "set", "look", "commit"}
          /\ \/ c = target'[q] /\ pc'[q] \in {"look", "commit"}
             \/ flag'[q] = "true" /\ ~draft'[c].primary
    BY <1>1, <1>3 DEF HoldInv, TypeOK
  <2>3. ASSUME NEW q \in Procs, q # p
        PROVE  /\ pc'[q] = pc[q] /\ kind'[q] = kind[q] /\ flag'[q] = flag[q]
               /\ target'[q] = target[q]
               /\ pc[q] \in {"look", "commit"} => target[q] # target[p]
    BY <1>1, <2>3, ContactsAssumption DEF HoldInv, TypeOK
  <2> QED
    BY <1>1, <1>3, <2>1, <2>2, <2>3 DEF HoldInv, TypeOK
<1>4. ~(target[p] > made)
  <2>1. CASE Looks(p)
    BY <1>1, <2>1, ContactsAssumption DEF Looks, UpdateById, HoldInv
  <2>2. CASE Sets(p)
    BY <1>1, <2>2 DEF Sets, UpdateById, HoldInv
  <2> QED
    BY <2>1, <2>2
<1>5. CASE Looks(p)
  <2> DEFINE b == ~\E c \in Live(p) : View(p, c).primary
             r == [Own(p) EXCEPT !.primary = b]
  <2>1. /\ pc[p] = "look" /\ kind[p] = "create" /\ flag[p] # "true"
        /\ Own(p).live /\ ~row[target[p]].live
    BY <1>5 DEF Looks, UpdateById, HoldInv, Own, View
  <2>2. r.live
    BY <1>2, <2>1 DEF Contact
  <2>3. draft' = [draft EXCEPT ![target[p]] = r]
    BY <1>5 DEF Looks, UpdateById, Write
  <2> HIDE DEF r
  <2> QED
    BY <1>3, <1>4, <2>1, <2>2, <2>3
<1>6. CASE Sets(p)
  <2> DEFINE r == [Own(p) EXCEPT !.primary =
                       IF flag[p] = "unset" THEN @ ELSE flag[p] = "true"]
  <2>1. pc[p] = "set" /\ kind[p] = "update" /\ row[target[p]].live
    BY <1>6 DEF Sets, UpdateById, HoldInv
  <2>2. Own(p).live
    BY <1>1, <2>1 DEF Own, View, HoldInv
  <2>3. r.live
    BY <1>2, <2>2 DEF Contact
  <2>4. flag[p] = "true" => r.primary
    BY <1>2 DEF Contact
  <2>5. flag[p] = "false" => ~r.primary
    BY <1>2 DEF Contact
  <2>6. flag[p] = "unset" => r.primary = row[target[p]].primary
    <3>1. ASSUME flag[p] = "unset"
          PROVE  holder[target[p]] # p
      BY <1>1, <2>1, <3>1 DEF HoldInv
    <3> QED
      BY <1>2, <3>1 DEF Contact, Own, View
  <2>7. draft' = [draft EXCEPT ![target[p]] = r]
    BY <1>6 DEF Sets, UpdateById, Write
  <2> HIDE DEF r
  <2> QED
    BY <1>3, <1>4, <2>1, <2>3, <2>4, <2>5, <2>6, <2>7
<1> QED
  BY <1>5, <1>6

\* What a commit does to the variables.
LEMMA CommitStep ==
    ASSUME NEW p \in Procs, Commits(p)
    PROVE  /\ pc[p] = "commit"
           /\ row' = [c \in Ids |-> IF holder[c] = p THEN draft[c] ELSE row[c]]
           /\ holder' = [c \in Ids |-> IF holder[c] = p THEN NoProc
                                                        ELSE holder[c]]
           /\ pc' = [pc EXCEPT ![p] = "idle"]
           /\ todo' = [todo EXCEPT ![p] = {}]
           /\ kind' = [kind EXCEPT ![p] = "create"]
           /\ flag' = [flag EXCEPT ![p] = "unset"]
           /\ target' = [target EXCEPT ![p] = 0]
           /\ UNCHANGED <<draft, made>>
BY DEF Commits, View, Release, Leave, GoTo

LEMMA HoldCommit ==
    ASSUME TypeOK, HoldInv, NEW p \in Procs, Commits(p)
    PROVE  HoldInv'
<1>1. \A c \in Ids : row[c].live => row'[c].live
  BY CommitStep DEF HoldInv
<1>2. \A c \in Ids : holder[c] # p => row'[c] = row[c]
  BY CommitStep
<1>3. \A q \in Procs : q # p /\ pc[q] \in {"look", "commit"} =>
          row'[target[q]] = row[target[q]]
  BY <1>2 DEF HoldInv
<1>4. \A q \in Procs : q # p /\ kind[q] = "update" => row'[target[q]].live
  BY <1>1 DEF HoldInv, TypeOK
<1>5. \A c \in Ids : /\ row'[c].live => draft'[c].live
                     /\ c > made' => ~row'[c].live /\ holder'[c] = NoProc
  BY CommitStep, ContactsAssumption DEF HoldInv
<1> QED
  BY <1>1, <1>2, <1>3, <1>4, <1>5, CommitStep, ContactsAssumption
     DEF HoldInv, TypeOK

LEMMA HoldNext ==
    ASSUME NoDeletes, TypeOK, HoldInv, [Next]_vars
    PROVE  HoldInv'
<1>1. ASSUME NEW p \in Procs, Step(p)
      PROVE  HoldInv'
  <2>1. ~Deletes(p) /\ ~FindsNext(p) /\ ~Promotes(p)
    BY DEF Deletes, FindsNext, Promotes, UpdateById, HoldInv
  <2> QED
    BY <1>1, <2>1, HoldDemote, HoldInsert, HoldWrite, HoldCommit, HoldRollback
       DEF Step, IsVictim
<1>2. CASE UNCHANGED vars
  BY <1>2 DEF vars, HoldInv
<1> QED
  BY <1>1, <1>2, HoldCall, HoldRollback DEF Next, Fails

LEMMA HoldAlways == NoDeletes => (Spec => [](TypeOK /\ HoldInv))
<1> SUFFICES ASSUME NoDeletes
             PROVE  Spec => [](TypeOK /\ HoldInv)
  OBVIOUS
<1>1. TypeOK /\ HoldInv /\ [Next]_vars => HoldInv'
  BY HoldNext
<1> QED
  BY <1>1, HoldInit, TypeCorrect, PTL DEF Spec

\* Only a commit changes rows.
LEMMA OnlyCommitsChange ==
    ASSUME [Next]_vars
    PROVE  row' = row \/ \E p \in Procs : Commits(p)
<1>1. ASSUME NEW p \in Procs, Step(p), ~Commits(p)
      PROVE  row' = row
  BY <1>1 DEF Step, DemoteStarts, DemoteEnds, Demotes, Inserts, Looks, Sets,
       Deletes, FindsNext, Promotes, IsVictim, Rollback, UpdateById, Write
<1>2. ASSUME NEW p \in Procs, Call(p) \/ Fails(p)
      PROVE  row' = row
  BY <1>2 DEF Call, CallCreate, CallUpdate, CallDelete, Enter, Fails, Rollback
<1>3. CASE UNCHANGED vars
  BY <1>3 DEF vars
<1> QED
  BY <1>1, <1>2, <1>3 DEF Next

\* Where nobody deletes, the primary contact is lost only when an update of it
\* that asks for that commits, whatever overlaps: a create leaves the other
\* rows primary that it has not replaced by its own.
THEOREM PrimaryIsLostOnRequest ==
    ASSUME NoDeletes
    PROVE  Spec => PrimaryLostOnRequest
<1>1. TypeOK /\ HoldInv /\ [Next]_vars =>
        [Primaries # {} /\ Primaries' = {} /\ (\E c \in Ids : row'[c].live)
           => \E p \in Procs : /\ pc[p] = "commit" /\ pc'[p] = "idle"
                               /\ kind[p] = "update" /\ flag[p] = "false"
                               /\ Primaries = {target[p]}]_vars
  <2> SUFFICES ASSUME TypeOK, HoldInv, [Next]_vars, Primaries # {},
                      Primaries' = {}
               PROVE  \E p \in Procs : /\ pc[p] = "commit" /\ pc'[p] = "idle"
                                       /\ kind[p] = "update" /\ flag[p] = "false"
                                       /\ Primaries = {target[p]}
    OBVIOUS
  <2>1. PICK c \in Ids : row[c].live /\ row[c].primary
    BY DEF Primaries
  <2>2. \A d \in Ids : ~(row'[d].live /\ row'[d].primary)
    BY DEF Primaries
  <2>3. row' # row
    BY <2>1, <2>2
  <2>4. PICK p \in Procs : Commits(p)
    BY <2>3, OnlyCommitsChange
  <2>5. /\ pc[p] = "commit"
        /\ \A d \in Ids : row'[d] = IF holder[d] = p THEN draft[d] ELSE row[d]
    BY <2>4, CommitStep
  <2>6. flag[p] # "true"
    BY <2>2, <2>5 DEF HoldInv
  <2>7. holder[c] = p /\ c = target[p]
    BY <2>1, <2>2, <2>5, <2>6 DEF HoldInv
  <2>8. Primaries = {target[p]}
    <3>1. \A d \in Primaries : d = target[p]
      BY <2>2, <2>5, <2>6 DEF HoldInv, Primaries
    <3> QED  BY <2>1, <2>7, <3>1 DEF Primaries
  <2>9. pc'[p] = "idle"
    BY <2>4 DEF Commits, Leave, GoTo, TypeOK
  <2>10. kind[p] = "update"
    BY <2>1, <2>5, <2>7 DEF HoldInv, TypeOK
  <2>11. flag[p] # "unset"
    BY <2>1, <2>2, <2>5, <2>7, <2>10 DEF HoldInv
  <2> QED
    BY <2>5, <2>6, <2>8, <2>9, <2>10, <2>11 DEF TypeOK
<1> QED
  BY <1>1, HoldAlways, PTL DEF Spec, PrimaryLostOnRequest

----------------------------------------------------------------------------
(* The number of primary contacts *)

\* f names a request for every primary contact: the one that committed it.
\* Its next transaction has demoted the contact when it is past its
\* updateMany, or found it when it has looked.
Owner(f) ==
    /\ f \in [Primaries -> Procs]
    /\ \A c, d \in Primaries : f[c] = f[d] => c = d
    /\ \A c \in Primaries :
          /\ pc[f[c]] = "demote" => c \in todo[f[c]] \/ holder[c] = f[c]
          /\ pc[f[c]] \in {"insert", "set", "commit"} /\ flag[f[c]] = "true" =>
                holder[c] = f[c]
          /\ pc[f[c]] = "commit" /\ kind[f[c]] = "create"
             /\ flag[f[c]] # "true" =>
                ~draft[target[f[c]]].primary

Owned == \E f \in [Primaries -> Procs] : Owner(f)

LEMMA OwnerInit == Init => Owned
<1> SUFFICES ASSUME Init
             PROVE  Owned
  OBVIOUS
<1>1. PICK p \in Procs : TRUE
  BY ContactsAssumption
<1>2. \A c \in Primaries : c = 1
  BY DEF Init, Primaries
<1>3. \A q \in Procs : pc[q] = "idle"
  BY DEF Init
<1> DEFINE f == [c \in Primaries |-> p]
<1>4. f \in [Primaries -> Procs] /\ \A c \in Primaries : f[c] = p
  OBVIOUS
<1> HIDE DEF f
<1> QED
  BY <1>2, <1>3, <1>4 DEF Owned, Owner

\* Rows that are not changed keep their owners; a request that is idle, or
\* just enters a call, owes nothing.
LEMMA OwnerKept ==
    ASSUME TypeOK, NEW p \in Procs, NEW f, Owner(f), row' = row,
           \A q \in Procs : q # p =>
               /\ pc'[q] = pc[q] /\ todo'[q] = todo[q] /\ kind'[q] = kind[q]
               /\ flag'[q] = flag[q] /\ target'[q] = target[q],
           \A q \in Procs : q # p => \A c \in Ids :
               holder[c] = q => holder'[c] = q,
           \A q \in Procs : q # p /\ pc[q] = "commit" =>
               draft'[target[q]] = draft[target[q]],
           \A c \in Primaries : f[c] = p =>
               /\ pc'[p] = "demote" => c \in todo'[p] \/ holder'[c] = p
               /\ pc'[p] \in {"insert", "set", "commit"} /\ flag'[p] = "true" =>
                     holder'[c] = p
               /\ pc'[p] = "commit" /\ kind'[p] = "create"
                  /\ flag'[p] # "true" => ~draft'[target'[p]].primary
    PROVE  Owned'
<1>1. Primaries' = Primaries
  BY DEF Primaries
<1>2. Primaries \subseteq Ids
  BY DEF Primaries
<1>3. ASSUME NEW c \in Primaries
      PROVE  /\ pc'[f[c]] = "demote" => c \in todo'[f[c]] \/ holder'[c] = f[c]
             /\ pc'[f[c]] \in {"insert", "set", "commit"}
                /\ flag'[f[c]] = "true" => holder'[c] = f[c]
             /\ pc'[f[c]] = "commit" /\ kind'[f[c]] = "create"
                /\ flag'[f[c]] # "true" => ~draft'[target'[f[c]]].primary
  <2>1. f[c] \in Procs /\ c \in Ids
    BY <1>2, <1>3 DEF Owner
  <2>2. CASE f[c] = p
    BY <1>3, <2>2
  <2>3. CASE f[c] # p
    BY <1>3, <2>1, <2>3 DEF Owner
  <2> QED
    BY <2>2, <2>3
<1>4. Owner(f)'
  BY <1>1, <1>3 DEF Owner
<1> QED
  BY <1>1, <1>4 DEF Owned, Owner

LEMMA OwnerCall ==
    ASSUME NoDeletes, TypeOK, HoldInv, NEW p \in Procs, NEW f, Owner(f), Call(p)
    PROVE  Owned'
<1>1. UNCHANGED <<row, draft, holder, todo>>
  BY DEF Call, CallCreate, CallUpdate, CallDelete, Enter
<1>2. /\ \A q \in Procs : q # p =>
               /\ pc'[q] = pc[q] /\ kind'[q] = kind[q]
               /\ flag'[q] = flag[q] /\ target'[q] = target[q]
      /\ pc'[p] \in {"open", "insert", "set"}
      /\ pc'[p] \in {"insert", "set"} => flag'[p] # "true"
  <2>1. ASSUME NEW g \in Flags, CallCreate(p, g)
        PROVE  <1>2!1 /\ <1>2!2 /\ <1>2!3
    BY <2>1 DEF CallCreate, Enter, GoTo, TypeOK
  <2>2. ASSUME NEW g \in Flags, NEW c \in Ids, CallUpdate(p, c, g)
        PROVE  <1>2!1 /\ <1>2!2 /\ <1>2!3
    BY <2>2 DEF CallUpdate, Enter, GoTo, TypeOK
  <2> QED
    BY <2>1, <2>2 DEF Call, CallDelete, Enter, NoDeletes
<1> QED
  BY <1>1, <1>2, OwnerKept

LEMMA OwnerRollback ==
    ASSUME TypeOK, HoldInv, NEW p \in Procs, NEW f, Owner(f), Rollback(p)
    PROVE  Owned'
<1>1. /\ row' = row
      /\ draft' = [c \in Ids |-> IF holder[c] = p THEN row[c] ELSE draft[c]]
      /\ holder' = [c \in Ids |-> IF holder[c] = p THEN NoProc ELSE holder[c]]
      /\ pc' = [pc EXCEPT ![p] = "idle"]
      /\ todo' = [todo EXCEPT ![p] = {}]
      /\ kind' = [kind EXCEPT ![p] = "create"]
      /\ flag' = [flag EXCEPT ![p] = "unset"]
      /\ target' = [target EXCEPT ![p] = 0]
  BY DEF Rollback, Release, Leave, GoTo
<1>2. \A q \in Procs : q # p =>
          /\ pc'[q] = pc[q] /\ todo'[q] = todo[q] /\ kind'[q] = kind[q]
          /\ flag'[q] = flag[q] /\ target'[q] = target[q]
  BY <1>1 DEF TypeOK
<1>3. \A q \in Procs : q # p => \A c \in Ids : holder[c] = q => holder'[c] = q
  BY <1>1
<1>4. \A q \in Procs : q # p /\ pc[q] = "commit" =>
          draft'[target[q]] = draft[target[q]]
  BY <1>1 DEF HoldInv
<1>5. pc'[p] = "idle"
  BY <1>1 DEF TypeOK
<1> QED
  BY <1>1, <1>2, <1>3, <1>4, <1>5, OwnerKept

LEMMA OwnerDemote ==
    ASSUME TypeOK, HoldInv, NEW p \in Procs, NEW f, Owner(f),
           \/ DemoteStarts(p)
           \/ \E c \in Ids : Demotes(p, c)
           \/ DemoteEnds(p)
    PROVE  Owned'
<1>1. \A q \in Procs : q # p =>
          /\ pc'[q] = pc[q] /\ todo'[q] = todo[q] /\ kind'[q] = kind[q]
          /\ flag'[q] = flag[q] /\ target'[q] = target[q]
  BY DEF DemoteStarts, Demotes, DemoteEnds, GoTo, locals, TypeOK
<1>2. row' = row
  BY DEF DemoteStarts, Demotes, DemoteEnds, Write
<1>3. \A c \in Primaries : c \in Ids /\ row[c].live /\ View(p, c).live
  BY DEF Primaries, View, HoldInv
<1>4. CASE DemoteStarts(p)
  <2>1. pc'[p] = "demote" /\ \A c \in Primaries : c \in todo'[p]
    BY <1>3, <1>4 DEF DemoteStarts, Demotable, Live, GoTo, TypeOK
  <2>2. UNCHANGED <<draft, holder>>
    BY <1>4 DEF DemoteStarts
  <2> QED
    BY <1>1, <1>2, <2>1, <2>2, OwnerKept
<1>5. ASSUME NEW c \in Ids, Demotes(p, c)
      PROVE  Owned'
  <2>1. /\ pc[p] = "demote" /\ pc'[p] = "demote"
        /\ todo'[p] = todo[p] \ {c}
        /\ holder[c] \in {p, NoProc}
    BY <1>5 DEF Demotes, Free, TypeOK
  <2>2. \A d \in Ids : d # c => holder'[d] = holder[d] /\ draft'[d] = draft[d]
    BY <1>5 DEF Demotes, Write, TypeOK
  <2>3. c \in Primaries => holder'[c] = p
    BY <1>3, <1>5 DEF Demotes, Write, TypeOK
  <2>4. \A d \in Primaries : f[d] = p => d \in todo'[p] \/ holder'[d] = p
    BY <1>3, <2>1, <2>2, <2>3 DEF Owner
  <2>5. \A q \in Procs : q # p =>
            \A d \in Ids : holder[d] = q => holder'[d] = q
    BY <2>1, <2>2, ContactsAssumption
  <2>6. \A q \in Procs : q # p /\ pc[q] = "commit" =>
            draft'[target[q]] = draft[target[q]]
    BY <2>1, <2>2, ContactsAssumption DEF HoldInv
  <2> QED
    BY <1>1, <1>2, <2>1, <2>4, <2>5, <2>6, OwnerKept
<1>6. CASE DemoteEnds(p)
  <2>1. /\ pc[p] = "demote" /\ pc'[p] \in {"insert", "set"} /\ todo[p] = {}
        /\ UNCHANGED <<draft, holder>>
    BY <1>6 DEF DemoteEnds, Awaited, GoTo, TypeOK
  <2>2. \A c \in Primaries : f[c] = p => holder[c] = p
    BY <2>1 DEF Owner
  <2> QED
    BY <1>1, <1>2, <2>1, <2>2, OwnerKept
<1> QED
  BY <1>4, <1>5, <1>6

LEMMA OwnerInsert ==
    ASSUME TypeOK, HoldInv, NEW p \in Procs, NEW f, Owner(f), Inserts(p)
    PROVE  Owned'
<1> DEFINE n == made + 1
<1>1. n \in Ids /\ n > made
  BY ContactsAssumption DEF Inserts, TypeOK, Ids
<1>2. ~row[n].live /\ holder[n] = NoProc
  BY <1>1 DEF HoldInv
<1>3. /\ pc[p] = "insert" /\ row' = row
      /\ pc'[p] \in {"commit", "look"}
      /\ pc'[p] = "commit" => flag[p] = "true"
      /\ flag' = flag
      /\ \A q \in Procs : q # p =>
            /\ pc'[q] = pc[q] /\ todo'[q] = todo[q] /\ kind'[q] = kind[q]
            /\ flag'[q] = flag[q] /\ target'[q] = target[q]
  BY DEF Inserts, Write, GoTo, locals, TypeOK
<1>4. \A c \in Ids : c # n => holder'[c] = holder[c] /\ draft'[c] = draft[c]
  BY <1>1 DEF Inserts, Write, TypeOK
<1> HIDE DEF n
<1>5. \A q \in Procs : q # p => \A c \in Ids : holder[c] = q => holder'[c] = q
  BY <1>2, <1>4, ContactsAssumption
<1>6. \A q \in Procs : q # p /\ pc[q] = "commit" =>
          draft'[target[q]] = draft[target[q]]
  BY <1>2, <1>4, ContactsAssumption DEF HoldInv
<1>7. \A c \in Primaries : f[c] = p /\ flag[p] = "true" => holder'[c] = p
  <2>1. \A c \in Primaries : c \in Ids /\ c # n
    BY <1>2 DEF Primaries
  <2> QED
    BY <1>3, <1>4, <2>1 DEF Owner
<1> QED
  BY <1>3, <1>5, <1>6, <1>7, OwnerKept

LEMMA OwnerWrite ==
    ASSUME TypeOK, HoldInv, NEW p \in Procs, NEW f, Owner(f),
           Looks(p) \/ Sets(p)
    PROVE  Owned'
<1>1. /\ target[p] \in Ids /\ holder[target[p]] \in {p, NoProc}
      /\ row' = row /\ pc'[p] = "commit" /\ holder'[target[p]] = p
      /\ kind' = kind /\ flag' = flag /\ target' = target
      /\ \A q \in Procs : q # p =>
            /\ pc'[q] = pc[q] /\ todo'[q] = todo[q] /\ kind'[q] = kind[q]
            /\ flag'[q] = flag[q] /\ target'[q] = target[q]
  BY DEF Looks, Sets, UpdateById, Write, GoTo, Free, TypeOK, locals
<1>2. \A c \in Ids : c # target[p] =>
          holder'[c] = holder[c] /\ draft'[c] = draft[c]
  BY <1>1 DEF Looks, Sets, UpdateById, Write, TypeOK
<1>3. \A q \in Procs : q # p => \A c \in Ids : holder[c] = q => holder'[c] = q
  BY <1>1, <1>2, ContactsAssumption
<1>4. \A q \in Procs : q # p /\ pc[q] = "commit" =>
          draft'[target[q]] = draft[target[q]]
  BY <1>1, <1>2, ContactsAssumption DEF HoldInv
<1>5. CASE Looks(p)
  <2>1. pc[p] = "look" /\ kind[p] = "create" /\ flag[p] # "true"
    BY <1>5 DEF Looks, UpdateById, HoldInv
  <2>2. ASSUME NEW c \in Primaries
        PROVE  c \in Live(p) /\ View(p, c).primary
    <3>1. holder[c] # p
      BY <2>1, <2>2 DEF HoldInv, Primaries
    <3> QED
      BY <2>2, <3>1 DEF Live, View, Primaries
  <2>3. Own(p) \in Contact
    BY <1>1, ViewType DEF Own
  <2>4. Primaries # {} => draft'[target[p]].primary = FALSE
    <3> DEFINE b == ~\E c \in Live(p) : View(p, c).primary
    <3>1. draft'[target[p]] = [Own(p) EXCEPT !.primary = b]
      BY <1>1, <1>5 DEF Looks, UpdateById, Write, TypeOK
    <3>2. Primaries # {} => b = FALSE
      BY <2>2
    <3> HIDE DEF b
    <3> QED
      BY <2>3, <3>1, <3>2 DEF Contact
  <2> QED
    BY <1>1, <1>3, <1>4, <2>1, <2>4, OwnerKept
<1>6. CASE Sets(p)
  <2>1. pc[p] = "set" /\ kind[p] = "update"
    BY <1>6 DEF Sets, UpdateById, HoldInv
  <2>2. \A c \in Primaries : f[c] = p /\ flag[p] = "true" => holder'[c] = p
    BY <1>1, <1>2, <2>1 DEF Owner, Primaries
  <2> QED
    BY <1>1, <1>3, <1>4, <2>1, <2>2, OwnerKept
<1> QED
  BY <1>5, <1>6

\* The request that commits becomes the owner of the contact it has made
\* primary: it has demoted the one it owned, or has left its own alone.
LEMMA OwnerCommit ==
    ASSUME TypeOK, HoldInv, NEW p \in Procs, NEW f, Owner(f), Commits(p)
    PROVE  Owned'
<1> DEFINE kept == {c \in Primaries : ~(flag[p] = "true" /\ c = target[p])}
           owner == [c \in Primaries' |-> IF c \in kept THEN f[c] ELSE p]
<1>1. /\ pc[p] = "commit"
      /\ \A c \in Ids : row'[c] = IF holder[c] = p THEN draft[c] ELSE row[c]
      /\ \A c \in Ids : holder[c] # p => holder'[c] = holder[c]
      /\ draft' = draft
      /\ pc'[p] = "idle"
      /\ \A q \in Procs : q # p =>
            /\ pc'[q] = pc[q] /\ todo'[q] = todo[q] /\ kind'[q] = kind[q]
            /\ flag'[q] = flag[q] /\ target'[q] = target[q]
  BY CommitStep DEF TypeOK
<1>2. /\ \A c \in Primaries' : /\ c \in Ids /\ row'[c].live /\ row'[c].primary
      /\ \A c \in Ids : row[c].live /\ row[c].primary <=> c \in Primaries
  BY DEF Primaries
<1>3. \A c \in Primaries' : c \notin kept => c = target[p]
  <2>1. ASSUME NEW c \in Primaries', c \notin Primaries
        PROVE  c = target[p]
    <3>1. holder[c] = p /\ draft[c].primary
      BY <1>1, <1>2, <2>1
    <3> QED
      BY <1>2, <3>1 DEF HoldInv
  <2> QED
    BY <2>1
<1>4. \A c \in kept : c \in Primaries' => f[c] # p \/ target[p] \in kept
                                                 \/ target[p] \notin Primaries'
  <2>1. CASE flag[p] = "true"
    <3>1. ASSUME NEW c \in kept, c \in Primaries', f[c] = p
          PROVE  FALSE
      <4>1. c \in Primaries /\ c # target[p]
        BY <2>1, <3>1
      <4>2. holder[c] = p
        BY <1>1, <2>1, <3>1, <4>1 DEF Owner
      <4>3. ~draft[c].primary
        BY <1>1, <1>2, <3>1, <4>1, <4>2 DEF HoldInv
      <4> QED
        BY <1>1, <1>2, <3>1, <4>2, <4>3
    <3> QED
      BY <3>1
  <2>2. CASE flag[p] # "true" /\ kind[p] = "create"
    <3>1. ASSUME NEW c \in Primaries, f[c] = p
          PROVE  target[p] \notin Primaries'
      BY <1>1, <1>2, <2>2, <3>1 DEF Owner, HoldInv
    <3> QED
      BY <3>1
  <2>3. CASE flag[p] # "true" /\ kind[p] = "update"
    <3>1. target[p] \in Primaries' => target[p] \in Primaries
      BY <1>1, <1>2, <2>3 DEF HoldInv, TypeOK
    <3> QED
      BY <2>3, <3>1
  <2> QED
    BY <2>1, <2>2, <2>3 DEF HoldInv, TypeOK
<1>5. PICK g : g = owner
  OBVIOUS
<1>6. /\ g \in [Primaries' -> Procs]
      /\ \A c \in Primaries' : c \in kept => g[c] = f[c] /\ c \in Primaries
      /\ \A c \in Primaries' : c \notin kept => g[c] = p
  BY <1>5 DEF Owner
<1> HIDE DEF owner, kept
<1>7. ASSUME NEW c \in Primaries', NEW d \in Primaries', g[c] = g[d]
      PROVE  c = d
  <2>1. CASE c \in kept /\ d \in kept
    BY <1>6, <1>7, <2>1 DEF Owner
  <2>2. CASE c \notin kept /\ d \notin kept
    BY <1>3, <2>2
  <2>3. CASE c \in kept /\ d \notin kept
    BY <1>3, <1>4, <1>6, <1>7, <2>3
  <2>4. CASE c \notin kept /\ d \in kept
    BY <1>3, <1>4, <1>6, <1>7, <2>4
  <2> QED
    BY <2>1, <2>2, <2>3, <2>4
<1>8. ASSUME NEW c \in Primaries'
      PROVE  /\ pc'[g[c]] = "demote" => c \in todo'[g[c]] \/ holder'[c] = g[c]
             /\ pc'[g[c]] \in {"insert", "set", "commit"}
                /\ flag'[g[c]] = "true" => holder'[c] = g[c]
             /\ pc'[g[c]] = "commit" /\ kind'[g[c]] = "create"
                /\ flag'[g[c]] # "true" => ~draft'[target'[g[c]]].primary
  <2>1. CASE g[c] = p
    BY <1>1, <2>1
  <2>2. CASE g[c] # p
    <3>1. g[c] = f[c] /\ c \in Primaries /\ c \in Ids /\ g[c] \in Procs
      BY <1>2, <1>6, <1>8, <2>2
    <3>2. holder[c] = g[c] => holder'[c] = g[c]
      BY <1>1, <2>2, <3>1
    <3> QED
      BY <1>1, <2>2, <3>1, <3>2 DEF Owner
  <2> QED
    BY <2>1, <2>2
<1>9. Owner(g)'
  BY <1>6, <1>7, <1>8 DEF Owner
<1> QED
  BY <1>9 DEF Owned, Owner

LEMMA OwnerNext ==
    ASSUME NoDeletes, TypeOK, HoldInv, Owned, [Next]_vars
    PROVE  Owned'
<1>1. PICK f : Owner(f)
  BY DEF Owned
<1>2. ASSUME NEW p \in Procs, Step(p)
      PROVE  Owned'
  <2>1. ~Deletes(p) /\ ~FindsNext(p) /\ ~Promotes(p)
    BY DEF Deletes, FindsNext, Promotes, UpdateById, HoldInv
  <2> QED
    BY <1>1, <1>2, <2>1, OwnerDemote, OwnerInsert, OwnerWrite, OwnerCommit,
       OwnerRollback DEF Step, IsVictim
<1>3. ASSUME NEW p \in Procs, Call(p) \/ Fails(p)
      PROVE  Owned'
  BY <1>1, <1>3, OwnerCall, OwnerRollback DEF Fails
<1>4. CASE UNCHANGED vars
  <2>1. Primaries' = Primaries /\ UNCHANGED <<pc, todo, holder, flag, kind,
                                              draft, target>>
    BY <1>4 DEF vars, Primaries
  <2>2. Owner(f)'
    BY <1>1, <2>1 DEF Owner
  <2> QED
    BY <2>2 DEF Owned, Owner
<1> QED
  BY <1>2, <1>3, <1>4 DEF Next

\* Where nobody deletes, a customer has at most as many primary contacts as
\* requests may overlap: the request that commits one has demoted, or seen,
\* the one it committed before.
THEOREM PrimariesAreBounded ==
    ASSUME NoDeletes
    PROVE  Spec => []PrimariesBounded
<1>1. TypeOK /\ HoldInv /\ Owned /\ [Next]_vars => Owned'
  BY OwnerNext
<1>2. Owned => PrimariesBounded
  <2> SUFFICES ASSUME NEW f, Owner(f)
               PROVE  PrimariesBounded
    BY DEF Owned
  <2>1. f \in Injection(Primaries, Procs)
    BY DEF Owner, Injection, IsInjective
  <2> QED
    BY <2>1, FS_Injection, ContactsAssumption DEF PrimariesBounded
<1> QED
  BY <1>1, <1>2, OwnerInit, HoldAlways, PTL DEF Spec

----------------------------------------------------------------------------
(* Creates and deletes, each of them alone, beside updates that overlap *)

\* The primary contacts as p sees them.
Primary(p) == {c \in Live(p) : View(p, c).primary}

\* What p has locked and written so far, where nobody else is at work: up to
\* the commit it says how far p is in taking primary from one contact to the
\* next.
SingleAt(p) ==
    /\ pc[p] \in {"idle", "open", "delete"} => \A c \in Ids : holder[c] # p
    /\ pc[p] \in {"insert", "set"} /\ flag[p] # "true" =>
          \A c \in Ids : holder[c] # p
    /\ pc[p] \in {"open", "demote"} => flag[p] = "true"
    /\ pc[p] = "demote" => Primary(p) \subseteq todo[p]
    /\ pc[p] \in {"insert", "set"} /\ flag[p] = "true" => Primary(p) = {}
    /\ pc[p] \in {"demote", "insert", "set", "look"} =>
          \A c \in Ids : row[c].live => View(p, c).live
    /\ pc[p] = "look" =>
          /\ ~View(p, target[p]).primary
          /\ \A c \in Ids : holder[c] = p => c = target[p]
    /\ pc[p] = "delete" => wasPrimary[p] = row[target[p]].primary
                           /\ row[target[p]].live
    /\ pc[p] \in {"next", "promote"} => Primary(p) = {}
    /\ pc[p] = "promote" => /\ target[p] \in Live(p)
                            /\ \A d \in Live(p) : target[p] <= d
    /\ pc[p] = "commit" =>
          /\ \A c, d \in Primary(p) : c = d
          /\ \A c \in Primaries : ~View(p, c).live =>
                \A d \in Live(p) : \E e \in Primary(p) : e <= d

\* p creates or deletes a contact.
Solo(p) == pc[p] # "idle" /\ kind[p] \in {"create", "delete"}

\* Either one create or delete is under way, or updates only.
AloneInv ==
    /\ AtMostOnePrimary
    /\ \A p \in Procs : Solo(p) => SingleAt(p)
    /\ \A p \in Procs, c \in Ids : holder[c] = p => pc[p] # "idle"
    /\ (\A p \in Procs : ~Solo(p)) => BeforeInv

\* A set of numbers that is not empty has a least one.
LEMMA LeastExists ==
    ASSUME NEW S \in SUBSET Nat, S # {}
    PROVE  \E m \in S : \A n \in S : m <= n
<1> DEFINE R == OpToRel(<, Nat)
<1>1. IsWellFoundedOn(R, Nat)
  BY NatLessThanWellFounded
<1>2. \A x, y \in Nat : x < y => <<x, y>> \in R
  BY DEF OpToRel
<1> HIDE DEF R
<1>3. PICK m \in S : \A n \in S : ~(<<n, m>> \in R)
  BY <1>1, WFMin
<1>4. \A n \in S : ~(n < m)
  BY <1>2, <1>3
<1>5. \A n \in S : n \in Nat /\ m \in Nat
  OBVIOUS
<1>6. \A n \in S : m <= n
  BY <1>4, <1>5
<1> QED
  BY <1>6

\* A transaction sees what it writes, and the rest as before.
LEMMA ViewWrite ==
    ASSUME TypeOK, NEW p \in Procs, NEW c \in Ids, NEW r, Write(p, c, r)
    PROVE  /\ View(p, c)' = r
           /\ \A d \in Ids : d # c => View(p, d)' = View(p, d)
           /\ \A d \in Ids : holder'[d] = p => d = c \/ holder[d] = p
BY DEF TypeOK, Write, View

LEMMA AloneInit == Init => AloneInv
BY BeforeInit, ContactsAssumption DEF Init, AloneInv, Solo, BeforeInv

LEMMA SingleCall ==
    ASSUME TypeOK, NEW p \in Procs, SingleAt(p), Call(p)
    PROVE  SingleAt(p)' /\ row' = row
<1>1. /\ UNCHANGED <<row, draft, holder>>
      /\ pc[p] = "idle"
  BY DEF Call, CallCreate, CallUpdate, CallDelete, Enter
<1>2. /\ \A c \in Ids : holder'[c] # p
      /\ \A c \in Ids : View(p, c)' = row[c]
  BY <1>1 DEF SingleAt, View
<1>3. \/ pc'[p] = "open" /\ flag'[p] = "true"
      \/ pc'[p] \in {"insert", "set"} /\ flag'[p] # "true"
      \/ /\ pc'[p] = "delete"
         /\ wasPrimary'[p] = row[target'[p]].primary
         /\ row[target'[p]].live
  <2>1. ASSUME NEW f \in Flags, CallCreate(p, f)
        PROVE  <1>3
    BY <2>1 DEF CallCreate, Enter, GoTo, TypeOK
  <2>2. ASSUME NEW f \in Flags, NEW c \in Ids, CallUpdate(p, c, f)
        PROVE  <1>3
    BY <2>2 DEF CallUpdate, Enter, GoTo, TypeOK
  <2>3. ASSUME NEW c \in Ids, CallDelete(p, c)
        PROVE  <1>3
    <3>1. /\ target' = [target EXCEPT ![p] = c]
          /\ wasPrimary' = [wasPrimary EXCEPT ![p] = row[c].primary]
          /\ row[c].live
          /\ pc' = [pc EXCEPT ![p] = "delete"]
      BY <2>3 DEF CallDelete, Enter, GoTo
    <3> QED
      BY <3>1 DEF TypeOK
  <2> QED
    BY <2>1, <2>2, <2>3 DEF Call
<1> QED
  BY <1>1, <1>2, <1>3 DEF SingleAt

LEMMA SingleRollback ==
    ASSUME TypeOK, NEW p \in Procs, Rollback(p)
    PROVE  SingleAt(p)' /\ row' = row
<1>1. /\ row' = row
      /\ pc'[p] = "idle"
      /\ \A c \in Ids : holder'[c] # p
  BY ContactsAssumption DEF Rollback, Release, Leave, GoTo, TypeOK
<1> QED
  BY <1>1 DEF SingleAt

LEMMA SingleDemote ==
    ASSUME TypeOK, NEW p \in Procs, SingleAt(p),
           \/ DemoteStarts(p)
           \/ \E c \in Ids : Demotes(p, c)
           \/ DemoteEnds(p)
    PROVE  SingleAt(p)' /\ row' = row
<1>1. row' = row /\ flag' = flag
  BY DEF DemoteStarts, Demotes, DemoteEnds, Write, locals
<1>2. CASE DemoteStarts(p)
  <2>1. pc[p] = "open" /\ pc'[p] = "demote" /\ todo'[p] = Live(p)
    BY <1>2 DEF DemoteStarts, Demotable, GoTo, TypeOK, SingleAt
  <2>2. \A c \in Ids : View(p, c)' = View(p, c) /\ View(p, c) = row[c]
    BY <1>2, <2>1 DEF DemoteStarts, View, SingleAt
  <2>3. Primary(p)' \subseteq todo'[p]
    BY <2>1, <2>2 DEF Primary, Live
  <2> QED
    BY <1>1, <2>1, <2>2, <2>3 DEF SingleAt
<1>3. ASSUME NEW c \in Ids, Demotes(p, c)
      PROVE  SingleAt(p)'
  <2>1. /\ pc[p] = "demote" /\ pc'[p] = "demote"
        /\ todo'[p] = todo[p] \ {c}
    BY <1>3 DEF Demotes, TypeOK
  <2>2. /\ View(p, c)'.live = View(p, c).live
        /\ ~(View(p, c)'.live /\ View(p, c)'.primary)
        /\ \A d \in Ids : d # c => View(p, d)' = View(p, d)
    <3>1. CASE View(p, c).live
      <4> DEFINE r == [View(p, c) EXCEPT !.primary = FALSE]
      <4>1. r.live = View(p, c).live /\ ~r.primary
        BY <1>3, ViewType DEF Contact
      <4>2. Write(p, c, r)
        BY <1>3, <3>1 DEF Demotes
      <4> HIDE DEF r
      <4> QED
        BY <1>3, <4>1, <4>2, ViewWrite
    <3>2. CASE ~View(p, c).live
      BY <1>3, <3>2 DEF Demotes, View
    <3> QED
      BY <3>1, <3>2
  <2>3. Primary(p)' \subseteq todo'[p]
    BY <2>1, <2>2 DEF Primary, Live, SingleAt
  <2>4. \A d \in Ids : row'[d].live => View(p, d)'.live
    BY <1>1, <2>1, <2>2 DEF SingleAt
  <2> QED
    BY <1>1, <2>1, <2>3, <2>4 DEF SingleAt
<1>4. CASE DemoteEnds(p)
  <2>1. /\ pc[p] = "demote" /\ pc'[p] \in {"insert", "set"} /\ todo[p] = {}
        /\ Primary(p) = {}
    BY <1>4 DEF DemoteEnds, Awaited, GoTo, TypeOK, SingleAt
  <2>2. \A d \in Ids : View(p, d)' = View(p, d)
    BY <1>4 DEF DemoteEnds, View
  <2>3. Primary(p)' = Primary(p)
    BY <2>2 DEF Primary, Live
  <2>4. flag[p] = "true"
    BY <2>1 DEF SingleAt
  <2> QED
    BY <1>1, <2>1, <2>2, <2>3, <2>4 DEF SingleAt
<1> QED
  BY <1>1, <1>2, <1>3, <1>4

LEMMA SingleInsert ==
    ASSUME TypeOK, AtMostOnePrimary, NEW p \in Procs, SingleAt(p), Inserts(p)
    PROVE  SingleAt(p)' /\ row' = row
<1> DEFINE r == [live |-> TRUE, primary |-> flag[p] = "true"]
<1>1. PICK n : n = made + 1
  OBVIOUS
<1>2. /\ n \in Ids
      /\ pc[p] = "insert" /\ flag' = flag /\ row' = row
      /\ target'[p] = n /\ target'[p] \in Ids
      /\ pc'[p] = IF flag[p] = "true" THEN "commit" ELSE "look"
  BY <1>1, ContactsAssumption DEF Inserts, TypeOK, Ids, Write, GoTo, locals
<1>3. Write(p, n, r)
  BY <1>1 DEF Inserts
<1>4. /\ View(p, n)' = r
      /\ \A d \in Ids : d # n => View(p, d)' = View(p, d)
      /\ \A d \in Ids : holder'[d] = p => d = n \/ holder[d] = p
  <2> HIDE DEF r
  <2> QED
    BY <1>2, <1>3, ViewWrite
<1>5. \A d \in Ids : row'[d].live => View(p, d)'.live
  BY <1>2, <1>4 DEF SingleAt
<1>6. CASE flag[p] = "true"
  <2>1. \A d \in Primary(p)' : d = n
    BY <1>2, <1>4, <1>6 DEF SingleAt, Primary, Live
  <2>2. \A c \in Primaries' : View(p, c)'.live
    BY <1>5 DEF Primaries
  <2> QED
    BY <1>2, <1>6, <2>1, <2>2 DEF SingleAt
<1>7. CASE flag[p] # "true"
  <2>1. ~View(p, target[p])'.primary
    <3>1. View(p, target[p])' = View(p, n)'
      BY <1>2 DEF View
    <3>2. ~r.primary
      BY <1>7
    <3> HIDE DEF r
    <3> QED
      BY <1>4, <3>1, <3>2
  <2>2. \A c \in Ids : holder'[c] = p => c = target'[p]
    BY <1>2, <1>4, <1>7 DEF SingleAt
  <2> QED
    BY <1>2, <1>5, <1>7, <2>1, <2>2 DEF SingleAt
<1> QED
  BY <1>2, <1>6, <1>7

\* The writes by id.
LEMMA WriteById ==
    ASSUME TypeOK, NEW p \in Procs, NEW at, NEW r, NEW next,
           at \in {"look", "set", "delete", "promote"},
           UpdateById(p, at, r, next)
    PROVE  /\ target[p] \in Ids /\ Own(p) \in Contact
           /\ pc[p] = at /\ pc'[p] = next
           /\ View(p, target[p])' = r
           /\ \A d \in Ids : d # target[p] => View(p, d)' = View(p, d)
           /\ \A d \in Ids : holder'[d] = p => d = target[p] \/ holder[d] = p
           /\ UNCHANGED <<row, flag, target, wasPrimary>>
<1>1. target[p] \in Ids
  BY DEF UpdateById, TypeOK
<1>2. Write(p, target[p], r)
  BY DEF UpdateById
<1>3. /\ View(p, target[p])' = r
      /\ \A d \in Ids : d # target[p] => View(p, d)' = View(p, d)
      /\ \A d \in Ids : holder'[d] = p => d = target[p] \/ holder[d] = p
      /\ UNCHANGED target
  <2>1. UNCHANGED target
    BY DEF UpdateById
  <2>2. PICK t \in Ids : t = target[p]
    BY <1>1
  <2>3. Write(p, t, r)
    BY <1>2, <2>2
  <2>4. /\ View(p, t)' = r
        /\ \A d \in Ids : d # t => View(p, d)' = View(p, d)
        /\ \A d \in Ids : holder'[d] = p => d = t \/ holder[d] = p
    BY <2>2, <2>3, ViewWrite
  <2>5. target'[p] = t
    BY <2>1, <2>2
  <2>6. View(p, target[p])' = View(p, t)'
    BY <2>5 DEF View
  <2> QED
    BY <2>1, <2>2, <2>4, <2>6
<1>4. Own(p) \in Contact
  BY <1>1, ViewType DEF Own
<1> QED
  BY <1>1, <1>3, <1>4 DEF UpdateById, Write, GoTo, TypeOK, locals

\* A commit that deletes no contact as p sees it.
LEMMA SingleAtCommit ==
    ASSUME NEW p \in Procs, pc'[p] = "commit",
           \A c, d \in Primary(p)' : c = d,
           \A c \in Primaries' : View(p, c)'.live
    PROVE  SingleAt(p)'
BY DEF SingleAt

LEMMA SingleLook ==
    ASSUME TypeOK, AtMostOnePrimary, NEW p \in Procs, SingleAt(p), Looks(p)
    PROVE  SingleAt(p)' /\ row' = row
<1> DEFINE t == target[p]
           b == ~\E c \in Live(p) : View(p, c).primary
           r == [Own(p) EXCEPT !.primary = b]
<1>1. UpdateById(p, "look", r, "commit")
  BY DEF Looks
<1> HIDE DEF r
<1>2. /\ t \in Ids /\ Own(p) \in Contact
      /\ pc[p] = "look" /\ pc'[p] = "commit"
      /\ View(p, target[p])' = r
      /\ \A d \in Ids : d # target[p] => View(p, d)' = View(p, d)
      /\ row' = row /\ target' = target
  BY <1>1, WriteById
<1>3. /\ r.live = Own(p).live /\ r.primary = b
      /\ Own(p) = View(p, t)
  BY <1>2 DEF r, Contact, Own
<1>4. View(p, t)' = r
  BY <1>2 DEF View
<1>5. \A c \in Ids : row[c].live => View(p, c)'.live
  BY <1>2, <1>3, <1>4 DEF SingleAt
<1>6. \A c, d \in Primary(p)' : c = d
  <2>1. CASE b
    <3>1. \A d \in Primary(p)' : d = t
      BY <1>2, <2>1 DEF Primary, Live
    <3> QED
      BY <3>1
  <2>2. CASE ~b
    <3>1. ASSUME NEW d \in Primary(p)'
          PROVE  d \in Primaries
      <4>1. d \in Ids /\ d # t /\ View(p, d).live /\ View(p, d).primary
        BY <1>2, <1>3, <1>4, <2>2 DEF Primary, Live
      <4>2. holder[d] # p
        BY <1>2, <4>1 DEF SingleAt
      <4> QED
        BY <4>1, <4>2 DEF View, Primaries
    <3> QED
      BY <3>1 DEF AtMostOnePrimary
  <2> QED
    BY <2>1, <2>2
<1>7. \A c \in Primaries' : View(p, c)'.live
  BY <1>2, <1>5 DEF Primaries
<1> QED
  BY <1>2, <1>6, <1>7, SingleAtCommit

LEMMA SingleSet ==
    ASSUME TypeOK, AtMostOnePrimary, NEW p \in Procs, SingleAt(p), Sets(p)
    PROVE  SingleAt(p)' /\ row' = row
<1> DEFINE t == target[p]
           r == [Own(p) EXCEPT !.primary =
                     IF flag[p] = "unset" THEN @ ELSE flag[p] = "true"]
<1>1. UpdateById(p, "set", r, "commit")
  BY DEF Sets
<1> HIDE DEF r
<1>2. /\ t \in Ids /\ Own(p) \in Contact
      /\ pc[p] = "set" /\ pc'[p] = "commit"
      /\ View(p, target[p])' = r
      /\ \A d \in Ids : d # target[p] => View(p, d)' = View(p, d)
      /\ row' = row /\ target' = target
  BY <1>1, WriteById
<1>3. /\ r.live = Own(p).live
      /\ flag[p] # "true" /\ r.primary => Own(p).primary
      /\ Own(p) = View(p, t)
  BY <1>2 DEF r, Contact, Own
<1>4. View(p, t)' = r
  BY <1>2 DEF View
<1>5. \A c \in Ids : row[c].live => View(p, c)'.live
  BY <1>2, <1>3, <1>4 DEF SingleAt
<1>6. \A c, d \in Primary(p)' : c = d
  <2>1. CASE flag[p] = "true"
    <3>1. \A d \in Primary(p)' : d = t
      BY <1>2, <2>1 DEF Primary, Live, SingleAt
    <3> QED
      BY <3>1
  <2>2. CASE flag[p] # "true"
    <3>1. ASSUME NEW d \in Primary(p)'
          PROVE  d \in Primaries
      <4>1. d \in Ids /\ View(p, d).live /\ View(p, d).primary
        BY <1>2, <1>3, <1>4, <2>2 DEF Primary, Live
      <4>2. holder[d] # p
        BY <1>2, <2>2, <4>1 DEF SingleAt
      <4> QED
        BY <4>1, <4>2 DEF View, Primaries
    <3> QED
      BY <3>1 DEF AtMostOnePrimary
  <2> QED
    BY <2>1, <2>2
<1>7. \A c \in Primaries' : View(p, c)'.live
  BY <1>2, <1>5 DEF Primaries
<1> QED
  BY <1>2, <1>6, <1>7, SingleAtCommit

\* A delete takes the primary contact away: none is left for now.
LEMMA SingleDelete ==
    ASSUME TypeOK, AtMostOnePrimary, NEW p \in Procs, SingleAt(p), Deletes(p)
    PROVE  SingleAt(p)' /\ row' = row
<1> DEFINE t == target[p]
           r == [live |-> FALSE, primary |-> FALSE]
           next == IF wasPrimary[p] THEN "next" ELSE "commit"
<1>1. UpdateById(p, "delete", r, next)
  BY DEF Deletes
<1> HIDE DEF r, next
<1>2. /\ t \in Ids
      /\ pc[p] = "delete" /\ pc'[p] = next
      /\ View(p, target[p])' = r
      /\ \A d \in Ids : d # target[p] => View(p, d)' = View(p, d)
      /\ row' = row /\ target' = target
  BY <1>1, WriteById
<1>3. \A d \in Ids : d = t => View(p, d)' = r /\ ~r.live
  BY <1>2 DEF View, r
<1>4. \A d \in Ids : d # t => View(p, d)' = row[d]
  BY <1>2 DEF View, SingleAt
<1>5. \A d \in Primary(p)' : d \in Primaries /\ d # t
  BY <1>3, <1>4 DEF Primary, Live, Primaries
<1>6. wasPrimary[p] = row[t].primary /\ row[t].live
  BY <1>2 DEF SingleAt
<1>7. CASE wasPrimary[p]
  <2>1. t \in Primaries
    BY <1>2, <1>6, <1>7 DEF Primaries
  <2>2. Primary(p)' = {}
    BY <1>5, <2>1 DEF AtMostOnePrimary
  <2>3. pc'[p] = "next"
    BY <1>2, <1>7 DEF next
  <2> QED
    BY <1>2, <2>2, <2>3 DEF SingleAt
<1>8. CASE ~wasPrimary[p]
  <2>1. t \notin Primaries
    BY <1>6, <1>8 DEF Primaries
  <2>2. \A c \in Primaries' : View(p, c)'.live
    BY <1>2, <1>4, <2>1 DEF Primaries
  <2>3. \A c, d \in Primary(p)' : c = d
    BY <1>5 DEF AtMostOnePrimary
  <2>4. pc'[p] = "commit"
    BY <1>2, <1>8 DEF next
  <2> QED
    BY <1>2, <2>2, <2>3, <2>4, SingleAtCommit
<1> QED
  BY <1>7, <1>8

\* The oldest of the contacts that are left, when there is one.
LEMMA SingleNext ==
    ASSUME TypeOK, NEW p \in Procs, SingleAt(p), FindsNext(p)
    PROVE  SingleAt(p)' /\ row' = row
<1>1. /\ pc[p] = "next" /\ UNCHANGED <<row, draft, holder>>
      /\ Primary(p) = {}
  BY DEF FindsNext, SingleAt
<1>2. /\ \A d \in Ids : View(p, d)' = View(p, d)
      /\ Live(p)' = Live(p)
      /\ Primary(p)' = {}
  BY <1>1 DEF View, Live, Primary
<1>3. CASE Successors(p) = {} /\ GoTo(p, "commit")
  <2>1. Live(p) \in SUBSET Nat
    BY DEF Live, Ids
  <2>2. Live(p) = {}
    BY <1>3, <2>1, LeastExists DEF Successors
  <2>3. pc'[p] = "commit"
    BY <1>3 DEF GoTo, TypeOK
  <2> QED
    BY <1>1, <1>2, <2>2, <2>3 DEF SingleAt
<1>4. ASSUME NEW c \in Successors(p), GoTo(p, "promote"),
             target' = [target EXCEPT ![p] = c]
      PROVE  SingleAt(p)'
  <2>1. pc'[p] = "promote" /\ target'[p] = c
    BY <1>4 DEF GoTo, TypeOK
  <2>2. c \in Live(p) /\ \A d \in Live(p) : c <= d
    BY <1>4 DEF Successors
  <2> QED
    BY <1>2, <2>1, <2>2 DEF SingleAt
<1> QED
  BY <1>1, <1>3, <1>4 DEF FindsNext

LEMMA SinglePromote ==
    ASSUME TypeOK, NEW p \in Procs, SingleAt(p), Promotes(p)
    PROVE  SingleAt(p)' /\ row' = row
<1> DEFINE t == target[p]
           r == [Own(p) EXCEPT !.primary = TRUE]
<1>1. UpdateById(p, "promote", r, "commit")
  BY DEF Promotes
<1> HIDE DEF r
<1>2. /\ t \in Ids /\ Own(p) \in Contact
      /\ pc[p] = "promote" /\ pc'[p] = "commit"
      /\ View(p, target[p])' = r
      /\ \A d \in Ids : d # target[p] => View(p, d)' = View(p, d)
      /\ row' = row /\ target' = target
  BY <1>1, WriteById
<1>3. r.live /\ r.primary
  BY <1>2 DEF r, Contact, Own, SingleAt, Live
<1>4. View(p, t)' = r
  BY <1>2 DEF View
<1>5. Live(p)' = Live(p)
  BY <1>2, <1>3, <1>4 DEF Live, SingleAt
<1>6. Primary(p)' = {t}
  BY <1>2, <1>3, <1>4 DEF Primary, Live, SingleAt
<1>7. \A d \in Live(p)' : t <= d
  BY <1>2, <1>5 DEF SingleAt
<1> QED
  BY <1>2, <1>6, <1>7 DEF SingleAt

\* The commit publishes what p sees.
LEMMA SingleCommit ==
    ASSUME TypeOK, NEW p \in Procs, SingleAt(p), Commits(p)
    PROVE  /\ SingleAt(p)' /\ AtMostOnePrimary'
           /\ \A c \in Primaries : ~row'[c].live =>
                 \A d \in Ids : row'[d].live => \E e \in Primaries' : e <= d
<1>1. /\ pc[p] = "commit" /\ pc'[p] = "idle"
      /\ \A c \in Ids : holder'[c] # p
      /\ \A c \in Ids : row'[c] = View(p, c)
  BY ContactsAssumption DEF Commits, Release, Leave, GoTo, TypeOK
<1>2. Primaries' = Primary(p)
  BY <1>1 DEF Primaries, Primary, Live
<1>3. \A c \in Primaries : c \in Ids
  BY DEF Primaries
<1>4. \A d \in Ids : row'[d].live => d \in Live(p)
  BY <1>1 DEF Live
<1> QED
  BY <1>1, <1>2, <1>3, <1>4 DEF SingleAt, AtMostOnePrimary

\* A primary contact that is deleted leaves an older or the oldest primary.
Promoted ==
    \A c \in Primaries : ~row'[c].live =>
        \A d \in Ids : row'[d].live => \E e \in Primaries' : e <= d

\* A statement leaves its request under way, of the same kind, and takes rows
\* for it alone; the end of a transaction gives back what it held.
LEMMA StepOf ==
    ASSUME TypeOK, NEW p \in Procs, Step(p) \/ Fails(p)
    PROVE  /\ pc[p] # "idle"
           /\ \A q \in Procs : q # p => pc'[q] = pc[q] /\ kind'[q] = kind[q]
           /\ \A c \in Ids : holder'[c] \in {holder[c], p, NoProc}
           /\ \/ pc'[p] # "idle" /\ kind'[p] = kind[p]
              \/ pc'[p] = "idle" /\ \A c \in Ids : holder'[c] # p
<1>0. pc[p] # "idle"
  <2>1. IsVictim(p) => Wanted(p) # {}
    BY DEF IsVictim, Deadlocked
  <2> QED
    BY <2>1 DEF Step, DemoteStarts, DemoteEnds, Demotes, Inserts, Looks, Sets,
       Deletes, FindsNext, Promotes, UpdateById, Commits, Fails, Wanted
<1>1. CASE Commits(p) \/ Rollback(p)
  <2>1. /\ pc' = [pc EXCEPT ![p] = "idle"]
        /\ kind' = [kind EXCEPT ![p] = "create"]
        /\ holder' = [c \in Ids |-> IF holder[c] = p THEN NoProc
                                                     ELSE holder[c]]
    BY <1>1 DEF Commits, Rollback, Release, Leave, GoTo
  <2> QED
    BY <1>0, <2>1, ContactsAssumption DEF TypeOK
<1>2. CASE DemoteStarts(p) \/ DemoteEnds(p) \/ Inserts(p) \/ FindsNext(p)
  BY <1>2 DEF DemoteStarts, DemoteEnds, Inserts, FindsNext, Write, GoTo, locals,
       TypeOK
<1>3. ASSUME NEW c \in Ids, Demotes(p, c)
      PROVE  /\ pc[p] # "idle" /\ UNCHANGED <<pc, kind>>
             /\ \A d \in Ids : holder'[d] \in {holder[d], p}
  BY <1>3 DEF Demotes, Write, locals, TypeOK
<1>4. CASE Looks(p) \/ Sets(p) \/ Deletes(p) \/ Promotes(p)
  BY <1>4 DEF Looks, Sets, Deletes, Promotes, UpdateById, Write, GoTo, locals,
       TypeOK
<1> QED
  BY <1>1, <1>2, <1>3, <1>4 DEF Step, Fails, IsVictim

\* A create or delete under way: whatever it does, it does alone.
LEMMA SoloStep ==
    ASSUME Alone, TypeOK, TypeOK', AloneInv, NEW p \in Procs, Solo(p),
           Step(p) \/ Fails(p)
    PROVE  AloneInv' /\ Promoted
<1>1. AtMostOnePrimary /\ SingleAt(p)
  BY DEF AloneInv
<1>2. /\ \A q \in Procs : q # p => pc[q] = "idle"
      /\ \A c \in Ids : holder[c] \in {p, NoProc}
  BY DEF Alone, Solo, AloneInv, TypeOK
<1>3. SingleAt(p)' /\ AtMostOnePrimary' /\ Promoted
  <2>1. CASE Commits(p)
    BY <1>1, <2>1, SingleCommit DEF Promoted
  <2>2. CASE ~Commits(p)
    <3>1. SingleAt(p)' /\ row' = row
      BY <1>1, <2>2, SingleRollback, SingleDemote, SingleInsert, SingleLook,
         SingleSet, SingleDelete, SingleNext, SinglePromote
         DEF Step, Fails, IsVictim
    <3>2. Primaries' = Primaries /\ \A c \in Primaries : row[c].live
      BY <3>1 DEF Primaries
    <3> QED
      BY <1>1, <3>1, <3>2 DEF AtMostOnePrimary, Promoted
  <2> QED
    BY <2>1, <2>2
<1>4. /\ \A q \in Procs : q # p => pc'[q] = "idle" /\ ~Solo(q)'
      /\ \A c \in Ids : holder'[c] \in {p, NoProc}
      /\ Solo(p)' \/ (pc'[p] = "idle" /\ \A c \in Ids : holder'[c] # p)
  BY <1>2, StepOf DEF Solo
<1>5. CASE Solo(p)'
  BY <1>3, <1>4, <1>5, ContactsAssumption DEF AloneInv, Solo
<1>6. CASE pc'[p] = "idle" /\ \A c \in Ids : holder'[c] # p
  <2>1. /\ \A q \in Procs : pc'[q] = "idle"
        /\ \A q \in Procs, c \in Ids : holder'[c] # q
    BY <1>4, <1>6, ContactsAssumption
  <2>2. AloneInv'
    BY <1>3, <2>1 DEF TypeOK, AloneInv, Solo, BeforeInv
  <2> QED
    BY <1>3, <2>2
<1> QED
  BY <1>3, <1>4, <1>5, <1>6

\* Updates only are under way, and one of them goes on.
LEMMA UpdateStep ==
    ASSUME TypeOK, AloneInv, \A q \in Procs : ~Solo(q), NEW p \in Procs,
           Step(p) \/ Fails(p)
    PROVE  AloneInv' /\ Promoted
<1>1. BeforeInv /\ kind[p] = "update"
  BY StepOf DEF AloneInv, Solo, TypeOK
<1>2. /\ ~Looks(p) /\ ~Deletes(p) /\ ~FindsNext(p) /\ ~Promotes(p)
      /\ ~Inserts(p)
  BY <1>1 DEF Looks, Deletes, FindsNext, Promotes, UpdateById, Inserts,
       BeforeInv
<1>3. BeforeInv'
  BY <1>1, <1>2, BeforeDemote, BeforeSet, BeforeCommit, BeforeRollback
     DEF Step, IsVictim, Fails
<1>4. \A q \in Procs : ~Solo(q)'
  BY <1>1, StepOf DEF Solo
<1>5. \A c \in Ids : row'[c].live = row[c].live
  BY <1>1, <1>2 DEF Step, Fails, IsVictim, DemoteStarts, DemoteEnds, Demotes,
     Sets, UpdateById, Write, Commits, Rollback, View, BeforeInv
<1>6. Promoted
  BY <1>5 DEF Promoted, Primaries
<1> QED
  BY <1>3, <1>4, <1>6 DEF AloneInv, BeforeInv

\* A call comes in.
LEMMA AloneCall ==
    ASSUME Alone', TypeOK, TypeOK', AloneInv, NEW p \in Procs, Call(p)
    PROVE  AloneInv' /\ Promoted
<1>1. /\ pc[p] = "idle" /\ pc'[p] # "idle"
      /\ \A q \in Procs : q # p => pc'[q] = pc[q] /\ kind'[q] = kind[q]
      /\ UNCHANGED <<row, draft, holder>>
  BY DEF Call, CallCreate, CallUpdate, CallDelete, Enter, GoTo, TypeOK
<1>2. Promoted /\ AtMostOnePrimary'
  BY <1>1 DEF Promoted, AloneInv, AtMostOnePrimary, Primaries
<1>3. \A q \in Procs, c \in Ids : holder'[c] = q => pc'[q] # "idle"
  BY <1>1 DEF AloneInv
<1>4. \A q \in Procs : ~Solo(q)
  BY <1>1 DEF Alone, Solo
<1>5. BeforeInv
  BY <1>4 DEF AloneInv
<1>6. CASE kind'[p] = "update"
  BY <1>1, <1>2, <1>3, <1>4, <1>5, <1>6, BeforeCall DEF AloneInv, Solo
<1>7. CASE kind'[p] # "update"
  <2>1. Solo(p)' /\ \A q \in Procs : Solo(q)' => q = p
    BY <1>1, <1>4, <1>7 DEF Solo, TypeOK
  <2>2. SingleAt(p)
    BY <1>1, <1>5 DEF SingleAt, BeforeInv
  <2>3. SingleAt(p)'
    BY <2>2, SingleCall
  <2> QED
    BY <1>2, <1>3, <2>1, <2>3 DEF AloneInv
<1> QED
  BY <1>6, <1>7

LEMMA AloneNext ==
    ASSUME Alone, Alone', TypeOK, TypeOK', AloneInv, [Next]_vars
    PROVE  AloneInv' /\ [Promoted]_vars
<1>1. ASSUME NEW p \in Procs, Step(p) \/ Fails(p)
      PROVE  AloneInv' /\ Promoted
  <2>1. CASE Solo(p)
    BY <1>1, <2>1, SoloStep
  <2>2. CASE ~Solo(p)
    <3>1. \A q \in Procs : ~Solo(q)
      BY <1>1, <2>2, StepOf DEF Alone, Solo
    <3> QED
      BY <1>1, <3>1, UpdateStep
  <2> QED
    BY <2>1, <2>2
<1>2. CASE UNCHANGED vars
  BY <1>2 DEF vars, AloneInv, Solo, SingleAt, Primary, Live, View, Primaries,
       BeforeInv, AtMostOnePrimary
<1> QED
  BY <1>1, <1>2, AloneCall DEF Next

LEMMA AloneAlways == Spec /\ []Alone => [](TypeOK /\ AloneInv)
<1>1. Alone /\ Alone' /\ TypeOK /\ TypeOK' /\ AloneInv /\ [Next]_vars => AloneInv'
  BY AloneNext
<1> QED
  BY <1>1, AloneInit, TypeCorrect, PTL DEF Spec

\* As long as every create and softDelete is alone, a customer has one primary
\* contact at most, however many updates overlap and wherever calls fail.
THEOREM AloneKeepsOnePrimary == Spec /\ []Alone => []AtMostOnePrimary
<1>1. AloneInv => AtMostOnePrimary
  BY DEF AloneInv
<1> QED
  BY <1>1, AloneAlways, PTL

\* ... and the commit of a softDelete of the primary contact makes the oldest
\* of those that are left primary, or an older one is already.
THEOREM AlonePromotesOldest == Spec /\ []Alone => OldestPromoted
<1>1. Alone /\ Alone' /\ TypeOK /\ TypeOK' /\ AloneInv /\ [Next]_vars
        => [\A c \in Primaries : ~row'[c].live =>
               \A d \in Ids : row'[d].live => \E e \in Primaries' : e <= d]_vars
  BY AloneNext DEF Promoted
<1> QED
  BY <1>1, AloneAlways, TypeCorrect, PTL DEF Spec, OldestPromoted
=============================================================================
