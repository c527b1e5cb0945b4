------------------------------- MODULE Access -------------------------------
(***************************************************************************)
(* Who may do what: registration (AuthService.register), and the guards a  *)
(* request passes, TenantContextGuard with TenantResolverService and then  *)
(* PermissionsGuard.  Each guard asks the database once, at a time of its  *)
(* own, and the service runs after both.  Nothing in the code changes      *)
(* memberships or roles afterwards: an administrator does, at any moment.  *)
(*                                                                         *)
(* Passwords and signatures are taken to be right: a request comes with a  *)
(* token that register or login gave to its user.                          *)
(***************************************************************************)
EXTENDS FiniteSets

CONSTANTS
    Procs,        \* registrations and requests that may be under way
    NoCall,       \* none under way
    Companies,    \* by slug
    Emails,
    Roles,
    RoleCompany,  \* RoleCompany[r]: the company of role r
    Permissions,
    Grants        \* Grants[r]: the permissions of role r

\* The unique key of the table: an address in the company it was given for.
User == [email : Emails, company : Companies]

Call == [user : User, company : Companies, need : SUBSET Permissions]

ASSUME AccessAssumption ==
    /\ NoCall \notin Call
    /\ RoleCompany \in [Roles -> Companies]
    /\ Grants \in [Roles -> SUBSET Permissions]

VARIABLES
    users,     \* the users there are
    enrolled,  \* <<u, c>>: there is a UserCompany
    active,    \* ... it is active, and so is the company
    holds,     \* <<u, r>>: u has role r, which is active
    pc,        \* pc[p]: where p stands
    call,      \* call[p]: whom and what it is about
    withdrawn  \* history: withdrawn[p]: what a guard of p saw was taken away

tables == <<users, enrolled, active, holds>>
vars == <<users, enrolled, active, holds, pc, call, withdrawn>>

----------------------------------------------------------------------------
(* State *)

Registering == {"lookup", "insert", "enroll"}

Requesting == {"resolve", "permit", "admitted"}

TypeOK ==
    /\ users \subseteq User
    /\ enrolled \subseteq User \X Companies
    /\ active \subseteq enrolled
    /\ holds \subseteq users \X Roles
    /\ pc \in [Procs -> {"idle"} \cup Registering \cup Requesting]
    /\ call \in [Procs -> Call \cup {NoCall}]
    /\ \A p \in Procs : pc[p] = "idle" <=> call[p] = NoCall
    /\ \A p \in Procs : pc[p] \in Requesting => call[p].user \in users
    /\ \A p \in Procs : pc[p] \in Registering =>
          call[p].company = call[p].user.company
    /\ withdrawn \in [Procs -> BOOLEAN]

Init ==
    /\ users = {}
    /\ enrolled = {}
    /\ active = {}
    /\ holds = {}
    /\ pc = [p \in Procs |-> "idle"]
    /\ call = [p \in Procs |-> NoCall]
    /\ withdrawn = [p \in Procs |-> FALSE]

Enter(p, where, c) ==
    /\ pc[p] = "idle"
    /\ pc' = [pc EXCEPT ![p] = where]
    /\ call' = [call EXCEPT ![p] = c]
    /\ UNCHANGED <<tables, withdrawn>>

GoesOn(p, from, to) ==
    /\ pc[p] = from
    /\ pc' = [pc EXCEPT ![p] = to]
    /\ UNCHANGED <<call, withdrawn>>

Leave(p) ==
    /\ pc' = [pc EXCEPT ![p] = "idle"]
    /\ call' = [call EXCEPT ![p] = NoCall]
    /\ withdrawn' = [withdrawn EXCEPT ![p] = FALSE]

\* The call returns or throws; a transaction it is in is rolled back.
Ends(p) ==
    /\ pc[p] # "idle"
    /\ Leave(p)
    /\ UNCHANGED tables

----------------------------------------------------------------------------
(* AuthService.register *)

\* The upsert of the company; its name is left out.
Registers(p, u) ==
    Enter(p, "lookup", [user |-> u, company |-> u.company, need |-> {}])

\* existing: the call ends with 409 otherwise.
FindsNone(p) ==
    /\ GoesOn(p, "lookup", "insert")
    /\ call[p].user \notin users
    /\ UNCHANGED tables

\* Mutant: the user is written outside the transaction.
InsertsUserAlone(p) ==
    /\ GoesOn(p, "insert", "enroll")
    /\ call[p].user \notin users
    /\ users' = users \cup {call[p].user}
    /\ UNCHANGED <<enrolled, active, holds>>

\* In the transaction: the unique key refuses a user that is there, and makes
\* the insert wait for another one of the same user.
InsertsUser(p) ==
    /\ GoesOn(p, "insert", "enroll")
    /\ call[p].user \notin users
    /\ ~\E q \in Procs : pc[q] = "enroll" /\ call[q].user = call[p].user
    /\ UNCHANGED tables

\* userCompany.create and the commit, which shows both rows at once.
Enrolls(p) ==
    /\ pc[p] = "enroll"
    /\ users' = users \cup {call[p].user}
    /\ enrolled' = enrolled \cup {<<call[p].user, call[p].company>>}
    /\ active' = active \cup {<<call[p].user, call[p].company>>}
    /\ Leave(p)
    /\ UNCHANGED holds

----------------------------------------------------------------------------
(* The guards *)

\* The token names the user's company, the header may name another one.
Requests(p, u, c, need) ==
    /\ u \in users
    /\ Enter(p, "resolve", [user |-> u, company |-> c, need |-> need])

IsMember(u, c) == <<u, c>> \in active

\* resolveCompanyId
Resolves(p) ==
    /\ GoesOn(p, "resolve", "permit")
    /\ IsMember(call[p].user, call[p].company)
    /\ UNCHANGED tables

PermissionsOf(u, c) ==
    UNION {Grants[r] : r \in {r \in Roles : RoleCompany[r] = c /\ <<u, r>> \in holds}}

\* Mutant: the roles of the user in any company count.
PermitsAnyRole(p) ==
    /\ GoesOn(p, "permit", "admitted")
    /\ call[p].need \subseteq
          UNION {Grants[r] : r \in {r \in Roles : <<call[p].user, r>> \in holds}}
    /\ UNCHANGED tables

\* PermissionsGuard: a route that requires nothing is let through.
Permits(p) ==
    /\ GoesOn(p, "permit", "admitted")
    /\ call[p].need \subseteq PermissionsOf(call[p].user, call[p].company)
    /\ UNCHANGED tables

----------------------------------------------------------------------------
(* The administrator *)

\* What a guard of p saw has been taken away.
Withdraw(Saw(_)) ==
    withdrawn' = [p \in Procs |-> withdrawn[p] \/ (pc[p] # "idle" /\ Saw(p))]

TakesMembership(u, c) ==
    /\ active' = active \ {<<u, c>>}
    /\ Withdraw(LAMBDA p : /\ pc[p] \in {"permit", "admitted"}
                           /\ call[p].user = u
                           /\ call[p].company = c)
    /\ UNCHANGED <<users, enrolled, holds, pc, call>>

TakesRole(u, r) ==
    /\ holds' = holds \ {<<u, r>>}
    /\ Withdraw(LAMBDA p : /\ pc[p] = "admitted"
                           /\ call[p].user = u
                           /\ call[p].company = RoleCompany[r])
    /\ UNCHANGED <<users, enrolled, active, pc, call>>

GivesMembership(u, c) ==
    /\ u \in users
    /\ enrolled' = enrolled \cup {<<u, c>>}
    /\ active' = active \cup {<<u, c>>}
    /\ UNCHANGED <<users, holds, pc, call, withdrawn>>

GivesRole(u, r) ==
    /\ u \in users
    /\ holds' = holds \cup {<<u, r>>}
    /\ UNCHANGED <<users, enrolled, active, pc, call, withdrawn>>

Administers ==
    \E u \in User :
        \/ \E c \in Companies : TakesMembership(u, c) \/ GivesMembership(u, c)
        \/ \E r \in Roles : TakesRole(u, r) \/ GivesRole(u, r)

Next ==
    \/ \E p \in Procs :
          \/ \E u \in User :
                \/ Registers(p, u)
                \/ \E c \in Companies, need \in SUBSET Permissions :
                      Requests(p, u, c, need)
          \/ FindsNone(p) \/ InsertsUser(p) \/ Enrolls(p)
          \/ Resolves(p) \/ Permits(p)
          \/ Ends(p)
    \/ Administers

Spec == Init /\ [][Next]_vars

----------------------------------------------------------------------------
(* Properties *)

\* However registrations overlap and wherever they stop, there is no user
\* without the membership of its own company, and no membership without its
\* user.
AccountsWhole ==
    /\ \A u \in users : <<u, u.company>> \in enrolled
    /\ \A uc \in enrolled : uc[1] \in users

\* A request the guards let through is by a member of the company it acts in
\* who has every permission it needs there, although the two guards asked at
\* different times: unless what they saw was taken away before it ended.
EntitledUnlessWithdrawn ==
    \A p \in Procs : pc[p] = "admitted" /\ ~withdrawn[p] =>
        /\ IsMember(call[p].user, call[p].company)
        /\ call[p].need \subseteq PermissionsOf(call[p].user, call[p].company)

\* ... and so is a request between the guards, as far as the first one asked.
MemberUnlessWithdrawn ==
    \A p \in Procs : pc[p] = "permit" /\ ~withdrawn[p] =>
        IsMember(call[p].user, call[p].company)
=============================================================================
