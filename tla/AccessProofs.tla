---------------------------- MODULE AccessProofs ----------------------------
(***************************************************************************)
(* Proofs about Access, for any number of registrations and requests that  *)
(* overlap, and whatever the administrator does meanwhile.                 *)
(***************************************************************************)
EXTENDS Access, TLAPS

USE AccessAssumption

LEMMA InitType == Init => TypeOK
  BY DEF Init, TypeOK, Registering, Requesting

LEMMA EndsType ==
  ASSUME TypeOK, NEW p \in Procs, Ends(p)
  PROVE  TypeOK'
  BY DEF TypeOK, Ends, Leave, tables, Registering, Requesting

LEMMA RegisterType ==
  ASSUME TypeOK, NEW p \in Procs,
         \/ \E u \in User : Registers(p, u)
         \/ FindsNone(p) \/ InsertsUser(p) \/ Enrolls(p)
  PROVE  TypeOK'
  <1> USE DEF Registering, Requesting
  <1>1. ASSUME NEW u \in User, Registers(p, u)
        PROVE  TypeOK'
    <2> DEFINE c == [user |-> u, company |-> u.company, need |-> {}]
    <2>1. c \in Call /\ c.company = c.user.company
      BY DEF Call, User
    <2>2. Enter(p, "lookup", c)
      BY <1>1 DEF Registers
    <2> HIDE DEF c
    <2> QED  BY <2>1, <2>2 DEF Enter, TypeOK, tables
  <1>2. CASE FindsNone(p)
    BY <1>2 DEF FindsNone, GoesOn, TypeOK, tables
  <1>3. CASE InsertsUser(p)
    BY <1>3 DEF InsertsUser, GoesOn, TypeOK, tables
  <1>4. CASE Enrolls(p)
    <2>1. call[p].user \in User /\ call[p].company \in Companies
      BY <1>4 DEF Enrolls, TypeOK, Call
    <2> QED  BY <1>4, <2>1 DEF Enrolls, Leave, TypeOK
  <1> QED  BY <1>1, <1>2, <1>3, <1>4

LEMMA RequestType ==
  ASSUME TypeOK, NEW p \in Procs,
         \/ \E u \in User, c \in Companies, need \in SUBSET Permissions :
               Requests(p, u, c, need)
         \/ Resolves(p) \/ Permits(p)
  PROVE  TypeOK'
  <1> USE DEF Registering, Requesting
  <1>1. ASSUME NEW u \in User, NEW c \in Companies, NEW need \in SUBSET Permissions,
               Requests(p, u, c, need)
        PROVE  TypeOK'
    <2> DEFINE d == [user |-> u, company |-> c, need |-> need]
    <2>1. d \in Call /\ d.user = u
      BY DEF Call
    <2>2. Enter(p, "resolve", d) /\ u \in users
      BY <1>1 DEF Requests
    <2> HIDE DEF d
    <2> QED  BY <2>1, <2>2 DEF Enter, TypeOK, tables
  <1>2. CASE Resolves(p)
    BY <1>2 DEF Resolves, GoesOn, TypeOK, tables
  <1>3. CASE Permits(p)
    BY <1>3 DEF Permits, GoesOn, TypeOK, tables
  <1> QED  BY <1>1, <1>2, <1>3

LEMMA AdministratorType ==
  ASSUME TypeOK, Administers
  PROVE  TypeOK'
  <1>1. ASSUME NEW u \in User, NEW c \in Companies,
               TakesMembership(u, c) \/ GivesMembership(u, c)
        PROVE  TypeOK'
    <2>1. withdrawn' \in [Procs -> BOOLEAN]
      BY <1>1 DEF TakesMembership, GivesMembership, Withdraw, TypeOK
    <2>2. /\ enrolled' \subseteq User \X Companies
          /\ active' \subseteq enrolled'
          /\ UNCHANGED <<users, holds, pc, call>>
      BY <1>1 DEF TakesMembership, GivesMembership, TypeOK
    <2> QED  BY <2>1, <2>2 DEF TypeOK
  <1>2. ASSUME NEW u \in User, NEW r \in Roles, TakesRole(u, r) \/ GivesRole(u, r)
        PROVE  TypeOK'
    <2>1. withdrawn' \in [Procs -> BOOLEAN]
      BY <1>2 DEF TakesRole, GivesRole, Withdraw, TypeOK
    <2>2. /\ holds' \subseteq users \X Roles
          /\ UNCHANGED <<users, enrolled, active, pc, call>>
      BY <1>2 DEF TakesRole, GivesRole, TypeOK
    <2> QED  BY <2>1, <2>2 DEF TypeOK
  <1> QED  BY <1>1, <1>2 DEF Administers

LEMMA NextType == TypeOK /\ [Next]_vars => TypeOK'
  <1>1. TypeOK /\ UNCHANGED vars => TypeOK'
    BY DEF vars, TypeOK
  <1>2. TypeOK /\ Next => TypeOK'
    BY EndsType, RegisterType, RequestType, AdministratorType DEF Next
  <1> QED  BY <1>1, <1>2

\* The tables refer to rows that exist, and a registration that is under way
\* is for a user of the company it has upserted.
THEOREM TypeCorrect == Spec => []TypeOK
  <1> QED  BY InitType, NextType, PTL DEF Spec

----------------------------------------------------------------------------
(* Registration *)

LEMMA NextAccounts == TypeOK /\ AccountsWhole /\ [Next]_vars => AccountsWhole'
  <1> SUFFICES ASSUME TypeOK, AccountsWhole, [Next]_vars
               PROVE  AccountsWhole'
    OBVIOUS
  <1> USE DEF AccountsWhole
  <1>1. CASE UNCHANGED <<users, enrolled>>
    BY <1>1
  <1>2. ASSUME NEW p \in Procs, Enrolls(p)
        PROVE  AccountsWhole'
    <2>1. call[p].company = call[p].user.company
      BY <1>2 DEF Enrolls, TypeOK, Registering
    <2> QED  BY <1>2, <2>1 DEF Enrolls
  <1>3. CASE Administers
    <2>1. ASSUME NEW u \in User, NEW c \in Companies,
                 TakesMembership(u, c) \/ GivesMembership(u, c)
          PROVE  AccountsWhole'
      BY <2>1 DEF TakesMembership, GivesMembership
    <2>2. ASSUME NEW u \in User, NEW r \in Roles, TakesRole(u, r) \/ GivesRole(u, r)
          PROVE  AccountsWhole'
      BY <2>2 DEF TakesRole, GivesRole
    <2> QED  BY <1>3, <2>1, <2>2 DEF Administers
  <1>4. CASE ~Administers /\ ~\E p \in Procs : Enrolls(p)
    <2>1. UNCHANGED <<users, enrolled>>
      BY <1>4 DEF Next, vars, tables, Registers, Requests, Enter, FindsNone,
                  InsertsUser, Resolves, Permits, Ends
    <2> QED  BY <1>1, <2>1
  <1> QED  BY <1>2, <1>3, <1>4

\* Registrations that overlap, are refused or are cut off leave no user without
\* the membership of its company and no membership without its user.
THEOREM Accounts == Spec => []AccountsWhole
  <1>1. Init => AccountsWhole
    BY DEF Init, AccountsWhole
  <1> QED  BY <1>1, NextAccounts, TypeCorrect, PTL DEF Spec

----------------------------------------------------------------------------
(* The guards *)

GuardInv == EntitledUnlessWithdrawn /\ MemberUnlessWithdrawn

\* A step that takes nothing away and lets no request past a guard.
LEMMA GuardsQuiet ==
  ASSUME TypeOK, GuardInv, active \subseteq active', holds \subseteq holds',
         \A p \in Procs : pc'[p] \in {"permit", "admitted"} =>
            pc'[p] = pc[p] /\ call'[p] = call[p] /\ withdrawn'[p] = withdrawn[p]
  PROVE  GuardInv'
  <1>1. ASSUME NEW u, NEW c
        PROVE  PermissionsOf(u, c) \subseteq PermissionsOf(u, c)'
    BY DEF PermissionsOf
  <1>2. \A u, c : IsMember(u, c) => IsMember(u, c)'
    BY DEF IsMember
  <1>3. ASSUME NEW p \in Procs, pc'[p] = "admitted", ~withdrawn'[p]
        PROVE  /\ IsMember(call[p].user, call[p].company)'
               /\ call'[p].need \subseteq PermissionsOf(call[p].user, call[p].company)'
    <2>1. pc[p] = "admitted" /\ ~withdrawn[p] /\ call'[p] = call[p]
      BY <1>3
    <2>2. /\ IsMember(call[p].user, call[p].company)
          /\ call[p].need \subseteq PermissionsOf(call[p].user, call[p].company)
      BY <2>1 DEF GuardInv, EntitledUnlessWithdrawn
    <2>3. PermissionsOf(call[p].user, call[p].company)
             \subseteq PermissionsOf(call[p].user, call[p].company)'
      BY <1>1, <2>1 DEF PermissionsOf
    <2>4. IsMember(call[p].user, call[p].company)'
      BY <2>1, <2>2 DEF IsMember
    <2> QED  BY <2>1, <2>2, <2>3, <2>4
  <1>4. MemberUnlessWithdrawn'
    BY <1>2 DEF GuardInv, MemberUnlessWithdrawn, IsMember
  <1> QED  BY <1>3, <1>4 DEF GuardInv, EntitledUnlessWithdrawn

LEMMA GuardsPass ==
  ASSUME TypeOK, GuardInv, NEW p \in Procs, Resolves(p) \/ Permits(p)
  PROVE  GuardInv'
  <1>1. /\ UNCHANGED <<active, holds, call, withdrawn>>
        /\ \A q \in Procs : q # p => pc'[q] = pc[q]
    BY DEF Resolves, Permits, GoesOn, tables, TypeOK
  <1>2. CASE Resolves(p)
    <2>1. pc'[p] = "permit" /\ IsMember(call[p].user, call[p].company)
      BY <1>2 DEF Resolves, GoesOn, TypeOK
    <2> QED  BY <1>1, <2>1 DEF GuardInv, EntitledUnlessWithdrawn,
                MemberUnlessWithdrawn, IsMember, PermissionsOf
  <1>3. CASE Permits(p)
    <2>1. /\ pc[p] = "permit" /\ pc'[p] = "admitted"
          /\ call[p].need \subseteq PermissionsOf(call[p].user, call[p].company)
      BY <1>3 DEF Permits, GoesOn, TypeOK
    <2> QED  BY <1>1, <2>1, ZenonT(30) DEF GuardInv, EntitledUnlessWithdrawn,
                MemberUnlessWithdrawn, IsMember, PermissionsOf
  <1> QED  BY <1>2, <1>3

LEMMA GuardsTaken ==
  ASSUME TypeOK, GuardInv, NEW u \in User,
         \/ \E c \in Companies : TakesMembership(u, c)
         \/ \E r \in Roles : TakesRole(u, r)
  PROVE  GuardInv'
  <1>1. ASSUME NEW c \in Companies, TakesMembership(u, c)
        PROVE  GuardInv'
    <2>1. /\ UNCHANGED <<holds, pc, call>>
          /\ \A v, d : <<v, d>> # <<u, c>> => (<<v, d>> \in active' <=> <<v, d>> \in active)
          /\ \A p \in Procs : ~withdrawn'[p] =>
                /\ ~withdrawn[p]
                /\ pc[p] \in {"permit", "admitted"} =>
                      ~(call[p].user = u /\ call[p].company = c)
      BY <1>1 DEF TakesMembership, Withdraw
    <2> QED  BY <2>1 DEF GuardInv, EntitledUnlessWithdrawn, MemberUnlessWithdrawn,
                IsMember, PermissionsOf
  <1>2. ASSUME NEW r \in Roles, TakesRole(u, r)
        PROVE  GuardInv'
    <2>1. /\ UNCHANGED <<active, pc, call>>
          /\ \A v, s : <<v, s>> # <<u, r>> => (<<v, s>> \in holds' <=> <<v, s>> \in holds)
          /\ \A p \in Procs : ~withdrawn'[p] =>
                /\ ~withdrawn[p]
                /\ pc[p] = "admitted" =>
                      ~(call[p].user = u /\ call[p].company = RoleCompany[r])
      BY <1>2 DEF TakesRole, Withdraw
    <2>2. EntitledUnlessWithdrawn'
      <3> SUFFICES ASSUME NEW p \in Procs, pc'[p] = "admitted", ~withdrawn'[p]
                   PROVE  /\ IsMember(call[p].user, call[p].company)'
                          /\ call'[p].need \subseteq
                                PermissionsOf(call[p].user, call[p].company)'
        BY DEF EntitledUnlessWithdrawn
      <3>1. /\ pc[p] = "admitted" /\ ~withdrawn[p] /\ call' = call
            /\ ~(call[p].user = u /\ call[p].company = RoleCompany[r])
        BY <2>1
      <3>2. /\ IsMember(call[p].user, call[p].company)
            /\ call[p].need \subseteq PermissionsOf(call[p].user, call[p].company)
        BY <3>1 DEF GuardInv, EntitledUnlessWithdrawn
      <3>3. PermissionsOf(call[p].user, call[p].company)'
               = PermissionsOf(call[p].user, call[p].company)
        <4>1. \A s \in Roles : RoleCompany[s] = call[p].company =>
                 (<<call[p].user, s>> \in holds' <=> <<call[p].user, s>> \in holds)
          BY <2>1, <3>1
        <4>2. call'[p] = call[p]
          BY <3>1
        <4> QED  BY <4>1, <4>2 DEF PermissionsOf
      <3>4. IsMember(call[p].user, call[p].company)'
        BY <2>1, <3>2 DEF IsMember
      <3> QED  BY <3>1, <3>2, <3>3, <3>4
    <2>3. MemberUnlessWithdrawn'
      BY <2>1 DEF GuardInv, MemberUnlessWithdrawn, IsMember
    <2> QED  BY <2>2, <2>3 DEF GuardInv
  <1> QED  BY <1>1, <1>2

LEMMA NextGuards == TypeOK /\ GuardInv /\ [Next]_vars => GuardInv'
  <1> SUFFICES ASSUME TypeOK, GuardInv, [Next]_vars
               PROVE  GuardInv'
    OBVIOUS
  <1>1. CASE UNCHANGED vars
    BY <1>1, GuardsQuiet DEF vars
  <1>2. ASSUME NEW p \in Procs,
               \/ \E u \in User : Registers(p, u)
               \/ \E u \in User, c \in Companies, need \in SUBSET Permissions :
                     Requests(p, u, c, need)
               \/ FindsNone(p) \/ InsertsUser(p) \/ Enrolls(p) \/ Ends(p)
        PROVE  GuardInv'
    <2>1. /\ active \subseteq active' /\ holds \subseteq holds'
          /\ pc'[p] \notin {"permit", "admitted"}
          /\ \A q \in Procs : q # p =>
                pc'[q] = pc[q] /\ call'[q] = call[q] /\ withdrawn'[q] = withdrawn[q]
      BY <1>2 DEF Registers, Requests, Enter, FindsNone, InsertsUser, Enrolls,
                  Ends, Leave, GoesOn, tables, TypeOK
    <2> QED  BY <2>1, GuardsQuiet
  <1>3. ASSUME NEW p \in Procs, Resolves(p) \/ Permits(p)
        PROVE  GuardInv'
    BY <1>3, GuardsPass
  <1>4. CASE Administers
    <2>1. ASSUME NEW u \in User,
                 \/ \E c \in Companies : TakesMembership(u, c)
                 \/ \E r \in Roles : TakesRole(u, r)
          PROVE  GuardInv'
      BY <2>1, GuardsTaken
    <2>2. ASSUME NEW u \in User,
                 \/ \E c \in Companies : GivesMembership(u, c)
                 \/ \E r \in Roles : GivesRole(u, r)
          PROVE  GuardInv'
      BY <2>2, GuardsQuiet DEF GivesMembership, GivesRole
    <2> QED  BY <1>4, <2>1, <2>2 DEF Administers
  <1> QED  BY <1>1, <1>2, <1>3, <1>4 DEF Next

\* Whatever is registered, requested and administered at the same time, a
\* request the guards let through is entitled to what it does, unless what a
\* guard saw was taken away while the request was under way.
THEOREM Entitled == Spec => []EntitledUnlessWithdrawn
  <1>1. Init => GuardInv
    BY DEF Init, GuardInv, EntitledUnlessWithdrawn, MemberUnlessWithdrawn
  <1>2. GuardInv => EntitledUnlessWithdrawn
    BY DEF GuardInv
  <1> QED  BY <1>1, <1>2, NextGuards, TypeCorrect, PTL DEF Spec
=============================================================================
