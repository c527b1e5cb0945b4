---------------------------- MODULE ListingProofs ---------------------------
(***************************************************************************)
(* Proofs about Listing, for tables of any length and pages of any size:   *)
(* type correctness, and that a client misses and is shown again no more   *)
(* rows than were moved while it walked through the pages.                 *)
(***************************************************************************)
EXTENDS Listing, FiniteSetTheorems, TLAPS

\* The rows of its list that row i stands behind, and how many they are.
InFront(i) == {j \in Where(table[i].kind) : Ahead(j, i)}

Place(i) == Cardinality(InFront(i))

LEMMA QueryType ==
    ASSUME query \in Queries
    PROVE  /\ query.limit \in Nat /\ query.limit >= 1
           /\ query.types \subseteq Kinds
           /\ query.order.ranked \in BOOLEAN /\ query.order.up \in BOOLEAN
<1>1. PICK l \in Limits :
         query \in ListCustomers(l) \cup ListDeals(l) \cup ListContacts(l)
                      \cup ListTasks(l) \cup SearchAll(l)
  BY DEF Queries
<1>2. PICK ks \in SUBSET Kinds, o \in [ranked : BOOLEAN, up : BOOLEAN, tie : {"asc", "desc", "free"}] :
         query = Ask(ks, o, l)
  <2>1. CASE query \in ListCustomers(l)
    BY <2>1 DEF ListCustomers, Kinds
  <2>2. CASE query \in ListDeals(l)
    BY <2>2 DEF ListDeals, Kinds, Newest
  <2>3. CASE query \in ListContacts(l)
    BY <2>3 DEF ListContacts, Kinds, Newest
  <2>4. CASE query \in ListTasks(l)
    BY <2>4 DEF ListTasks, Kinds
  <2>5. CASE query \in SearchAll(l)
    BY <2>5 DEF SearchAll, Types, Kinds, Newest
  <2> QED
    BY <1>1, <2>1, <2>2, <2>3, <2>4, <2>5
<1>3. l \in Nat /\ l >= 1
  BY ListingAssumption
<1> QED
  BY <1>2, <1>3 DEF Ask

LEMMA RowType ==
    ASSUME TypeOK, NEW i \in DOMAIN table
    PROVE  /\ i \in 1 .. NRows /\ table[i] \in Row
           /\ table[i].rank \in Int
<1>1. table \in Seq(Row) /\ Len(table) \in Nat /\ Len(table) <= NRows
  BY DEF TypeOK
<1>2. i \in 1 .. Len(table) /\ table[i] \in Row
  BY <1>1
<1> QED
  BY <1>1, <1>2, ListingAssumption DEF Row

\* The order of a list is strict and transitive.
LEMMA AheadOrder ==
    ASSUME TypeOK, NEW i \in DOMAIN table, NEW j \in DOMAIN table,
           NEW k \in DOMAIN table
    PROVE  /\ ~Ahead(i, i)
           /\ Ahead(i, j) /\ Ahead(j, k) => Ahead(i, k)
<1>1. /\ i \in Int /\ j \in Int /\ k \in Int
      /\ table[i].rank \in Int /\ table[j].rank \in Int /\ table[k].rank \in Int
  BY RowType
<1>2. query.order.ranked \in BOOLEAN /\ query.order.up \in BOOLEAN
  BY QueryType DEF TypeOK
<1> QED
  BY <1>1, <1>2 DEF Ahead, Ranks

LEMMA WhereFinite ==
    ASSUME TypeOK, NEW k
    PROVE  /\ IsFiniteSet(Where(k))
           /\ Cardinality(Where(k)) \in Nat
           /\ Cardinality(Where(k)) <= NRows
<1>1. Len(table) \in Nat /\ Len(table) <= NRows /\ DOMAIN table = 1 .. Len(table)
  BY DEF TypeOK
<1>2. IsFiniteSet(DOMAIN table) /\ Cardinality(DOMAIN table) = Len(table)
  <2>1. PICK n \in Nat : Len(table) = n /\ DOMAIN table = 1 .. n
    BY <1>1
  <2>2. IsFiniteSet(1 .. n) /\ Cardinality(1 .. n) = n
    BY FS_Interval
  <2> QED
    BY <2>1, <2>2
<1>3. Where(k) \subseteq DOMAIN table
  BY DEF Where
<1>4. IsFiniteSet(Where(k)) /\ Cardinality(Where(k)) <= Cardinality(DOMAIN table)
  BY <1>2, <1>3, FS_Subset
<1>5. Cardinality(Where(k)) \in Nat
  BY <1>4, FS_CardinalityType
<1> QED
  BY <1>1, <1>2, <1>4, <1>5, ListingAssumption

LEMMA PlaceType ==
    ASSUME TypeOK, NEW i
    PROVE  IsFiniteSet(InFront(i)) /\ Place(i) \in Nat
<1>1. InFront(i) \subseteq Where(table[i].kind)
  BY DEF InFront
<1>2. IsFiniteSet(InFront(i))
  BY <1>1, WhereFinite, FS_Subset
<1> QED
  BY <1>2, FS_CardinalityType DEF Place

\* A row ahead of another one has the lower place; no place is beyond the
\* length of the list.
LEMMA PlaceLess ==
    ASSUME TypeOK, NEW k, NEW i \in Where(k), NEW j \in Where(k), Ahead(i, j)
    PROVE  Place(i) < Place(j)
<1>1. /\ i \in DOMAIN table /\ j \in DOMAIN table
      /\ table[i].kind = k /\ table[j].kind = k
  BY DEF Where
<1>2. InFront(i) \cup {i} \subseteq InFront(j)
  BY <1>1, AheadOrder DEF InFront, Where
<1>3. i \notin InFront(i)
  BY <1>1, AheadOrder DEF InFront
<1>4. /\ IsFiniteSet(InFront(i)) /\ IsFiniteSet(InFront(j))
      /\ Place(i) \in Nat /\ Place(j) \in Nat
  BY PlaceType
<1>5. Cardinality(InFront(i) \cup {i}) = Place(i) + 1
  BY <1>3, <1>4, FS_AddElement DEF Place
<1>6. Cardinality(InFront(i) \cup {i}) <= Place(j)
  BY <1>2, <1>4, FS_Subset DEF Place
<1> QED
  BY <1>4, <1>5, <1>6

LEMMA PlaceBelow ==
    ASSUME TypeOK, NEW k, NEW i \in Where(k)
    PROVE  Place(i) < Cardinality(Where(k))
<1>1. i \in DOMAIN table /\ table[i].kind = k
  BY DEF Where
<1>2. InFront(i) \subseteq Where(k) /\ InFront(i) # Where(k)
  BY <1>1, AheadOrder DEF InFront
<1>3. /\ Place(i) <= Cardinality(Where(k))
      /\ Place(i) # Cardinality(Where(k))
  BY <1>2, WhereFinite, FS_Subset DEF Place
<1>4. Place(i) \in Nat /\ Cardinality(Where(k)) \in Nat
  BY PlaceType, WhereFinite
<1> QED
  BY <1>3, <1>4

\* A list without ties has one order, in which each row stands at its place.
LEMMA ListByPlace ==
    ASSUME TypeOK, NEW k, ~Ties(k), NEW s \in OrderBy(k)
    PROVE  /\ DOMAIN s = 1 .. Cardinality(Where(k))
           /\ \A n \in DOMAIN s : s[n] \in Where(k) /\ Place(s[n]) = n - 1
           /\ \A i \in Where(k) : \E n \in DOMAIN s : s[n] = i
<1> DEFINE N == Cardinality(Where(k))
<1>1. N \in Nat /\ IsFiniteSet(Where(k))
  BY WhereFinite
<1>2. /\ s \in [1 .. N -> Where(k)]
      /\ \A a, b \in 1 .. N : a # b => s[a] # s[b]
      /\ \A a, b \in DOMAIN s : a < b => ~Ahead(s[b], s[a])
  BY DEF OrderBy, SetToSeqs
<1> HIDE DEF N
<1>3. DOMAIN s = 1 .. N
  BY <1>2
<1>4. IsFiniteSet(1 .. N) /\ Cardinality(1 .. N) = N
  BY <1>1, FS_Interval
<1>5. s \in Injection(1 .. N, Where(k))
  BY <1>2 DEF Injection, IsInjective
<1>6. s \in Surjection(1 .. N, Where(k))
  BY <1>1, <1>4, <1>5, FS_Injection DEF N
<1>7. \A i \in Where(k) : \E n \in DOMAIN s : s[n] = i
  BY <1>3, <1>6 DEF Surjection
<1>8. ASSUME NEW n \in 1 .. N
      PROVE  s[n] \in Where(k) /\ Place(s[n]) = n - 1
  <2>1. s[n] \in Where(k)
    BY <1>2
  <2>2. table[s[n]].kind = k
    BY <2>1 DEF Where
  <2>3. ASSUME NEW m \in 1 .. n - 1
        PROVE  s[m] \in InFront(s[n])
    <3>1. m \in 1 .. N /\ m < n
      BY <1>1
    <3>2. s[m] \in Where(k) /\ s[m] # s[n] /\ ~Ahead(s[n], s[m])
      BY <1>2, <1>3, <3>1
    <3>3. Ahead(s[m], s[n])
      BY <2>1, <3>2 DEF Ties
    <3> QED
      BY <2>2, <3>2, <3>3 DEF InFront
  <2>4. ASSUME NEW i \in InFront(s[n])
        PROVE  \E m \in 1 .. n - 1 : s[m] = i
    <3>1. i \in Where(k) /\ Ahead(i, s[n])
      BY <2>2 DEF InFront
    <3>2. PICK m \in 1 .. N : s[m] = i
      BY <1>3, <1>7, <3>1
    <3>3. ~(n < m)
      BY <1>2, <1>3, <3>1, <3>2
    <3>4. m # n
      BY <2>1, <3>1, <3>2, AheadOrder DEF Where
    <3> QED
      BY <1>1, <3>2, <3>3, <3>4
  <2> DEFINE f == [m \in 1 .. n - 1 |-> s[m]]
  <2>5. f \in [1 .. n - 1 -> InFront(s[n])]
    BY <2>3
  <2>6. \A a, b \in 1 .. n - 1 : f[a] = f[b] => a = b
    BY <1>1, <1>2
  <2>7. \A i \in InFront(s[n]) : \E m \in 1 .. n - 1 : f[m] = i
    BY <2>4
  <2> HIDE DEF f
  <2>8. f \in Bijection(1 .. n - 1, InFront(s[n]))
    BY <2>5, <2>6, <2>7 DEF Bijection, Injection, Surjection, IsInjective
  <2>9. ExistsBijection(1 .. n - 1, InFront(s[n]))
    BY <2>8 DEF ExistsBijection
  <2>10. n - 1 \in Nat
    BY <1>1
  <2> QED
    BY <2>1, <2>9, <2>10, FS_CountingElements DEF Place
<1> QED
  BY <1>3, <1>7, <1>8 DEF N

LEMMA SkipType ==
    ASSUME TypeOK
    PROVE  /\ page \in Nat /\ Skip \in Nat /\ Skip >= page - 1
           /\ Skip + query.limit = page * query.limit
           /\ query.limit \in Nat /\ query.limit >= 1
<1>1. ASSUME NEW l \in Nat, l >= 1, NEW n \in Nat
      PROVE  n * l \in Nat /\ n * l >= n /\ n * l + l = (n + 1) * l
  <2>1. n * l = n + n * (l - 1) /\ n * (l - 1) \in Nat
    BY <1>1
  <2> QED
    BY <1>1, <2>1
<1>2. query.limit \in Nat /\ query.limit >= 1
  BY QueryType DEF TypeOK
<1>3. page \in Nat /\ page - 1 \in Nat /\ (page - 1) + 1 = page
  BY ListingAssumption DEF TypeOK
<1> QED
  BY <1>1, <1>2, <1>3 DEF Skip

----------------------------------------------------------------------------
(* Types, and how far the client has got *)

\* Matching rows, of any table.
Matching == {i \in DOMAIN table : Matches(table[i])}

\* A table is counted after its items were read; a page that is beyond the
\* rows there may be has no next one; a row was returned at most once a page.
WalkInv ==
    /\ section # "none" => section \in todo
    /\ more => page <= NRows
    /\ \A i \in DOMAIN table : table[i].kind \in query.types
    /\ steady \subseteq Matching
    /\ \A i \in 1 .. NRows :
          /\ got[i] <= page
          /\ i \notin DOMAIN table => got[i] = 0
          /\ i \in DOMAIN table /\ table[i].kind \in todo
             /\ table[i].kind # section => got[i] < page

\* The items of a page.
Items(s) == {s[n] : n \in DOMAIN s \cap (Skip + 1 .. Skip + query.limit)}

LEMMA ItemsFound ==
    ASSUME TypeOK, NEW k, NEW s \in OrderBy(k)
    PROVE  /\ Items(s) \subseteq Where(k)
           /\ Items(s) # {} => page <= NRows
<1>1. s \in [1 .. Cardinality(Where(k)) -> Where(k)]
  BY DEF OrderBy, SetToSeqs
<1>2. Cardinality(Where(k)) \in Nat /\ Cardinality(Where(k)) <= NRows
  BY WhereFinite
<1>3. Items(s) \subseteq Where(k)
  BY <1>1 DEF Items
<1>4. ASSUME NEW n \in DOMAIN s \cap (Skip + 1 .. Skip + query.limit)
      PROVE  page <= NRows
  BY <1>1, <1>2, SkipType, ListingAssumption
<1> QED
  BY <1>3, <1>4 DEF Items

LEMMA WalkInit == Init => TypeOK /\ WalkInv
<1> SUFFICES ASSUME Init
             PROVE  TypeOK /\ WalkInv
  OBVIOUS
<1>1. table \in Seq(Row) /\ Len(table) <= NRows /\ Len(table) \in Nat
  BY ListingAssumption DEF Init
<1>2. DOMAIN table = 1 .. Len(table)
  BY <1>1
<1>3. TypeOK
  <2>1. NRows \in Nat /\ MaxChanges \in Nat
    BY ListingAssumption
  <2>2. got \in [1 .. NRows -> 0 .. NRows] /\ page \in 1 .. NRows + 1
    BY <2>1 DEF Init
  <2> QED
    <3>1. query \in Queries /\ todo = query.types /\ steady = {}
      BY DEF Init
    <3>2. left \in 0 .. MaxChanges /\ came \in 0 .. MaxChanges
      BY <2>1 DEF Init
    <3>3. /\ section \in Kinds \cup {"none"} /\ more \in BOOLEAN
          /\ tied \in BOOLEAN
      BY DEF Init
    <3> QED
      BY <1>1, <2>2, <3>1, <3>2, <3>3 DEF TypeOK
<1> QED
  BY <1>2, <1>3, ListingAssumption DEF Init, WalkInv

LEMMA WalkFinds ==
    ASSUME TypeOK, WalkInv, NEW k \in Kinds, Finds(k)
    PROVE  TypeOK' /\ WalkInv'
<1>1. PICK s \in OrderBy(k) :
         got' = [i \in 1 .. NRows |-> got[i] + IF i \in Items(s) THEN 1 ELSE 0]
  BY DEF Finds, Items
<1>2. /\ section = "none" /\ k \in todo /\ section' = k /\ k # "none"
      /\ steady' = IF page = 1 THEN steady \cup Where(k) ELSE steady
      /\ tied' = (tied \/ Ties(k))
      /\ UNCHANGED <<query, table, page, todo, more, left, came>>
  BY DEF Finds, Kinds
<1>3. Items(s) \subseteq Where(k) /\ (Items(s) # {} => page <= NRows)
  BY ItemsFound
<1>4. ASSUME NEW i \in 1 .. NRows
      PROVE  /\ got'[i] \in 0 .. NRows /\ got'[i] <= page
             /\ i \notin DOMAIN table => got'[i] = 0
             /\ i \in DOMAIN table /\ table[i].kind \in todo
                /\ table[i].kind # k => got'[i] < page
  <2>1. got[i] \in 0 .. NRows /\ got[i] <= page /\ page \in Nat /\ NRows \in Nat
    BY SkipType, ListingAssumption DEF TypeOK, WalkInv
  <2>2. CASE i \in Items(s)
    <3>1. i \in DOMAIN table /\ table[i].kind = k /\ page <= NRows
      BY <1>3, <2>2 DEF Where
    <3>2. got[i] < page
      BY <1>2, <3>1 DEF WalkInv
    <3>3. got'[i] = got[i] + 1
      BY <1>1, <2>2
    <3> QED
      BY <2>1, <3>1, <3>2, <3>3
  <2>3. CASE i \notin Items(s)
    <3>1. got'[i] = got[i]
      BY <1>1, <2>1, <2>3
    <3>2. i \in DOMAIN table => table[i].kind # section
      BY <1>2, RowType DEF Row, Kinds
    <3> QED
      BY <1>2, <2>1, <3>1, <3>2 DEF WalkInv
  <2> QED
    BY <2>2, <2>3
<1>5. Where(k) \subseteq Matching /\ Where(k) \subseteq DOMAIN table
  BY DEF Where, Matching, Matches
<1>6. got' \in [1 .. NRows -> 0 .. NRows]
  BY <1>1, <1>4
<1>7. TypeOK'
  BY <1>2, <1>5, <1>6 DEF TypeOK, Ties
<1>8. steady' \subseteq Matching /\ Matching' = Matching
  BY <1>2, <1>5 DEF WalkInv, Matching
<1>9. WalkInv'
  BY <1>2, <1>4, <1>8 DEF WalkInv
<1> QED
  BY <1>7, <1>9

LEMMA WalkCounts ==
    ASSUME TypeOK, WalkInv, Counts
    PROVE  TypeOK' /\ WalkInv'
<1>1. /\ section # "none" /\ section \in todo
      /\ more' = (more \/ page * query.limit < Cardinality(Where(section)))
      /\ todo' = todo \ {section} /\ section' = "none"
      /\ UNCHANGED <<query, table, page, got, steady, left, came, tied>>
  BY DEF Counts, WalkInv
<1>2. more' => page <= NRows
  <2>1. PICK m \in Int : m = page * query.limit /\ m >= page
    BY SkipType
  <2>3. page \in Nat
    BY SkipType
  <2>2. /\ Cardinality(Where(section)) <= NRows
        /\ Cardinality(Where(section)) \in Nat /\ NRows \in Nat
    BY WhereFinite, ListingAssumption
  <2> QED
    <3>1. CASE more
      BY <3>1 DEF WalkInv
    <3>2. CASE m < Cardinality(Where(section))
      BY <2>1, <2>2, <2>3, <3>2
    <3>3. more' => more \/ m < Cardinality(Where(section))
      BY <1>1, <2>1
    <3> QED
      BY <3>1, <3>2, <3>3
<1>3. TypeOK'
  BY <1>1 DEF TypeOK
<1> QED
  BY <1>1, <1>2, <1>3 DEF WalkInv, Matching

LEMMA WalkAsksNext ==
    ASSUME TypeOK, WalkInv, AsksNext
    PROVE  TypeOK' /\ WalkInv'
<1>1. /\ section = "none" /\ todo = {} /\ more
      /\ page' = page + 1 /\ todo' = query.types /\ more' = FALSE
      /\ UNCHANGED <<query, table, section, got, steady, left, came, tied>>
  BY DEF AsksNext, Answered
<1>2. page <= NRows /\ page \in 1 .. NRows + 1 /\ NRows \in Nat
  BY <1>1, ListingAssumption DEF WalkInv, TypeOK
<1>3. TypeOK'
  <2>1. page' \in 1 .. NRows + 1
    BY <1>1, <1>2
  <2> QED
    BY <1>1, <2>1 DEF TypeOK
<1>4. \A i \in 1 .. NRows : got[i] \in 0 .. NRows
  BY DEF TypeOK
<1> QED
  BY <1>1, <1>2, <1>3, <1>4 DEF WalkInv, Matching

----------------------------------------------------------------------------
(* Changes of the tables *)

Still(r) == query.order.ranked => table'[r].rank = table[r].rank

\* A row that is in its list before and after a step, and is not moved in it.
Stays(i) ==
    /\ i \in Matching /\ i \in Matching'
    /\ table'[i].kind = table[i].kind
    /\ Still(i)

\* What is common to the insertion, the deletion and the edits of a row r.
Shift(r) ==
    /\ UNCHANGED <<query, walk>>
    /\ table' \in Seq(Row) /\ Len(table') <= NRows
    /\ r \in DOMAIN table' /\ DOMAIN table' = DOMAIN table \cup {r}
    /\ \A i \in DOMAIN table : i # r => table'[i] = table[i]
    /\ table'[r].kind \in query.types
    /\ r \in DOMAIN table => table'[r].kind = table[r].kind
    /\ left' \in {left, left + 1} /\ left' <= MaxChanges
    /\ came' \in {came, came + 1} /\ came' <= MaxChanges
    /\ left' = left /\ r \in Matching => Stays(r)
    /\ came' = came /\ r \in Matching' => Stays(r)
    /\ steady' \subseteq steady
    /\ r \in steady' => left' = left

LEMMA ShiftBecomes ==
    ASSUME TypeOK, WalkInv, NEW i \in DOMAIN table, NEW v \in Row,
           v.kind = table[i].kind, left < MaxChanges, came < MaxChanges,
           Becomes(i, v)
    PROVE  Shift(i)
<1> DEFINE moved == query.order.ranked /\ v.rank # table[i].rank
           out   == Matches(table[i]) /\ (moved \/ ~Matches(v))
           in    == Matches(v) /\ (moved \/ ~Matches(table[i]))
<1>1. /\ table' = [table EXCEPT ![i] = v]
      /\ left' = left + IF out THEN 1 ELSE 0
      /\ came' = came + IF in THEN 1 ELSE 0
      /\ steady' = IF out THEN steady \ {i} ELSE steady
      /\ UNCHANGED <<query, walk>>
  BY DEF Becomes
<1>2. /\ table \in Seq(Row) /\ Len(table) <= NRows
      /\ left \in Nat /\ came \in Nat /\ MaxChanges \in Nat
  BY ListingAssumption DEF TypeOK
<1>3. /\ table' \in Seq(Row) /\ Len(table') = Len(table)
      /\ DOMAIN table' = DOMAIN table
  BY <1>1, <1>2
<1>4. table'[i] = v /\ \A j \in DOMAIN table : j # i => table'[j] = table[j]
  BY <1>1, <1>2
<1>5. table'[i].kind \in query.types
  BY <1>4 DEF WalkInv
<1>6. /\ \/ left' = left + 1 /\ steady' = steady \ {i}
         \/ left' = left /\ ~out /\ steady' = steady
      /\ \/ came' = came + 1
         \/ came' = came /\ ~in
  <2> HIDE DEF out, in
  <2>1. CASE out
    BY <1>1, <1>2, <2>1
  <2>2. CASE ~out
    BY <1>1, <1>2, <2>2
  <2> QED
    BY <2>1, <2>2
<1>7. i \in Matching <=> Matches(table[i])
  BY DEF Matching
<1>8. i \in Matching' <=> Matches(v)
  BY <1>3, <1>4 DEF Matching, Matches
<1>9. ~out /\ Matches(table[i]) => Stays(i)
  BY <1>4, <1>7, <1>8 DEF Stays, Still
<1>10. ~in /\ Matches(v) => Stays(i)
  BY <1>4, <1>7, <1>8 DEF Stays, Still
<1>11. /\ left' \in {left, left + 1} /\ left' <= MaxChanges
       /\ came' \in {came, came + 1} /\ came' <= MaxChanges
  BY <1>2, <1>6
<1>12. left' = left => ~out
  BY <1>2, <1>6
<1>13. came' = came => ~in
  BY <1>2, <1>6
<1>14. steady' \subseteq steady /\ (i \in steady' => left' = left)
  BY <1>6
<1> HIDE DEF moved, out, in
<1>15. left' = left /\ i \in Matching => Stays(i)
  BY <1>7, <1>9, <1>12
<1>16. came' = came /\ i \in Matching' => Stays(i)
  BY <1>8, <1>10, <1>13
<1> QED
  BY <1>1, <1>2, <1>3, <1>4, <1>5, <1>11, <1>14, <1>15, <1>16 DEF Shift

LEMMA ShiftStep ==
    ASSUME TypeOK, WalkInv,
           Inserts \/ \E i \in DOMAIN table : Deletes(i) \/ Edits(i) \/ Reranks(i)
    PROVE  \E r : Shift(r)
<1>1. /\ table \in Seq(Row) /\ Len(table) \in Nat /\ Len(table) <= NRows
      /\ NRows \in Nat /\ DOMAIN table = 1 .. Len(table)
      /\ left \in Nat /\ came \in Nat /\ MaxChanges \in Nat
  BY ListingAssumption DEF TypeOK
<1>2. CASE Inserts
  <2>1. PICK k \in query.types, b \in 0 .. MaxRank :
           table' = Append(table, [kind |-> k, live |-> TRUE, hit |-> TRUE, rank |-> b])
    BY <1>2 DEF Inserts
  <2> DEFINE v == [kind |-> k, live |-> TRUE, hit |-> TRUE, rank |-> b]
             n == Len(table) + 1
  <2>2. v \in Row /\ v.kind = k
    BY QueryType DEF Row, TypeOK
  <2> HIDE DEF v
  <2>3. /\ table' \in Seq(Row) /\ Len(table') = n /\ DOMAIN table' = 1 .. n
        /\ table'[n] = v
        /\ \A i \in 1 .. Len(table) : table'[i] = table[i]
    BY <1>1, <2>1, <2>2 DEF v
  <2>4. /\ Len(table) < NRows /\ left + came < MaxChanges /\ came' = came + 1
        /\ UNCHANGED <<query, steady, left, walk>>
    BY <1>2 DEF Inserts, Meanwhile
  <2>5. n \notin DOMAIN table /\ n \in DOMAIN table'
        /\ DOMAIN table' = DOMAIN table \cup {n}
    BY <1>1, <2>3
  <2>6. n \notin Matching /\ n \notin steady
    BY <2>5 DEF Matching, WalkInv
  <2>7. /\ left' = left /\ left' <= MaxChanges
        /\ came' # came /\ came' <= MaxChanges
    BY <1>1, <2>4
  <2>8. Len(table') <= NRows
    BY <1>1, <2>3, <2>4
  <2>9. Shift(n)
    BY <1>1, <2>2, <2>3, <2>4, <2>5, <2>6, <2>7, <2>8 DEF Shift
  <2> QED
    BY <2>9
<1>3. ASSUME NEW i \in DOMAIN table, Deletes(i) \/ Edits(i) \/ Reranks(i)
      PROVE  Shift(i)
  <2>1. table[i] \in Row
    BY RowType
  <2>2. /\ [table[i] EXCEPT !.live = FALSE] \in Row
        /\ [table[i] EXCEPT !.live = FALSE].kind = table[i].kind
    BY <2>1 DEF Row
  <2>3. /\ [table[i] EXCEPT !.hit = ~@] \in Row
        /\ [table[i] EXCEPT !.hit = ~@].kind = table[i].kind
    BY <2>1 DEF Row
  <2>4. ASSUME NEW b \in 0 .. MaxRank
        PROVE  /\ [table[i] EXCEPT !.rank = b] \in Row
               /\ [table[i] EXCEPT !.rank = b].kind = table[i].kind
    BY <2>1 DEF Row
  <2>5. left < MaxChanges /\ came < MaxChanges
    BY <1>1, <1>3 DEF Deletes, Edits, Reranks, Meanwhile
  <2>6. CASE Deletes(i)
    BY <2>2, <2>5, <2>6, ShiftBecomes DEF Deletes
  <2>7. CASE Edits(i)
    BY <2>3, <2>5, <2>7, ShiftBecomes DEF Edits
  <2>8. CASE Reranks(i)
    <3>1. PICK b \in 0 .. MaxRank : Becomes(i, [table[i] EXCEPT !.rank = b])
      BY <2>8 DEF Reranks
    <3> QED
      BY <2>4, <2>5, <3>1, ShiftBecomes
  <2> QED
    BY <1>3, <2>6, <2>7, <2>8
<1> QED
  BY <1>2, <1>3

LEMMA WalkShift ==
    ASSUME TypeOK, WalkInv, NEW r, Shift(r)
    PROVE  TypeOK' /\ WalkInv'
<1>1. /\ UNCHANGED <<query, page, todo, section, more, got, tied>>
      /\ table' \in Seq(Row) /\ Len(table') <= NRows
  BY DEF Shift, walk
<1>2. left' \in 0 .. MaxChanges /\ came' \in 0 .. MaxChanges
  BY ListingAssumption DEF Shift, TypeOK
<1>3. ASSUME NEW i \in steady'
      PROVE  i \in Matching'
  <2>1. i \in Matching /\ i \in DOMAIN table
    BY <1>3 DEF Shift, WalkInv, Matching
  <2>2. CASE i = r
    BY <1>3, <2>1, <2>2 DEF Shift, Stays
  <2>3. CASE i # r
    BY <2>1, <2>3 DEF Shift, Matching
  <2> QED
    BY <2>2, <2>3
<1>4. steady' \subseteq DOMAIN table'
  BY <1>3 DEF Matching
<1>5. TypeOK'
  BY <1>1, <1>2, <1>4 DEF TypeOK
<1>6. \A i \in DOMAIN table' : table'[i].kind \in query'.types
  BY <1>1 DEF Shift, WalkInv
<1>7. ASSUME NEW i \in 1 .. NRows
      PROVE  /\ i \notin DOMAIN table' => got'[i] = 0
             /\ i \in DOMAIN table' /\ table'[i].kind \in todo'
                /\ table'[i].kind # section' => got'[i] < page'
  <2>1. CASE i \in DOMAIN table
    <3>1. table'[i].kind = table[i].kind /\ i \in DOMAIN table'
      BY <2>1 DEF Shift
    <3> QED
      BY <1>1, <2>1, <3>1 DEF WalkInv
  <2>2. CASE i \notin DOMAIN table
    BY <1>1, <2>2, ListingAssumption DEF WalkInv, TypeOK
  <2> QED
    BY <2>1, <2>2
<1> QED
  BY <1>1, <1>3, <1>5, <1>6, <1>7 DEF WalkInv

----------------------------------------------------------------------------
(* Places, while a row changes *)

LEMMA FiniteRows ==
    ASSUME NEW S \in SUBSET (1 .. NRows)
    PROVE  IsFiniteSet(S) /\ Cardinality(S) \in Nat
<1>1. NRows \in Nat
  BY ListingAssumption
<1>2. IsFiniteSet(1 .. NRows)
  BY <1>1, FS_Interval
<1>3. IsFiniteSet(S)
  BY <1>2, FS_Subset
<1> QED
  BY <1>3, FS_CardinalityType

\* A set that gains one element at most, whatever it loses.
LEMMA OneMore ==
    ASSUME NEW S, NEW T, IsFiniteSet(S), IsFiniteSet(T),
           \A x, y \in T \ S : x = y
    PROVE  Cardinality(T) <= Cardinality(S) + 1
<1>1. Cardinality(S) \in Nat /\ Cardinality(T) \in Nat
  BY FS_CardinalityType
<1>2. CASE T \subseteq S
  <2>1. Cardinality(T) <= Cardinality(S)
    BY <1>2, FS_Subset
  <2> QED
    BY <1>1, <2>1
<1>3. CASE ~(T \subseteq S)
  <2>1. PICK x \in T : x \notin S
    BY <1>3
  <2>2. T \subseteq S \cup {x}
    BY <2>1
  <2>3. /\ IsFiniteSet(S \cup {x})
        /\ Cardinality(S \cup {x}) = Cardinality(S) + 1
    BY <2>1, FS_AddElement
  <2>4. Cardinality(T) <= Cardinality(S \cup {x})
    BY <2>2, <2>3, FS_Subset
  <2> QED
    BY <1>1, <2>3, <2>4
<1> QED
  BY <1>2, <1>3

LEMMA InFrontRows ==
    ASSUME TypeOK, NEW i
    PROVE  InFront(i) \in SUBSET (1 .. NRows)
BY RowType DEF InFront, Where

\* A row that stays moves up by one only if the other one was in front of it
\* and left, and down by one only if it is now in front of it and came.
LEMMA PlaceShift ==
    ASSUME TypeOK, TypeOK', NEW r, Shift(r), NEW i, Stays(i)
    PROVE  /\ Place(i) \in Nat /\ Place(i)' \in Nat
           /\ Place(i) <= Place(i)' + 1 /\ Place(i)' <= Place(i) + 1
           /\ Place(i)' < Place(i) => r \in InFront(i) /\ left' # left
           /\ Place(i) < Place(i)' => r \in InFront(i)' /\ came' # came
<1>1. i \in DOMAIN table /\ i \in DOMAIN table' /\ table'[i].kind = table[i].kind
  BY DEF Stays, Matching
<1>2. /\ InFront(i) \in SUBSET (1 .. NRows)
      /\ InFront(i)' \in SUBSET (1 .. NRows)
  <2>1. InFront(i)' \subseteq DOMAIN table'
    BY DEF InFront, Where
  <2>2. DOMAIN table' \subseteq 1 .. NRows
    BY ListingAssumption DEF TypeOK
  <2> QED
    BY <2>1, <2>2, InFrontRows
<1>3. /\ IsFiniteSet(InFront(i)) /\ Place(i) \in Nat
      /\ IsFiniteSet(InFront(i)') /\ Place(i)' \in Nat
  BY <1>2, FiniteRows DEF Place
<1>4. ASSUME NEW j, Stays(j) \/ j # r
      PROVE  j \in InFront(i) <=> j \in InFront(i)'
  <2>1. CASE Stays(j)
    <3>1. Ahead(j, i) <=> Ahead(j, i)'
      BY <2>1 DEF Ahead, Ranks, Stays, Still, Shift
    <3> QED
      BY <1>1, <2>1, <3>1 DEF InFront, Where, Stays, Matching, Matches
  <2>2. CASE j # r /\ ~Stays(j)
    <3>1. j \in DOMAIN table <=> j \in DOMAIN table'
      BY <2>2 DEF Shift
    <3>2. j \in DOMAIN table => table'[j] = table[j]
      BY <2>2 DEF Shift
    <3>3. j \notin Matching /\ j \notin Matching'
      BY <2>2, <3>1, <3>2 DEF Stays, Still, Matching
    <3> QED
      BY <3>3 DEF InFront, Where, Matching, Matches
  <2> QED
    BY <1>4, <2>1, <2>2
<1>5. r \in InFront(i) => r \in Matching
  BY DEF InFront, Where, Matching, Matches
<1>6. r \in InFront(i)' => r \in Matching'
  BY DEF InFront, Where, Matching, Matches
<1>7. r \in InFront(i) /\ r \notin InFront(i)' => left' # left
  BY <1>4, <1>5 DEF Shift
<1>8. r \in InFront(i)' /\ r \notin InFront(i) => came' # came
  BY <1>4, <1>6 DEF Shift
<1>9. ASSUME r \in InFront(i)' \/ r \notin InFront(i)
      PROVE  Place(i) <= Place(i)'
  <2>1. InFront(i) \subseteq InFront(i)'
    BY <1>4, <1>9
  <2> QED
    BY <1>3, <2>1, FS_Subset DEF Place
<1>10. ASSUME r \in InFront(i) \/ r \notin InFront(i)'
       PROVE  Place(i)' <= Place(i)
  <2>1. InFront(i)' \subseteq InFront(i)
    BY <1>4, <1>10
  <2> QED
    BY <1>3, <2>1, FS_Subset DEF Place
<1>11. Place(i) <= Place(i)' + 1
  <2>1. \A x, y \in InFront(i) \ InFront(i)' : x = y
    BY <1>4
  <2> QED
    BY <1>3, <2>1, OneMore DEF Place
<1>12. Place(i)' <= Place(i) + 1
  <2>1. \A x, y \in InFront(i)' \ InFront(i) : x = y
    BY <1>4
  <2> QED
    BY <1>3, <2>1, OneMore DEF Place
<1> QED
  BY <1>3, <1>7, <1>8, <1>9, <1>10, <1>11, <1>12

----------------------------------------------------------------------------
(* Rows missed and rows shown again *)

\* How many rows of a table the pages read so far are meant to cover.
Reached(k) == IF k \in todo /\ k # section THEN Skip ELSE Skip + query.limit

Passed(i) == Place(i) < Reached(table[i].kind)

\* Rows no two of which tie.
Line(S) ==
    \A i, j \in S : i # j /\ table[i].kind = table[j].kind =>
        Ahead(i, j) \/ Ahead(j, i)

\* Rows a client will not be shown any more, unless they are moved: it has
\* passed them, or been told that there is no next page.
Missed ==
    {i \in steady : /\ got[i] = 0
                    /\ Passed(i) \/ (table[i].kind \notin todo /\ ~more)}

\* Rows it has been shown and that it will be shown again.
Again == {i \in Matching : got[i] > 0 /\ ~Passed(i)}

\* Rows that have not moved since a page without ties do not tie, and each
\* row missed is one for which another one left its place.
MissInv == ~tied => Line(steady) /\ Cardinality(Missed) <= left

\* Each row shown again, or about to be, is one for which another one came.
RepeatInv ==
    ~tied => \A S \in SUBSET Again :
                Line(S) => Cardinality(Repeats) + Cardinality(S) <= came

LEMMA RowSets ==
    ASSUME TypeOK
    PROVE  /\ Missed \in SUBSET (1 .. NRows)
           /\ Matching \in SUBSET (1 .. NRows)
<1>1. steady \subseteq DOMAIN table /\ Matching \subseteq DOMAIN table
  BY DEF TypeOK, Matching
<1>2. DOMAIN table \subseteq 1 .. NRows
  BY ListingAssumption DEF TypeOK
<1> QED
  BY <1>1, <1>2 DEF Missed

LEMMA RepeatsFinite ==
    IsFiniteSet(Repeats) /\ Cardinality(Repeats) \in Nat
<1>1. IsFiniteSet(1 .. NRows)
  BY FiniteRows
<1>2. IsFiniteSet((1 .. NRows) \X (1 .. NRows))
  BY <1>1, FS_Product
<1>3. IsFiniteSet(Repeats)
  BY <1>2, FS_Subset DEF Repeats
<1> QED
  BY <1>3, FS_CardinalityType

\* Of rows that do not tie only one stands at a place.
LEMMA OnePlace ==
    ASSUME TypeOK, NEW i \in Matching, NEW j \in Matching,
           table[i].kind = table[j].kind, Ahead(i, j) \/ Ahead(j, i)
    PROVE  Place(i) # Place(j)
<1>1. i \in Where(table[i].kind) /\ j \in Where(table[i].kind)
  BY DEF Where, Matching, Matches
<1>2. Place(i) < Place(j) \/ Place(j) < Place(i)
  BY <1>1, PlaceLess
<1> QED
  BY <1>2, PlaceType

LEMMA MissShift ==
    ASSUME TypeOK, WalkInv, TypeOK', WalkInv', MissInv, NEW r, Shift(r)
    PROVE  MissInv'
<1> SUFFICES ASSUME ~tied
             PROVE  Line(steady)' /\ Cardinality(Missed') <= left'
  BY DEF Shift, walk, MissInv
<1>1. /\ UNCHANGED <<query, page, todo, section, more, got, tied>>
      /\ steady' \subseteq steady
  BY DEF Shift, walk
<1>2. ASSUME NEW i \in steady'
      PROVE  Stays(i)
  <2>1. i \in Matching /\ i \in Matching' /\ i \in DOMAIN table
    BY <1>1 DEF WalkInv, Matching
  <2>2. CASE i = r
    BY <2>1, <2>2 DEF Shift
  <2>3. CASE i # r
    BY <2>1, <2>3 DEF Shift, Stays, Still
  <2> QED
    BY <2>2, <2>3
<1>3. Line(steady)'
  <2> SUFFICES ASSUME NEW i \in steady', NEW j \in steady', i # j,
                      table'[i].kind = table'[j].kind
               PROVE  Ahead(i, j)' \/ Ahead(j, i)'
    BY DEF Line
  <2>1. Stays(i) /\ Stays(j)
    BY <1>2
  <2>2. Ahead(i, j) \/ Ahead(j, i)
    BY <1>1, <2>1 DEF MissInv, Line, Stays
  <2> QED
    BY <1>1, <2>1, <2>2 DEF Stays, Still, Ahead, Ranks
<1>4. ASSUME NEW i \in Missed', i \notin Missed
      PROVE  /\ Stays(i) /\ i \in steady
             /\ Place(i) = Reached(table[i].kind)
             /\ r \in InFront(i) /\ left' # left
  <2>1. i \in steady' /\ Stays(i) /\ got[i] = 0
    BY <1>1, <1>2 DEF Missed
  <2>2. table'[i].kind = table[i].kind
    BY <2>1 DEF Stays
  <2>3. PICK b : b = Reached(table[i].kind) /\ b = Reached(table[i].kind)'
    BY <1>1, <2>2 DEF Reached, Skip
  <2>4. Place(i)' < b /\ ~(Place(i) < b)
    BY <1>1, <1>4, <2>1, <2>2, <2>3 DEF Missed, Passed
  <2>5. b \in Int
    BY <2>3, SkipType DEF Reached
  <2>6. /\ Place(i) \in Nat /\ Place(i)' \in Nat /\ Place(i) <= Place(i)' + 1
        /\ Place(i)' < Place(i) => r \in InFront(i) /\ left' # left
    BY <2>1, PlaceShift
  <2> QED
    BY <1>1, <2>1, <2>3, <2>4, <2>5, <2>6
<1>5. ASSUME NEW i \in Missed' \ Missed, NEW j \in Missed' \ Missed
      PROVE  i = j
  <2>1. /\ i \in steady /\ j \in steady /\ i \in Matching /\ j \in Matching
        /\ table[i].kind = table[r].kind /\ table[j].kind = table[r].kind
    BY <1>4 DEF InFront, Where, Stays
  <2>2. Place(i) = Place(j)
    BY <1>4, <2>1
  <2>3. i # j => Ahead(i, j) \/ Ahead(j, i)
    BY <2>1 DEF MissInv, Line
  <2> QED
    BY <2>1, <2>2, <2>3, OnePlace
<1>6. Missed \in SUBSET (1 .. NRows) /\ Missed' \in SUBSET (1 .. NRows)
  <2>1. steady' \subseteq DOMAIN table' /\ DOMAIN table' \subseteq 1 .. NRows
    BY ListingAssumption DEF TypeOK
  <2> QED
    BY <2>1, RowSets DEF Missed
<1>7. /\ IsFiniteSet(Missed) /\ IsFiniteSet(Missed')
      /\ Cardinality(Missed) \in Nat /\ Cardinality(Missed') \in Nat
  BY <1>6, FiniteRows
<1>8. left \in Nat /\ left' \in {left, left + 1}
  BY DEF Shift, TypeOK
<1>9. Cardinality(Missed) <= left
  BY DEF MissInv
<1>10. CASE left' = left
  <2>1. Missed' \subseteq Missed
    BY <1>4, <1>10
  <2>2. Cardinality(Missed') <= Cardinality(Missed)
    BY <1>7, <2>1, FS_Subset
  <2> QED
    BY <1>3, <1>7, <1>8, <1>9, <1>10, <2>2
<1>11. CASE left' = left + 1
  <2>1. Cardinality(Missed') <= Cardinality(Missed) + 1
    BY <1>5, <1>7, OneMore
  <2> QED
    BY <1>3, <1>7, <1>8, <1>9, <1>11, <2>1
<1> QED
  BY <1>8, <1>10, <1>11

Placed ==
    \A i, j \in Matching :
        table[i].kind = table[j].kind /\ Ahead(i, j) => Place(i) < Place(j)

LEMMA PlaceOrder == TypeOK => Placed
<1> USE DEF Placed
<1> SUFFICES ASSUME TypeOK, NEW i \in Matching, NEW j \in Matching,
                    table[i].kind = table[j].kind, Ahead(i, j)
             PROVE  Place(i) < Place(j)
  OBVIOUS
<1>1. i \in Where(table[i].kind) /\ j \in Where(table[i].kind)
  BY DEF Where, Matching, Matches
<1> QED
  BY <1>1, PlaceLess

LEMMA PlaceOrderNext == TypeOK' => Placed'
BY PlaceOrder, PTL

LEMMA RepeatShift ==
    ASSUME TypeOK, WalkInv, TypeOK', WalkInv', RepeatInv, NEW r, Shift(r)
    PROVE  RepeatInv'
<1> SUFFICES ASSUME ~tied, NEW S \in SUBSET Again', Line(S)'
             PROVE  Cardinality(Repeats') + Cardinality(S) <= came'
  BY DEF Shift, walk, RepeatInv
<1>1. UNCHANGED <<query, page, todo, section, more, got, tied>>
  BY DEF Shift, walk
<1>2. ASSUME NEW i \in S, i # r \/ came' = came
      PROVE  Stays(i)
  <2>1. i \in Matching' /\ i \in DOMAIN table' /\ got[i] > 0
    BY <1>1 DEF Again, Matching
  <2>2. i \in DOMAIN table
    <3>1. i \in 1 .. NRows
      BY <2>1, ListingAssumption DEF TypeOK
    <3> QED
      BY <2>1, <3>1 DEF WalkInv
  <2>3. CASE i = r
    BY <1>2, <2>1, <2>3 DEF Shift
  <2>4. CASE i # r
    BY <2>1, <2>2, <2>4 DEF Shift, Stays, Still, Matching
  <2> QED
    BY <2>3, <2>4
<1>3. ASSUME NEW i \in S, NEW j \in S, i # j, Stays(i), Stays(j),
             table[i].kind = table[j].kind
      PROVE  Ahead(i, j) \/ Ahead(j, i)
  <2>1. Ahead(i, j)' \/ Ahead(j, i)'
    BY <1>3 DEF Line, Stays
  <2> QED
    BY <1>1, <1>3, <2>1 DEF Stays, Still, Ahead, Ranks
<1>4. ASSUME NEW i \in S, Stays(i)
      PROVE  \E b \in Nat :
                /\ b = Reached(table[i].kind)
                /\ b <= Place(i)' /\ got[i] > 0
  <2>1. Reached(table[i].kind) \in Nat
    BY SkipType DEF Reached
  <2>2. Reached(table[i].kind)' = Reached(table[i].kind)
    BY <1>1, <1>4 DEF Reached, Skip, Stays
  <2>3. ~(Place(i)' < Reached(table[i].kind)') /\ got[i] > 0
    BY <1>1, <1>4 DEF Again, Passed
  <2> QED
    BY <1>4, <2>1, <2>2, <2>3, PlaceShift
<1> DEFINE T == {i \in S : Stays(i) /\ ~Passed(i)}
<1>5. T \in SUBSET Again /\ Line(T)
  <2>1. \A i \in T : i \in Matching /\ got[i] > 0 /\ ~Passed(i)
    BY <1>4 DEF Stays
  <2> QED
    BY <1>3, <2>1 DEF Again, Line
<1> HIDE DEF T
<1>6. Cardinality(Repeats) + Cardinality(T) <= came
  BY <1>5 DEF RepeatInv
<1>7. Repeats' = Repeats
  BY <1>1 DEF Repeats
<1>8. S \in SUBSET (1 .. NRows) /\ T \in SUBSET (1 .. NRows)
  <2>1. DOMAIN table' \subseteq 1 .. NRows
    BY ListingAssumption DEF TypeOK
  <2> QED
    BY <2>1, <1>5, RowSets DEF Again, Matching
<1>9. /\ IsFiniteSet(S) /\ IsFiniteSet(T)
      /\ Cardinality(S) \in Nat /\ Cardinality(T) \in Nat
      /\ Cardinality(Repeats) \in Nat
  BY <1>8, FiniteRows, RepeatsFinite
<1>10. came \in Nat /\ came' \in {came, came + 1}
  BY DEF Shift, TypeOK
\* A row that stays and is passed no more stood at the end of what was read.
<1>11. ASSUME NEW i \in S, Stays(i), i \notin T
       PROVE  /\ Place(i) + 1 = Reached(table[i].kind)
              /\ Place(i)' = Reached(table[i].kind)
              /\ r \in InFront(i)' /\ came' # came
  <2>1. PICK b \in Nat : /\ b = Reached(table[i].kind) /\ b <= Place(i)'
    BY <1>4, <1>11
  <2>2. Place(i) < b
    BY <1>11, <2>1 DEF T, Passed
  <2>3. /\ Place(i) \in Nat /\ Place(i)' \in Nat /\ Place(i)' <= Place(i) + 1
        /\ Place(i) < Place(i)' => r \in InFront(i)' /\ came' # came
    BY <1>11, PlaceShift
  <2> QED
    BY <2>1, <2>2, <2>3
<1>12. ASSUME NEW i \in S, i # r, i \notin T
       PROVE  r \notin S
  <2>1. Stays(i)
    BY <1>2, <1>12
  <2>2. /\ r \in InFront(i)' /\ Place(i)' = Reached(table[i].kind)
        /\ table'[i].kind = table[i].kind
    BY <1>11, <1>12, <2>1 DEF Stays
  <2>3. /\ r \in Matching' /\ i \in Matching'
        /\ table'[r].kind = table'[i].kind /\ Ahead(r, i)'
    BY <2>1, <2>2 DEF InFront, Where, Matching, Matches, Stays
  <2>4. Place(r)' < Place(i)'
    BY <2>3, PlaceOrderNext DEF Placed
  <2>5. Reached(table[r].kind)' = Reached(table[i].kind)
    BY <1>1, <2>2, <2>3 DEF Reached, Skip
  <2>6. Passed(r)'
    BY <2>2, <2>4, <2>5 DEF Passed
  <2> QED
    BY <2>6 DEF Again
<1>13. ASSUME NEW i \in S \ T, NEW j \in S \ T
       PROVE  i = j
  <2>1. CASE i = r \/ j = r
    BY <1>12, <1>13, <2>1
  <2>2. CASE i # r /\ j # r
    <3>1. Stays(i) /\ Stays(j)
      BY <1>2, <2>2
    <3>2. /\ r \in InFront(i)' /\ r \in InFront(j)'
          /\ Place(i) + 1 = Reached(table[i].kind)
          /\ Place(j) + 1 = Reached(table[j].kind)
      BY <1>11, <3>1
    <3>3. table[i].kind = table[j].kind
      BY <3>1, <3>2 DEF InFront, Where, Stays
    <3>4. Place(i) = Place(j)
      BY <3>2, <3>3, PlaceType
    <3>5. i \in Matching /\ j \in Matching
      BY <3>1 DEF Stays
    <3>6. i # j => Ahead(i, j) \/ Ahead(j, i)
      BY <1>3, <3>1, <3>3
    <3> QED
      BY <3>3, <3>4, <3>5, <3>6, OnePlace
  <2> QED
    BY <2>1, <2>2
<1>14. CASE came' = came
  <2>1. S \subseteq T
    BY <1>2, <1>11, <1>14
  <2>2. Cardinality(S) <= Cardinality(T)
    BY <1>9, <2>1, FS_Subset
  <2> QED
    BY <1>6, <1>7, <1>9, <1>10, <1>14, <2>2
<1>15. CASE came' = came + 1
  <2>1. Cardinality(S) <= Cardinality(T) + 1
    BY <1>9, <1>13, OneMore
  <2> QED
    BY <1>6, <1>7, <1>9, <1>10, <1>15, <2>1
<1> QED
  BY <1>10, <1>14, <1>15

----------------------------------------------------------------------------
(* Reading a page *)

\* A page without ties returns the rows whose places it covers.
LEMMA PageByPlace ==
    ASSUME TypeOK, NEW k, ~Ties(k), NEW s \in OrderBy(k), NEW i \in Where(k)
    PROVE  i \in Items(s) <=> Skip <= Place(i) /\ Place(i) < Skip + query.limit
<1>1. /\ DOMAIN s = 1 .. Cardinality(Where(k))
      /\ \A n \in DOMAIN s : s[n] \in Where(k) /\ Place(s[n]) = n - 1
  BY ListByPlace
<1>2. PICK m \in DOMAIN s : s[m] = i
  BY ListByPlace
<1>3. /\ Skip \in Nat /\ query.limit \in Nat /\ m \in Int /\ Place(i) = m - 1
      /\ Cardinality(Where(k)) \in Nat
  BY <1>1, <1>2, SkipType, WhereFinite
<1>4. \A n \in DOMAIN s : s[n] = i => n = m
  BY <1>1, <1>2, <1>3
<1>5. i \in Items(s) <=> m \in Skip + 1 .. Skip + query.limit
  BY <1>2, <1>4 DEF Items
<1> QED
  BY <1>3, <1>5

LEMMA FindsStep ==
    ASSUME TypeOK, WalkInv, NEW k \in Kinds, Finds(k)
    PROVE  \E s \in OrderBy(k) :
              /\ \A i \in 1 .. NRows :
                    got'[i] = IF i \in Items(s) THEN got[i] + 1 ELSE got[i]
              /\ section = "none" /\ k \in todo /\ section' = k /\ k # "none"
              /\ steady' = IF page = 1 THEN steady \cup Where(k) ELSE steady
              /\ tied' = (tied \/ Ties(k))
              /\ UNCHANGED <<query, table, page, todo, more, left, came>>
              /\ \A j : Reached(j) \in Nat
              /\ Reached(k) = Skip /\ Reached(k)' = Skip + query.limit
              /\ \A j : j # k => Reached(j)' = Reached(j)
              /\ \A i : Place(i)' = Place(i)
<1>1. PICK s \in OrderBy(k) :
         got' = [i \in 1 .. NRows |-> got[i] + IF i \in Items(s) THEN 1 ELSE 0]
  BY DEF Finds, Items
<1>2. /\ section = "none" /\ k \in todo /\ section' = k /\ k # "none"
      /\ steady' = IF page = 1 THEN steady \cup Where(k) ELSE steady
      /\ tied' = (tied \/ Ties(k))
      /\ UNCHANGED <<query, table, page, todo, more, left, came>>
  BY DEF Finds, Kinds
<1>3. \A i \in 1 .. NRows :
         got'[i] = IF i \in Items(s) THEN got[i] + 1 ELSE got[i]
  BY <1>1 DEF TypeOK
<1>4. \A j : Reached(j) \in Nat
  BY SkipType DEF Reached
<1>5. Reached(k) = Skip /\ Reached(k)' = Skip + query.limit
  BY <1>2 DEF Reached, Skip
<1>6. \A j : j # k => Reached(j)' = Reached(j)
  <2>1. "none" \notin todo
    BY QueryType DEF TypeOK, Kinds
  <2> QED
    BY <1>2, <2>1 DEF Reached, Skip
<1>7. \A i : Place(i)' = Place(i)
  BY <1>2 DEF Place, InFront, Where, Ahead, Ranks
<1> QED
  BY <1>2, <1>3, <1>4, <1>5, <1>6, <1>7

LEMMA MissFinds ==
    ASSUME TypeOK, WalkInv, TypeOK', MissInv, NEW k \in Kinds, Finds(k)
    PROVE  MissInv'
<1>1. PICK s \in OrderBy(k) :
        /\ \A i \in 1 .. NRows :
              got'[i] = IF i \in Items(s) THEN got[i] + 1 ELSE got[i]
        /\ section = "none" /\ k \in todo /\ section' = k /\ k # "none"
        /\ steady' = IF page = 1 THEN steady \cup Where(k) ELSE steady
        /\ tied' = (tied \/ Ties(k))
        /\ UNCHANGED <<query, table, page, todo, more, left, came>>
        /\ \A j : Reached(j) \in Nat
        /\ Reached(k) = Skip /\ Reached(k)' = Skip + query.limit
        /\ \A j : j # k => Reached(j)' = Reached(j)
        /\ \A i : Place(i)' = Place(i)
  BY FindsStep
<1> SUFFICES ASSUME ~tied, ~Ties(k)
             PROVE  Line(steady)' /\ Cardinality(Missed') <= left'
  BY <1>1 DEF MissInv
<1>2. Line(steady) /\ Cardinality(Missed) <= left
  BY DEF MissInv
<1>3. Line(steady)'
  <2>1. ASSUME NEW i \in steady', NEW j \in steady', i # j,
               table[i].kind = table[j].kind
        PROVE  Ahead(i, j) \/ Ahead(j, i)
    <3>1. CASE i \in steady /\ j \in steady
      BY <1>2, <2>1, <3>1 DEF Line
    <3>2. CASE i \notin steady \/ j \notin steady
      <4>1. table[i].kind = k
        BY <1>1, <2>1, <3>2 DEF Where
      <4>2. i \in Where(k) /\ j \in Where(k)
        BY <1>1, <2>1, <4>1 DEF WalkInv, Where, Matching, Matches
      <4> QED
        BY <2>1, <4>2 DEF Ties
    <3> QED
      BY <3>1, <3>2
  <2> QED
    BY <1>1, <2>1 DEF Line, Ahead, Ranks
<1>4. ASSUME NEW i \in Missed'
      PROVE  i \in Missed
  <2>1. i \in 1 .. NRows /\ i \in DOMAIN table /\ i \in Matching
    <3>1. i \in steady \/ i \in Where(k)
      BY <1>1, <1>4 DEF Missed
    <3>2. i \in Matching /\ i \in DOMAIN table
      BY <3>1 DEF WalkInv, Matching, Where, Matches
    <3> QED
      BY <3>2, RowType
  <2>2. /\ got'[i] = 0 /\ i \in steady'
        /\ Place(i) < Reached(table[i].kind)' \/ (table[i].kind \notin todo /\ ~more)
    BY <1>1, <1>4 DEF Missed, Passed
  <2>3. got[i] \in Nat
    BY <2>1 DEF TypeOK
  <2>4. i \notin Items(s) /\ got[i] = 0
    BY <1>1, <2>1, <2>2, <2>3
  <2>5. CASE table[i].kind = k
    <3>1. i \in Where(k)
      BY <2>1, <2>5 DEF Where, Matching, Matches
    <3>2. Place(i) < Skip + query.limit
      BY <1>1, <2>2, <2>5
    <3>3. Place(i) < Skip
      BY <2>4, <3>1, <3>2, PageByPlace, PlaceType, SkipType
    <3>4. page # 1
      <4>1. page = 1 => Skip = 0
        BY QueryType DEF Skip, TypeOK
      <4> QED
        BY <3>3, <4>1, PlaceType
    <3>5. i \in steady
      BY <1>1, <2>2, <3>4
    <3> QED
      BY <1>1, <2>4, <2>5, <3>3, <3>5 DEF Missed, Passed
  <2>6. CASE table[i].kind # k
    <3>1. i \in steady
      BY <1>1, <2>2, <2>6 DEF Where
    <3> QED
      BY <1>1, <2>2, <2>4, <2>6, <3>1 DEF Missed, Passed
  <2> QED
    BY <2>5, <2>6
<1>5. IsFiniteSet(Missed) /\ Cardinality(Missed) \in Nat
  BY RowSets, FiniteRows
<1>6. /\ Missed' \subseteq Missed /\ IsFiniteSet(Missed')
      /\ Cardinality(Missed') <= Cardinality(Missed)
      /\ Cardinality(Missed') \in Nat
  BY <1>4, <1>5, FS_Subset, FS_CardinalityType
<1> QED
  BY <1>1, <1>2, <1>3, <1>5, <1>6 DEF TypeOK

LEMMA RepeatFinds ==
    ASSUME TypeOK, WalkInv, TypeOK', RepeatInv, NEW k \in Kinds, Finds(k)
    PROVE  RepeatInv'
<1>1. PICK s \in OrderBy(k) :
        /\ \A i \in 1 .. NRows :
              got'[i] = IF i \in Items(s) THEN got[i] + 1 ELSE got[i]
        /\ section = "none" /\ k \in todo /\ section' = k /\ k # "none"
        /\ steady' = IF page = 1 THEN steady \cup Where(k) ELSE steady
        /\ tied' = (tied \/ Ties(k))
        /\ UNCHANGED <<query, table, page, todo, more, left, came>>
        /\ \A j : Reached(j) \in Nat
        /\ Reached(k) = Skip /\ Reached(k)' = Skip + query.limit
        /\ \A j : j # k => Reached(j)' = Reached(j)
        /\ \A i : Place(i)' = Place(i)
  BY FindsStep
<1> SUFFICES ASSUME ~tied, ~Ties(k), NEW S \in SUBSET Again', Line(S)'
             PROVE  Cardinality(Repeats') + Cardinality(S) <= came'
  BY <1>1 DEF RepeatInv
<1>2. Items(s) \subseteq Where(k) /\ Where(k) \subseteq Matching
  BY ItemsFound DEF Where, Matching, Matches
<1>3. Matching \in SUBSET (1 .. NRows)
  BY RowSets
<1> DEFINE Old == {i \in Items(s) : got[i] > 0}
           New == {<<i, got[i]>> : i \in Old}
<1>4. ASSUME NEW i \in Old
      PROVE  i \in Again /\ Passed(i)' /\ table[i].kind = k
  <2>1. i \in Where(k) /\ i \in Matching /\ got[i] > 0 /\ i \in Items(s)
    BY <1>2
  <2>2. Skip <= Place(i) /\ Place(i) < Skip + query.limit
    BY <2>1, PageByPlace
  <2>3. table[i].kind = k
    BY <2>1 DEF Where
  <2>4. ~(Place(i) < Skip)
    BY <2>2, PlaceType, SkipType
  <2> QED
    BY <1>1, <2>1, <2>2, <2>3, <2>4 DEF Again, Passed
<1>5. ASSUME NEW i \in S
      PROVE  i \in Again /\ i \notin Old
  <2>1. i \in Matching /\ i \in 1 .. NRows /\ got'[i] > 0 /\ ~Passed(i)'
    BY <1>1, <1>3 DEF Again, Matching
  <2>2. i \notin Old
    BY <1>4, <2>1
  <2>3. CASE table[i].kind = k
    <3>1. ~(Place(i) < Skip + query.limit)
      BY <1>1, <2>1, <2>3 DEF Passed
    <3>2. i \in Where(k)
      BY <2>1, <2>3 DEF Where, Matching, Matches
    <3>3. i \notin Items(s) /\ ~(Place(i) < Skip)
      BY <3>1, <3>2, PageByPlace, PlaceType, SkipType
    <3> QED
      BY <1>1, <2>1, <2>2, <2>3, <3>3 DEF Again, Passed
  <2>4. CASE table[i].kind # k
    <3>1. i \notin Items(s)
      BY <1>2, <2>4 DEF Where
    <3> QED
      BY <1>1, <2>1, <2>2, <2>4, <3>1 DEF Again, Passed
  <2> QED
    BY <2>3, <2>4
<1>6. Line(S \cup Old)
  <2> SUFFICES ASSUME NEW i \in S \cup Old, NEW j \in S \cup Old, i # j,
                      table[i].kind = table[j].kind
               PROVE  Ahead(i, j) \/ Ahead(j, i)
    BY DEF Line
  <2>1. CASE table[i].kind = k
    <3>1. i \in Again /\ j \in Again
      BY <1>4, <1>5
    <3>2. i \in Where(k) /\ j \in Where(k)
      BY <2>1, <3>1 DEF Again, Where, Matching, Matches
    <3> QED
      BY <3>2 DEF Ties
  <2>2. CASE table[i].kind # k
    <3>1. i \in S /\ j \in S
      BY <1>4, <2>2
    <3>2. Ahead(i, j)' \/ Ahead(j, i)'
      BY <1>1, <3>1 DEF Line
    <3> QED
      BY <1>1, <3>2 DEF Ahead, Ranks
  <2> QED
    BY <2>1, <2>2
<1>7. S \cup Old \in SUBSET Again
  BY <1>4, <1>5
<1>8. Cardinality(Repeats) + Cardinality(S \cup Old) <= came
  BY <1>6, <1>7 DEF RepeatInv
<1>9. Repeats' \subseteq Repeats \cup New
  <2> SUFFICES ASSUME NEW x \in Repeats', x \notin Repeats
               PROVE  x \in New
    OBVIOUS
  <2>1. /\ x \in (1 .. NRows) \X (1 .. NRows)
        /\ x[2] < got'[x[1]] /\ ~(x[2] < got[x[1]])
    BY DEF Repeats
  <2>2. /\ x[1] \in 1 .. NRows /\ x[2] \in 1 .. NRows /\ x = <<x[1], x[2]>>
        /\ got[x[1]] \in 0 .. NRows
    BY <2>1 DEF TypeOK
  <2>3. x[1] \in Items(s) /\ got'[x[1]] = got[x[1]] + 1
    BY <1>1, <2>1, <2>2
  <2>4. x[2] = got[x[1]] /\ got[x[1]] > 0
    BY <2>1, <2>2, <2>3, ListingAssumption
  <2> QED
    BY <2>2, <2>3, <2>4
<1>10. /\ IsFiniteSet(S) /\ IsFiniteSet(Old) /\ S \cap Old = {}
       /\ Cardinality(S) \in Nat /\ Cardinality(Old) \in Nat
  <2>1. S \in SUBSET (1 .. NRows) /\ Old \in SUBSET (1 .. NRows)
    BY <1>3, <1>7 DEF Again
  <2> QED
    BY <1>5, <2>1, FiniteRows
<1>11. Cardinality(S \cup Old) = Cardinality(S) + Cardinality(Old)
  <2>1. Cardinality(S \cap Old) = 0
    BY <1>10, FS_EmptySet
  <2>2. Cardinality(S \cup Old) =
            Cardinality(S) + Cardinality(Old) - Cardinality(S \cap Old)
    BY <1>10, FS_Union
  <2> QED
    BY <1>10, <2>1, <2>2
<1>12. IsFiniteSet(New) /\ Cardinality(New) <= Cardinality(Old)
  <2> DEFINE f == [i \in Old |-> <<i, got[i]>>]
  <2>1. f \in Surjection(Old, New)
    BY DEF Surjection
  <2> QED
    BY <1>10, <2>1, FS_Surjection
<1> HIDE DEF Old, New
<1>13. /\ IsFiniteSet(Repeats) /\ Cardinality(Repeats) \in Nat
       /\ IsFiniteSet(Repeats \cup New)
       /\ Cardinality(Repeats \cup New) <= Cardinality(Repeats) + Cardinality(New)
  <2>1. IsFiniteSet(Repeats) /\ Cardinality(Repeats) \in Nat
    BY RepeatsFinite
  <2>2. IsFiniteSet(Repeats \cap New) /\ Cardinality(Repeats \cap New) \in Nat
    BY <2>1, FS_Intersection, FS_CardinalityType
  <2>3. /\ IsFiniteSet(Repeats \cup New)
        /\ Cardinality(Repeats \cup New) =
             Cardinality(Repeats) + Cardinality(New) - Cardinality(Repeats \cap New)
    BY <1>12, <2>1, FS_Union
  <2>4. Cardinality(New) \in Nat
    BY <1>12, FS_CardinalityType
  <2> QED
    BY <2>1, <2>2, <2>3, <2>4
<1>14. /\ Cardinality(Repeats') <= Cardinality(Repeats \cup New)
       /\ Cardinality(Repeats') \in Nat /\ Cardinality(Repeats \cup New) \in Nat
       /\ Cardinality(New) \in Nat
  BY <1>9, <1>12, <1>13, FS_Subset, FS_CardinalityType
<1> QED
  BY <1>1, <1>8, <1>10, <1>11, <1>12, <1>13, <1>14 DEF TypeOK

\* Counting changes nothing of what was read; a total that leaves no next page
\* covers all the rows there are.
LEMMA BothCounts ==
    ASSUME TypeOK, WalkInv, TypeOK', MissInv, RepeatInv, Counts
    PROVE  MissInv' /\ RepeatInv'
<1>1. /\ section # "none" /\ section \in todo
      /\ more' = (more \/ page * query.limit < Cardinality(Where(section)))
      /\ todo' = todo \ {section} /\ section' = "none"
      /\ UNCHANGED <<query, table, page, got, steady, left, came, tied>>
  BY DEF Counts, WalkInv
<1>2. ASSUME NEW k
      PROVE  Reached(k)' = Reached(k)
  <2>1. "none" \notin todo
    BY QueryType DEF TypeOK, Kinds
  <2> QED
    BY <1>1, <2>1 DEF Reached, Skip
<1>3. \A i : Place(i)' = Place(i)
  BY <1>1 DEF Place, InFront, Where, Ahead, Ranks
<1>4. \A i : Passed(i)' <=> Passed(i)
  BY <1>1, <1>2, <1>3 DEF Passed
<1>5. ASSUME NEW i \in Missed'
      PROVE  i \in Missed
  <2>1. /\ i \in steady /\ got[i] = 0
        /\ Passed(i) \/ (table[i].kind \notin todo \ {section} /\ ~more')
    BY <1>1, <1>4, <1>5 DEF Missed
  <2>2. CASE Passed(i) \/ table[i].kind # section
    BY <1>1, <2>1, <2>2 DEF Missed
  <2>3. CASE table[i].kind = section /\ ~more'
    <3>1. i \in Where(section)
      BY <2>1, <2>3 DEF WalkInv, Matching, Matches, Where
    <3>2. Place(i) < Cardinality(Where(section))
      BY <3>1, PlaceBelow
    <3>3. PICK m \in Nat : m = page * query.limit /\ m = Skip + query.limit
      BY SkipType
    <3>4. ~(m < Cardinality(Where(section)))
      BY <1>1, <2>3, <3>3
    <3>5. Place(i) < m
      BY <3>2, <3>3, <3>4, PlaceType, WhereFinite
    <3>6. Reached(section) = m
      BY <3>3 DEF Reached
    <3> QED
      BY <2>1, <2>3, <3>5, <3>6 DEF Missed, Passed
  <2> QED
    BY <2>1, <2>2, <2>3
<1>6. IsFiniteSet(Missed) /\ Cardinality(Missed) \in Nat
  BY RowSets, FiniteRows
<1>7. /\ Missed' \subseteq Missed
      /\ Cardinality(Missed') <= Cardinality(Missed)
      /\ Cardinality(Missed') \in Nat
  BY <1>5, <1>6, FS_Subset, FS_CardinalityType
<1>8. MissInv'
  <2> SUFFICES ASSUME ~tied
               PROVE  Line(steady)' /\ Cardinality(Missed') <= left'
    BY <1>1 DEF MissInv
  <2>1. Line(steady)'
    BY <1>1 DEF MissInv, Line, Ahead, Ranks
  <2> QED
    BY <1>1, <1>6, <1>7, <2>1 DEF MissInv, TypeOK
<1>9. RepeatInv'
  <2>1. Again' = Again
    BY <1>1, <1>4 DEF Again, Matching
  <2>2. Repeats' = Repeats
    BY <1>1 DEF Repeats
  <2>3. \A S : Line(S)' <=> Line(S)
    BY <1>1 DEF Line, Ahead, Ranks
  <2> QED
    BY <1>1, <2>1, <2>2, <2>3 DEF RepeatInv
<1> QED
  BY <1>8, <1>9

LEMMA BothAsk ==
    ASSUME TypeOK, WalkInv, TypeOK', MissInv, RepeatInv, AsksNext
    PROVE  MissInv' /\ RepeatInv'
<1>1. /\ section = "none" /\ todo = {} /\ more
      /\ page' = page + 1 /\ todo' = query.types /\ more' = FALSE
      /\ UNCHANGED <<query, table, section, got, steady, left, came, tied>>
  BY DEF AsksNext, Answered
<1>2. ASSUME NEW i \in DOMAIN table
      PROVE  Reached(table[i].kind)' = Reached(table[i].kind)
  <2>1. table[i].kind \in query.types /\ table[i].kind # "none"
    BY RowType DEF WalkInv, Row, Kinds
  <2>2. /\ Reached(table[i].kind) = Skip + query.limit
        /\ Reached(table[i].kind)' = Skip'
    BY <1>1, <2>1 DEF Reached
  <2>3. Skip' = page * query.limit
    BY <1>1, SkipType DEF Skip
  <2> QED
    BY <2>2, <2>3, SkipType
<1>3. \A i : Place(i)' = Place(i)
  BY <1>1 DEF Place, InFront, Where, Ahead, Ranks
<1>4. \A i \in DOMAIN table : Passed(i)' <=> Passed(i)
  BY <1>1, <1>2, <1>3 DEF Passed
<1>5. steady \subseteq DOMAIN table /\ Matching \subseteq DOMAIN table
  BY DEF TypeOK, Matching
<1>6. Missed' = Missed
  BY <1>1, <1>4, <1>5 DEF Missed, WalkInv
<1>7. MissInv'
  BY <1>1, <1>6 DEF MissInv, Line, Ahead, Ranks
<1>8. Again' = Again
  BY <1>1, <1>4, <1>5 DEF Again, Matching
<1>9. Repeats' = Repeats
  BY <1>1 DEF Repeats
<1>10. \A S : Line(S)' <=> Line(S)
  BY <1>1 DEF Line, Ahead, Ranks
<1>11. RepeatInv'
  BY <1>1, <1>8, <1>9, <1>10 DEF RepeatInv
<1> QED
  BY <1>7, <1>11

----------------------------------------------------------------------------
(* Theorems *)

ListInv == TypeOK /\ WalkInv /\ MissInv /\ RepeatInv

LEMMA ListInit == Init => ListInv
<1> SUFFICES ASSUME Init
             PROVE  ListInv
  OBVIOUS
<1>1. TypeOK /\ WalkInv
  BY WalkInit
<1>2. Missed = {} /\ steady = {} /\ left = 0 /\ came = 0
  BY DEF Init, Missed
<1>3. Again = {}
  <2>1. \A i \in 1 .. NRows : got[i] = 0
    BY DEF Init
  <2> QED
    BY <1>1, <2>1, RowSets DEF Again
<1>4. Repeats = {}
  BY DEF Init, Repeats
<1>5. Cardinality({}) = 0
  BY FS_EmptySet
<1> QED
  BY <1>1, <1>2, <1>3, <1>4, <1>5 DEF ListInv, MissInv, RepeatInv, Line

LEMMA ListStep == ListInv /\ [Next]_vars => ListInv'
<1> SUFFICES ASSUME ListInv, [Next]_vars
             PROVE  ListInv'
  OBVIOUS
<1> USE DEF ListInv
<1>1. ASSUME NEW k \in Kinds, Finds(k)
      PROVE  ListInv'
  <2>1. TypeOK' /\ WalkInv'
    BY <1>1, WalkFinds
  <2> QED
    BY <1>1, <2>1, MissFinds, RepeatFinds
<1>2. CASE Counts
  <2>1. TypeOK' /\ WalkInv'
    BY <1>2, WalkCounts
  <2> QED
    BY <1>2, <2>1, BothCounts
<1>3. CASE AsksNext
  <2>1. TypeOK' /\ WalkInv'
    BY <1>3, WalkAsksNext
  <2> QED
    BY <1>3, <2>1, BothAsk
<1>4. CASE Inserts \/ \E i \in DOMAIN table : Deletes(i) \/ Edits(i) \/ Reranks(i)
  <2>1. PICK r : Shift(r)
    BY <1>4, ShiftStep
  <2>2. TypeOK' /\ WalkInv'
    BY <2>1, WalkShift
  <2> QED
    BY <2>1, <2>2, MissShift, RepeatShift
<1>5. CASE UNCHANGED vars
  <2>1. UNCHANGED <<query, table, page, todo, section, more, got, steady,
                    left, came, tied>>
    BY <1>5 DEF vars
  <2>2. TypeOK' /\ WalkInv'
    BY <2>1 DEF TypeOK, WalkInv, Matching
  <2>3. Missed' = Missed /\ Again' = Again /\ Repeats' = Repeats
    BY <2>1 DEF Missed, Again, Repeats, Matching, Passed, Reached, Skip,
                Place, InFront, Where, Ahead, Ranks
  <2>4. \A S : Line(S)' <=> Line(S)
    BY <2>1 DEF Line, Ahead, Ranks
  <2>5. MissInv' /\ RepeatInv'
    BY <2>1, <2>3, <2>4 DEF MissInv, RepeatInv
  <2> QED
    BY <2>2, <2>5
<1> QED
  BY <1>1, <1>2, <1>3, <1>4, <1>5
     DEF Next, FindsCustomers, FindsDeals, FindsContacts, FindsTasks, Kinds

\* Every variable keeps its type, for tables and walks of any length: no page
\* is asked for beyond the last row (totalPages of the lists).
THEOREM ListTypeCorrect == Spec => []TypeOK
<1>1. ListInv => TypeOK
  BY DEF ListInv
<1> QED
  BY <1>1, ListInit, ListStep, PTL DEF Spec

\* A client that has walked through all the pages of a list or a search, with
\* skip and take, has missed no more rows than left their place meanwhile.
THEOREM MissedOnlyWhatLeft == Spec => []MissedBounded
<1>1. ListInv => MissedBounded
  <2> SUFFICES ASSUME ListInv, Done, ~tied
               PROVE  Cardinality({i \in steady : got[i] = 0}) <= left
    BY DEF MissedBounded
  <2>1. {i \in steady : got[i] = 0} = Missed
    BY DEF Done, Answered, Missed
  <2> QED
    BY <2>1 DEF ListInv, MissInv
<1> QED
  BY <1>1, ListInit, ListStep, PTL DEF Spec

\* It has been shown rows again no more often than rows came to the list or
\* moved in it.
THEOREM RepeatedOnlyWhatCame == Spec => []RepeatsBounded
<1>1. ListInv => RepeatsBounded
  <2> SUFFICES ASSUME ListInv, ~tied
               PROVE  Cardinality(Repeats) <= came
    BY DEF RepeatsBounded
  <2>1. Line({}) /\ {} \in SUBSET Again
    BY DEF Line
  <2>2. Cardinality({}) = 0 /\ Cardinality(Repeats) \in Nat
    BY FS_EmptySet, RepeatsFinite
  <2>3. Cardinality(Repeats) + Cardinality({}) <= came
    BY <2>1 DEF ListInv, RepeatInv
  <2> QED
    BY <2>2, <2>3
<1> QED
  BY <1>1, ListInit, ListStep, PTL DEF Spec
=============================================================================
