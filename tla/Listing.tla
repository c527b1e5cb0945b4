------------------------------ MODULE Listing ------------------------------
(***************************************************************************)
(* The paged lists: GET of customers, deals, contacts and tasks, and the   *)
(* search over three tables.  A page is a findMany with skip and take and  *)
(* a count, in a batch transaction: at READ COMMITTED each of the two sees *)
(* the table of its own moment.  A client asks for one page after the      *)
(* other, as totalPages tells it, while rows are inserted, edited and      *)
(* deleted under it.                                                       *)
(***************************************************************************)
EXTENDS Integers, FiniteSets, Sequences, SequencesExt

CONSTANTS
    NRows,       \* rows there may ever be, 1 .. NRows by createdAt
    Tables,      \* the tables a client may find: sequences of rows
    Limits,      \* page sizes
    MaxRank,     \* values of a column rows sort by: 0 .. MaxRank
    MaxChanges   \* bound on the changes of the table during a walk

Kinds == {"customers", "deals", "contacts", "tasks"}

\* A row: not deleted; it has what the query looks for in the other columns;
\* its value of the column that sorts before createdAt.
Row == [kind : Kinds, live : BOOLEAN, hit : BOOLEAN, rank : 0 .. MaxRank]

ASSUME ListingAssumption ==
    /\ NRows \in Nat /\ MaxChanges \in Nat /\ MaxRank \in Nat
    /\ Limits \subseteq Nat \ {0}
    /\ \A t \in Tables : t \in Seq(Row) /\ Len(t) <= NRows

VARIABLES
    query,    \* what the client asks for, page after page
    table,    \* the rows, by createdAt
    page,     \* the page of the request under way
    todo,     \* the tables the request has not answered for
    section,  \* the table it has read items of, to be counted next
    more,     \* a totalPages of the response is beyond this page
    got,      \* got[i]: how many times row i was returned
    steady,   \* history: rows that have matched, unmoved, since the first page
    left,     \* history: how often a row left its place in the list
    came,     \* history: how often one came to a place
    tied      \* history: a page was read from a list with ties

walk == <<page, todo, section, more, got, tied>>
vars == <<query, table, page, todo, section, more, got, steady, left, came, tied>>

----------------------------------------------------------------------------
(* Queries *)

\* Rows sort by rank, ascending or not, if the query has such a column; rows
\* that tie sort by createdAt, or as the database likes.
Order == [ranked : BOOLEAN, up : BOOLEAN, tie : {"asc", "desc", "free"}]

Newest == [ranked |-> FALSE, up |-> FALSE, tie |-> "desc"]

Ask(kinds, order, limit) == [types |-> kinds, order |-> order, limit |-> limit]

\* By createdAt, or by name alone.
ListCustomers(limit) ==
    {Ask({"customers"}, o, limit) : o \in
        [ranked : {FALSE}, up : {FALSE}, tie : {"asc", "desc"}]
            \cup [ranked : {TRUE}, up : BOOLEAN, tie : {"free"}]}

ListDeals(limit) == {Ask({"deals"}, Newest, limit)}

\* The primary contact comes first.
ListContacts(limit) == {Ask({"contacts"}, [Newest EXCEPT !.ranked = TRUE], limit)}

\* By status, and then by createdAt, or by a date that need not be unique.
ListTasks(limit) ==
    {Ask({"tasks"}, o, limit) : o \in
        [ranked : {TRUE}, up : {TRUE}, tie : {"asc", "desc", "free"}]}

\* types, which may name any of the tables, or (",") none.
Types == SUBSET {"customers", "deals", "contacts"}

SearchAll(limit) == {Ask(ks, Newest, limit) : ks \in Types}

Queries ==
    UNION {ListCustomers(l) \cup ListDeals(l) \cup ListContacts(l)
               \cup ListTasks(l) \cup SearchAll(l) : l \in Limits}

Init ==
    /\ query \in Queries
    /\ table \in {t \in Tables : \A i \in DOMAIN t : t[i].kind \in query.types}
    /\ page = 1
    /\ todo = query.types
    /\ section = "none"
    /\ more = FALSE
    /\ got = [i \in 1 .. NRows |-> 0]
    /\ steady = {}
    /\ left = 0 /\ came = 0
    /\ tied = FALSE

TypeOK ==
    /\ query \in Queries
    /\ table \in Seq(Row) /\ Len(table) <= NRows
    /\ page \in 1 .. NRows + 1
    /\ todo \subseteq query.types
    /\ section \in Kinds \cup {"none"}
    /\ more \in BOOLEAN
    /\ got \in [1 .. NRows -> 0 .. NRows]
    /\ steady \subseteq DOMAIN table
    /\ left \in 0 .. MaxChanges
    /\ came \in 0 .. MaxChanges
    /\ tied \in BOOLEAN

----------------------------------------------------------------------------
(* A request for a page *)

\* where: the columns the client filters on, and deletedAt null.
Where(k) == {i \in DOMAIN table : table[i].kind = k /\ table[i].live /\ table[i].hit}

Ranks(i, j) == query.order.ranked /\ table[i].rank # table[j].rank

Ahead(i, j) ==
    IF Ranks(i, j) THEN (table[i].rank < table[j].rank) = query.order.up
    ELSE \/ query.order.tie = "asc" /\ i < j
         \/ query.order.tie = "desc" /\ i > j

\* orderBy: every list that puts no row behind one it should be ahead of.
OrderBy(k) ==
    {s \in SetToSeqs(Where(k)) :
        \A a, b \in DOMAIN s : a < b => ~Ahead(s[b], s[a])}

Ties(k) == \E i, j \in Where(k) : i # j /\ ~Ahead(i, j) /\ ~Ahead(j, i)

\* Mutant: the pages are numbered from zero.
SkipZeroBased == page * query.limit

\* Mutant: a page advances by one row.
SkipRow == page - 1

Skip == (page - 1) * query.limit

\* findMany with skip and take.
Finds(k) ==
    /\ section = "none" /\ k \in todo
    /\ \E s \in OrderBy(k) :
          LET items == {s[n] : n \in DOMAIN s \cap (Skip + 1 .. Skip + query.limit)}
          IN  got' = [i \in 1 .. NRows |-> got[i] + IF i \in items THEN 1 ELSE 0]
    /\ section' = k
    /\ steady' = IF page = 1 THEN steady \cup Where(k) ELSE steady
    /\ tied' = (tied \/ Ties(k))
    /\ UNCHANGED <<query, table, page, todo, more, left, came>>

\* The tables of a search, one transaction after the other; each list reads
\* its own table.
FindsCustomers == Finds("customers")

FindsDeals == "customers" \notin todo /\ Finds("deals")

FindsContacts == todo = {"contacts"} /\ Finds("contacts")

FindsTasks == Finds("tasks")

\* Mutant: there is a next page as long as there are rows.
CountsAny ==
    /\ section # "none"
    /\ more' = (more \/ Where(section) # {})
    /\ todo' = todo \ {section}
    /\ section' = "none"
    /\ UNCHANGED <<query, table, page, got, steady, left, came, tied>>

\* count: the total, and totalPages.
Counts ==
    /\ section # "none"
    /\ more' = (more \/ page * query.limit < Cardinality(Where(section)))
    /\ todo' = todo \ {section}
    /\ section' = "none"
    /\ UNCHANGED <<query, table, page, got, steady, left, came, tied>>

Answered == section = "none" /\ todo = {}

Done == Answered /\ ~more

\* The client asks for the next page.
AsksNext ==
    /\ Answered /\ more
    /\ page' = page + 1
    /\ todo' = query.types
    /\ more' = FALSE
    /\ UNCHANGED <<query, table, section, got, steady, left, came, tied>>

----------------------------------------------------------------------------
(* What other requests do to the tables meanwhile *)

Matches(r) == r.live /\ r.hit

\* Row i becomes r: it may leave the list, come to it or move in it.
Becomes(i, r) ==
    LET moved == query.order.ranked /\ r.rank # table[i].rank
        out   == Matches(table[i]) /\ (moved \/ ~Matches(r))
        in    == Matches(r) /\ (moved \/ ~Matches(table[i]))
    IN  /\ table' = [table EXCEPT ![i] = r]
        /\ left' = left + IF out THEN 1 ELSE 0
        /\ came' = came + IF in THEN 1 ELSE 0
        /\ steady' = IF out THEN steady \ {i} ELSE steady
        /\ UNCHANGED <<query, walk>>

Meanwhile ==
    /\ left + came < MaxChanges
    /\ ~Done

\* create: in the table of the request it is the newest row.
Inserts ==
    /\ Meanwhile /\ Len(table) < NRows
    /\ \E k \in query.types, b \in 0 .. MaxRank :
          table' = Append(table, [kind |-> k, live |-> TRUE, hit |-> TRUE, rank |-> b])
    /\ came' = came + 1
    /\ UNCHANGED <<query, steady, left, walk>>

\* softDelete
Deletes(i) ==
    /\ Meanwhile
    /\ Matches(table[i])
    /\ Becomes(i, [table[i] EXCEPT !.live = FALSE])

\* update of a column the query filters on.
Edits(i) ==
    /\ Meanwhile
    /\ table[i].live
    /\ Becomes(i, [table[i] EXCEPT !.hit = ~@])

\* update of the column it sorts by: a name, a status, isPrimary.
Reranks(i) ==
    /\ left + came + 1 < MaxChanges
    /\ ~Done
    /\ query.order.ranked /\ Matches(table[i])
    /\ \E b \in (0 .. MaxRank) \ {table[i].rank} :
          Becomes(i, [table[i] EXCEPT !.rank = b])

Next ==
    \/ FindsCustomers \/ FindsDeals \/ FindsContacts \/ FindsTasks
    \/ Counts \/ AsksNext
    \/ Inserts
    \/ \E i \in DOMAIN table : Deletes(i) \/ Edits(i) \/ Reranks(i)

Spec == Init /\ [][Next]_vars

----------------------------------------------------------------------------
(* Properties *)

\* A client that has walked through all the pages has missed no more of the
\* rows that stood in the list from its first page on than rows left their
\* place meanwhile: skip counts rows, so each row that goes ahead of it may
\* push one over the boundary of a page, and no more than one, in whatever
\* order items and totals were read.  Sorting by a column with equal values
\* (customers by name, tasks by dueDate) promises nothing.
MissedBounded ==
    Done /\ ~tied => Cardinality({i \in steady : got[i] = 0}) <= left

\* The showings <<row, number>> that were not the last of their row.
Repeats == {s \in (1 .. NRows) \X (1 .. NRows) : s[2] < got[s[1]]}

\* Likewise it is shown a row again only for a row that came to the list, or
\* moved in it: an insertion repeats one row of a list with the newest first.
RepeatsBounded == ~tied => Cardinality(Repeats) <= came
=============================================================================
