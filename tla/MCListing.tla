------------------------------ MODULE MCListing -----------------------------
(* An instance of Listing for TLC. *)
EXTENDS Listing

MCRow(k, hit, b) == [kind |-> k, live |-> TRUE, hit |-> hit, rank |-> b]

\* Nothing; or three rows of one table, or two of one and one of another.
MCTables ==
    {<<>>} \cup
    {<<MCRow(k, TRUE, a), MCRow(k, h, 1), MCRow(l, TRUE, 0)>> :
        k \in Kinds, l \in Kinds, h \in BOOLEAN, a \in 0 .. 1}
=============================================================================
