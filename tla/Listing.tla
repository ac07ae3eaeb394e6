------------------------------ MODULE Listing ------------------------------
(***************************************************************************)
(* The list endpoints: a filtered SELECT with an ORDER BY whose last key   *)
(* is the time of creation, cut by LIMIT and OFFSET, and a count of all    *)
(* rows that the filters leave.                                            *)
(***************************************************************************)
EXTENDS Integers, Sequences, FiniteSets, SequencesExt

CONSTANT MaxLimit   \* the largest limit an endpoint accepts

ASSUME MaxLimitAssumption == MaxLimit \in Nat \ {0}

\* What FastAPI lets through
ValidPage(limit, offset) == limit \in 1 .. MaxLimit /\ offset \in Nat

\* Rows in order: Before(x, y) is a strict total order of them, and row n is the
\* one with n - 1 rows before it
Ordered(rows, Before(_, _)) ==
    LET before == [x \in rows |-> {y \in rows : Before(y, x)}]
    IN [n \in 1 .. Cardinality(rows) |-> CHOOSE x \in rows : Cardinality(before[x]) = n - 1]

\* Every page ends at the limit, wherever it begins.
PageUpToLimit(ordered, limit, offset) ==
    SubSeq(ordered, offset + 1, IF limit < Len(ordered) THEN limit ELSE Len(ordered))

Page(ordered, limit, offset) ==
    SubSeq(ordered, offset + 1,
           IF offset + limit < Len(ordered) THEN offset + limit ELSE Len(ordered))

\* Pages read one after the other are the whole list, each row in it once:
\* what a client that pages through an endpoint relies on.
PagesMakeUp(rows, Before(_, _), limit) ==
    LET ordered == Ordered(rows, Before)
        pages == (Len(ordered) + limit - 1) \div limit
        read == [n \in 1 .. pages |-> Page(ordered, limit, (n - 1) * limit)]
    IN
    /\ Len(ordered) = Cardinality(rows)
    /\ ToSet(ordered) = rows
    /\ FlattenSeq(read) = ordered
=============================================================================
