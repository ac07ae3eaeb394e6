----------------------------- MODULE MCCatalog -----------------------------
(***************************************************************************)
(* An instance of Catalog for TLC.                                         *)
(***************************************************************************)
EXTENDS Catalog, TLC

CONSTANTS u1, u2, c1, c2

MCUsers == {u1, u2}
MCClients == {c1, c2}

\* Two spellings of one SKU, one that is too long, one that is empty
MCRawSkus == {<<"a">>, <<"b">>, <<"A", " ", "-">>, <<"-">>, <<"?">>, <<"A", " ", "B", "b">>}

\* The last price below the limit, the limit, a negative one, three decimals
MCPrices ==
    {[digits |-> 99, decimals |-> 2], [digits |-> 1, decimals |-> 0],
     [digits |-> -1, decimals |-> 0], [digits |-> 10, decimals |-> 3]}

Symmetry == Permutations(MCUsers) \cup Permutations(MCClients)
=============================================================================
