------------------------- MODULE MCInventoryLedger -------------------------
(***************************************************************************)
(* Instances of InventoryLedger for TLC.                                   *)
(***************************************************************************)
EXTENDS InventoryLedger

CONSTANTS p1, c1, c2

MCProducts == {p1}
MCClients == {c1, c2}

\* Every quantity that is valid for some movement, and one too large
MCQuantities == 1 - MaxStock .. MaxStock
=============================================================================
