------------------------- MODULE MCRecommendations -------------------------
(***************************************************************************)
(* An instance of Recommendations and Screens for TLC.                     *)
(***************************************************************************)
EXTENDS Screens, TLC

CONSTANTS u1, u2, c1, c2, p1, p2, p3, r1, r2, r3, drinks

MCUsers == {u1, u2}
MCClients == {c1, c2}
MCProducts == {p1, p2, p3}
MCRuns == {r1, r2, r3}

MCOwner == (p1 :> u1) @@ (p2 :> u1) @@ (p3 :> u2) @@ (r1 :> u1) @@ (r2 :> u1) @@ (r3 :> u2)
MCCategory == (p1 :> drinks) @@ (p2 :> None) @@ (p3 :> None)
MCCategoryOwner == drinks :> u1
MCSku == (p1 :> 2) @@ (p2 :> 1) @@ (p3 :> 1)
MCMape == (r1 :> 20) @@ (r2 :> None) @@ (r3 :> 5)
MCRequested == (r1 :> -2) @@ (r2 :> -1) @@ (r3 :> -1)

Day(p, date, demand) == [product |-> p, date |-> date, demand |-> demand]

\* r1 predicts two products, one over two periods; r2 fails
MCForecasts ==
    (r1 :> {Day(p1, 1, 2), Day(p1, 3, 0), Day(p2, 1, 1)}) @@ (r2 :> {})
    @@ (r3 :> {Day(p3, 1, 0)})

Level(current, minimum, safety, active) ==
    [current |-> current, minimum |-> minimum, safety |-> safety, active |-> active]

\* Out of stock, low, enough for the demand but not for the safety stock, too much
MCLevels == {Level(0, 1, 1, TRUE), Level(1, 1, 0, TRUE), Level(2, 1, 2, TRUE), Level(6, 1, 1, FALSE)}

\* p2 is not counted yet
MCFirstItems == (p1 :> Level(2, 1, 2, TRUE)) @@ (p2 :> None) @@ (p3 :> Level(0, 1, 1, TRUE))

MCPeriodStart(interval, date) == IF interval = "day" THEN date ELSE date - (date % 3)

Symmetry == Permutations(MCClients)
=============================================================================
