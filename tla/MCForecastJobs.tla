--------------------------- MODULE MCForecastJobs ---------------------------
(***************************************************************************)
(* Instances of ForecastJobs for TLC.                                      *)
(***************************************************************************)
EXTENDS ForecastJobs, TLC

CONSTANTS r1, j1, j2, c1, c2, w1, w2

MCRuns == {r1}
MCJobs == {j1, j2}
MCJob == {j1}
MCClients == {c1, c2}
MCClient == {c1}
MCWorkers == {w1, w2}
MCWorker == {w1}

MCSymmetry ==
    Permutations(MCJobs) \cup Permutations(MCClients) \cup Permutations(MCWorkers)

=============================================================================
