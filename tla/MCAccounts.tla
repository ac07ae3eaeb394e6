---------------------------- MODULE MCAccounts ----------------------------
(***************************************************************************)
(* An instance of Accounts for TLC.                                        *)
(***************************************************************************)
EXTENDS Accounts, TLC

CONSTANTS e1, e2, c1, c2, a1, pw1, pw2, alice

MCEmails == {e1, e2}
MCClients == {c1, c2}
MCPasswords == {pw1, pw2}

MCMaximumAttempts ==
    ("login-ip" :> 2) @@ ("login-account" :> 1) @@ ("register-ip" :> 2) @@ ("refresh-ip" :> 2)

\* Two fields at once; the ends of a range and beyond; a stock with three and
\* with four decimals; a field that is not valid next to one that is
MCUpdates ==
    {[forecast_default_horizon_days |-> 7, forecast_min_history_days |-> 365],
     [forecast_default_horizon_days |-> 15, forecast_min_history_days |-> 366],
     [dashboard_default_date_range_days |-> 6],
     [inventory_default_minimum_stock |-> [digits |-> 1, decimals |-> 1]],
     [inventory_default_minimum_stock |-> [digits |-> 1, decimals |-> 4]],
     [reports_default_format |-> "csv"]}

Symmetry == Permutations(MCClients) \cup Permutations(MCPasswords)
=============================================================================
