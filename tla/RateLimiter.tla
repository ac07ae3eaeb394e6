---------------------------- MODULE RateLimiter ----------------------------
(***************************************************************************)
(* AuthRateLimiter over Redis: a counter per scope and subject, which is   *)
(* created by the first attempt of a window and expires with it.  A key is *)
(* a pair of both; a counter that does not exist is 0.                     *)
(***************************************************************************)
EXTENDS Integers

CONSTANTS
    Addresses, Emails,   \* of clients; normalized
    MaximumAttempts      \* [Scopes -> Nat], the AUTH_..._MAX_ATTEMPTS_... settings

Scopes == {"login-ip", "login-account", "register-ip", "refresh-ip"}

ASSUME RateLimiterAssumption == MaximumAttempts \in [Scopes -> Nat \ {0}]

VARIABLES
    attempts,   \* the counters in Redis
    admitted    \* history: the attempts of the window that were let through

limiterVars == <<attempts, admitted>>

Keys == ({"login-ip", "register-ip", "refresh-ip"} \X Addresses) \cup ({"login-account"} \X Emails)

RateLimiterInit == attempts = [k \in Keys |-> 0] /\ admitted = [k \in Keys |-> 0]

\* What the requests count on, in this order
LoginLimits(ip, email) == << <<"login-ip", ip>>, <<"login-account", email>> >>
RegistrationLimits(ip) == << <<"register-ip", ip>> >>
RefreshLimits(ip) == << <<"refresh-ip", ip>> >>

\* The count before this attempt decides.
ExceededBefore(k) == attempts[k] > MaximumAttempts[k[1]]

\* The count that the script returns has this attempt in it
Exceeded(k) == attempts[k] + 1 > MaximumAttempts[k[1]]

\* _INCREMENT_WITH_EXPIRY is one script: atomic
Increment(k) == attempts' = [attempts EXCEPT ![k] = @ + 1]

Admit(k) ==
    /\ ~Exceeded(k)
    /\ Increment(k)
    /\ admitted' = [admitted EXCEPT ![k] = @ + 1]

\* AuthRateLimitExceededError; the refused attempt is counted
Reject(k) ==
    /\ Exceeded(k)
    /\ Increment(k)
    /\ UNCHANGED admitted

\* Redis does not answer, or not in time: whether the script ran is not known
Unavailable(k) ==
    /\ Increment(k) \/ UNCHANGED attempts
    /\ UNCHANGED admitted

\* EXPIRE is set by the first attempt only: the window ends in any case
WindowEnds(k) ==
    /\ attempts[k] > 0
    /\ attempts' = [attempts EXCEPT ![k] = 0]
    /\ admitted' = [admitted EXCEPT ![k] = 0]

-----------------------------------------------------------------------------
(* Properties *)

\* However many requests count on one key at the same time, and whatever is
\* refused or unanswered in between: a window lets no more attempts through
\* than the settings allow.
AttemptsWithinLimit == \A k \in Keys : admitted[k] <= MaximumAttempts[k[1]]
=============================================================================
