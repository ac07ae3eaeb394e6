--------------------------- MODULE Accounts_proofs ---------------------------
(***************************************************************************)
(* Proofs about Accounts, for any users, requests, limits and tokens: the  *)
(* rate limit, the sessions that a login opens, that no concurrent request *)
(* brings an old choice back, that settings are values their fields take   *)
(* and that tokens lead to their successors.                               *)
(***************************************************************************)
EXTENDS Accounts, ListLemmas

-----------------------------------------------------------------------------
(* The rate limit *)

\* The counter of a window has counted what it let through.
LimitInv ==
    /\ attempts \in [Keys -> Nat] /\ admitted \in [Keys -> Nat]
    /\ \A k \in Keys : admitted[k] <= attempts[k] /\ admitted[k] <= MaximumAttempts[k[1]]

LEMMA LimitsAreNumbers == \A k \in Keys : MaximumAttempts[k[1]] \in Nat
  BY RateLimiterAssumption DEF Keys, Scopes

LEMMA LimitInit == Init => LimitInv
  BY LimitsAreNumbers, RateLimiterAssumption DEF Init, RateLimiterInit, LimitInv

LEMMA LimitNext == LimitInv /\ [Next]_vars => LimitInv'
  <1> SUFFICES ASSUME LimitInv, [Next]_vars PROVE LimitInv'
    OBVIOUS
  <1>1. CASE UNCHANGED limiterVars
    BY <1>1 DEF limiterVars, LimitInv
  <1>2. ASSUME NEW k, Admit(k) PROVE LimitInv'
    <2>1. /\ ~(attempts[k] + 1 > MaximumAttempts[k[1]])
          /\ attempts' = [attempts EXCEPT ![k] = @ + 1]
          /\ admitted' = [admitted EXCEPT ![k] = @ + 1]
      BY <1>2 DEF Admit, Exceeded, Increment
    <2>2. attempts' \in [Keys -> Nat] /\ admitted' \in [Keys -> Nat]
      <3>1. CASE k \in Keys
        BY <2>1, <3>1 DEF LimitInv
      <3>2. CASE k \notin Keys
        <4>1. attempts' = attempts /\ admitted' = admitted
          BY <2>1, <3>2 DEF LimitInv
        <4>2. QED
          BY <4>1 DEF LimitInv
      <3>3. QED
        BY <3>1, <3>2
    <2>3. ASSUME NEW l \in Keys
          PROVE  admitted'[l] <= attempts'[l] /\ admitted'[l] <= MaximumAttempts[l[1]]
      <3>1. /\ attempts[l] \in Nat /\ admitted[l] \in Nat /\ MaximumAttempts[l[1]] \in Nat
            /\ admitted[l] <= attempts[l] /\ admitted[l] <= MaximumAttempts[l[1]]
        BY LimitsAreNumbers DEF LimitInv
      <3>2. CASE l = k
        <4>1. attempts'[l] = attempts[l] + 1 /\ admitted'[l] = admitted[l] + 1
          BY <2>1, <3>2 DEF LimitInv
        <4>2. QED
          BY <2>1, <3>1, <3>2, <4>1
      <3>3. CASE l # k
        <4>1. attempts'[l] = attempts[l] /\ admitted'[l] = admitted[l]
          BY <2>1, <3>3 DEF LimitInv
        <4>2. QED
          BY <3>1, <4>1
      <3>4. QED
        BY <3>2, <3>3
    <2>4. QED
      BY <2>2, <2>3 DEF LimitInv
  <1>3. ASSUME NEW k, Reject(k) \/ Unavailable(k) PROVE LimitInv'
    BY <1>3 DEF Reject, Unavailable, Increment, LimitInv
  <1>4. ASSUME NEW k \in Keys, CounterExpires(k) PROVE LimitInv'
    BY <1>4, LimitsAreNumbers DEF CounterExpires, WindowEnds, LimitInv
  <1>5. QED
    BY <1>1, <1>2, <1>3, <1>4, ZenonT(60)
    DEF Next, vars, PassLimit, Limited, Begins, AskRegister, AskLogin, AskRefresh, RegisterCheck,
        RegisterWrite, RegisterRefused, LoginLoad, LoginWrite, RefreshLoad, RefreshWrite,
        LogoutLoad, LogoutWrite, PasswordLoad, PasswordWrite, ProfileLoad, ProfileWrite,
        SettingsLoad, SettingsCreate, SettingsWrite, RequestAborted, TokenExpires, Deactivate

\* However many requests count at once, and whatever Redis answers: a window
\* lets through what the settings allow.
THEOREM LimitHolds == Spec => []AttemptsWithinLimit
  <1>1. LimitInv => AttemptsWithinLimit
    BY DEF LimitInv, AttemptsWithinLimit
  <1>2. QED
    BY <1>1, LimitInit, LimitNext, PTL DEF Spec

-----------------------------------------------------------------------------
(* Rows of auth_refresh_tokens, and what the operations make of them *)

TokenRows == [user : Emails, login : Nat, revoked : BOOLEAN, expired : BOOLEAN,
              replaced_by : Nat \cup {None}]

LEMMA TokenFields ==
    ASSUME NEW user \in Emails, NEW login \in Nat
    PROVE  /\ Token(user, login) \in TokenRows
           /\ Token(user, login).user = user /\ Token(user, login).login = login
           /\ ~Token(user, login).revoked
  BY Zenon DEF Token, TokenRows

LEMMA RevokedFields ==
    ASSUME NEW token \in TokenRows
    PROVE  /\ Revoked(token) \in TokenRows
           /\ Revoked(token).user = token.user /\ Revoked(token).login = token.login
           /\ Revoked(token).revoked
  BY Zenon DEF Revoked, TokenRows

LEMMA ReplacedFields ==
    ASSUME NEW token \in TokenRows, NEW successor \in Nat
    PROVE  /\ Replaced(token, successor) \in TokenRows
           /\ Replaced(token, successor).user = token.user
           /\ Replaced(token, successor).login = token.login
           /\ Replaced(token, successor).revoked
  BY Zenon DEF Replaced, TokenRows

LEMMA ExpiredFields ==
    ASSUME NEW token \in TokenRows
    PROVE  /\ Expired(token) \in TokenRows
           /\ Expired(token).user = token.user /\ Expired(token).login = token.login
           /\ Expired(token).revoked = token.revoked
  BY Zenon DEF Expired, TokenRows

\* A token's login is a token of the same user
OwnLogins(rows) ==
    \A t \in DOMAIN rows :
        rows[t].login \in DOMAIN rows /\ rows[rows[t].login].user = rows[t].user

\* A login that no two requests have raced for has one live token ...
OneLives(rows, contested) ==
    \A t, u \in DOMAIN rows :
        /\ ~rows[t].revoked /\ ~rows[u].revoked
        /\ rows[t].login = rows[u].login
        /\ rows[t].login \notin contested
        => t = u

\* ... and none when it was ended
NoneLives(rows, ended, contested) ==
    \A t \in DOMAIN rows : rows[t].login \in ended \ contested => rows[t].revoked

SoundLogins(rows, ended, contested) ==
    /\ rows \in Seq(TokenRows)
    /\ ended \subseteq DOMAIN rows
    /\ OwnLogins(rows) /\ OneLives(rows, contested) /\ NoneLives(rows, ended, contested)

\* Rows stay, and belong to whom they belonged
Grown(rows, later) ==
    /\ DOMAIN rows \subseteq DOMAIN later
    /\ \A t \in DOMAIN rows : later[t].user = rows[t].user /\ later[t].login = rows[t].login

LEMMA Issued ==
    ASSUME NEW rows, NEW ended, NEW contested, SoundLogins(rows, ended, contested),
           NEW user \in Emails,
           NEW later, later = Append(rows, Token(user, Len(rows) + 1))
    PROVE  SoundLogins(later, ended, contested) /\ Grown(rows, later)
  <1> DEFINE n == Len(rows) + 1
  <1>1. rows \in Seq(TokenRows) /\ n \in Nat /\ DOMAIN rows = 1 .. Len(rows)
    BY DEF SoundLogins
  <1> PICK token : token = Token(user, n)
    OBVIOUS
  <1>2. token \in TokenRows /\ token.user = user /\ token.login = n /\ ~token.revoked
    BY <1>1, TokenFields
  <1> HIDE DEF n
  <1>3. /\ later \in Seq(TokenRows) /\ DOMAIN later = DOMAIN rows \cup {n}
        /\ n \notin DOMAIN rows /\ later[n] = token
        /\ \A t \in DOMAIN rows : later[t] = rows[t]
    BY <1>1, <1>2 DEF n
  <1>4. QED
    BY <1>2, <1>3, SMTT(40) DEF SoundLogins, OwnLogins, OneLives, NoneLives, Grown

Rotation(rows, t) ==
    Append([rows EXCEPT ![t] = Replaced(@, Len(rows) + 1)], Token(rows[t].user, rows[t].login))

Revocation(rows, t) == [rows EXCEPT ![t] = Revoked(@)]

\* Two rows change: the old token is revoked, its successor lives in its place.
LEMMA Rotated ==
    ASSUME NEW rows, NEW ended, NEW contested, SoundLogins(rows, ended, contested),
           NEW t \in DOMAIN rows, NEW later, NEW now, later = Rotation(rows, t),
           contested \subseteq now,
           rows[t].revoked => rows[t].login \in now
    PROVE  SoundLogins(later, ended, now) /\ Grown(rows, later)
  <1> DEFINE n == Len(rows) + 1
  <1>1. rows \in Seq(TokenRows) /\ n \in Nat /\ DOMAIN rows = 1 .. Len(rows)
    BY DEF SoundLogins
  <1>2. rows[t] \in TokenRows /\ rows[t].user \in Emails /\ rows[t].login \in Nat
    <2>1. rows[t] \in TokenRows
      BY <1>1
    <2>2. QED
      BY <2>1 DEF TokenRows
  <1> PICK token : token = Token(rows[t].user, rows[t].login)
    OBVIOUS
  <1> PICK old : old = Replaced(rows[t], n)
    OBVIOUS
  <1>3. /\ token \in TokenRows /\ token.user = rows[t].user /\ token.login = rows[t].login
        /\ ~token.revoked
    BY <1>2, TokenFields
  <1>4. /\ old \in TokenRows /\ old.user = rows[t].user /\ old.login = rows[t].login
        /\ old.revoked
    BY <1>1, <1>2, ReplacedFields
  <1> HIDE DEF n
  <1>5. later = Append([rows EXCEPT ![t] = old], token)
    BY DEF n, Rotation
  <1>6. /\ later \in Seq(TokenRows) /\ DOMAIN later = DOMAIN rows \cup {n}
        /\ n \notin DOMAIN rows /\ later[n] = token /\ later[t] = old
        /\ \A u \in DOMAIN rows \ {t} : later[u] = rows[u]
    <2> PICK changed : changed = [rows EXCEPT ![t] = old]
      OBVIOUS
    <2>1. /\ changed \in Seq(TokenRows) /\ Len(changed) = Len(rows) /\ changed[t] = old
          /\ \A u \in DOMAIN rows \ {t} : changed[u] = rows[u]
      BY <1>1, <1>4
    <2>2. QED
      BY <1>1, <1>3, <1>5, <2>1 DEF n
  <1>7. Grown(rows, later)
    BY <1>4, <1>6 DEF Grown
  <1>8. ended \subseteq DOMAIN later
    BY <1>6 DEF SoundLogins, OwnLogins, OneLives, NoneLives
  <1>9. OwnLogins(later)
    <2>1. ASSUME NEW u \in DOMAIN rows
          PROVE  later[u].login \in DOMAIN rows /\ later[later[u].login].user = later[u].user
      <3>1. rows[u].login \in DOMAIN rows /\ rows[rows[u].login].user = rows[u].user
        BY DEF SoundLogins, OwnLogins
      <3>2. \A x \in DOMAIN rows : later[x].user = rows[x].user /\ later[x].login = rows[x].login
        BY <1>7 DEF Grown
      <3>3. QED
        BY <3>1, <3>2
    <2>2. later[n].login = later[t].login /\ later[n].user = later[t].user
      BY <1>3, <1>4, <1>6
    <2>3. later[n].login \in DOMAIN rows /\ later[later[n].login].user = later[n].user
      BY <2>1, <2>2
    <2>4. QED
      BY <1>6, <2>1, <2>3, Zenon DEF OwnLogins
  <1>10. OneLives(later, now)
    <2> SUFFICES ASSUME NEW u \in DOMAIN later, NEW v \in DOMAIN later,
                        ~later[u].revoked, ~later[v].revoked,
                        later[u].login = later[v].login, later[u].login \notin now
                 PROVE  u = v
      BY DEF OneLives
    <2>1. ASSUME NEW x \in DOMAIN rows, ~later[x].revoked, later[x].login = rows[t].login,
                 rows[t].login \notin now
          PROVE  FALSE
      <3>1. x # t /\ ~rows[x].revoked /\ rows[x].login = rows[t].login
        BY <1>4, <1>6, <2>1
      <3>2. ~rows[t].revoked /\ rows[t].login \notin contested
        BY <2>1
      <3>3. QED
        BY <3>1, <3>2 DEF SoundLogins, OwnLogins, OneLives, NoneLives
    <2>2. CASE u \in DOMAIN rows /\ v \in DOMAIN rows
      <3>1. /\ u # t /\ ~rows[u].revoked /\ rows[u].login = later[u].login
            /\ v # t /\ ~rows[v].revoked /\ rows[v].login = later[v].login
        BY <1>4, <1>6, <2>2
      <3>2. rows[u].login \notin contested
        BY <3>1
      <3>3. QED
        BY <2>2, <3>1, <3>2 DEF SoundLogins, OwnLogins, OneLives, NoneLives
    <2>3. CASE u = n /\ v # n
      <3>1. v \in DOMAIN rows /\ later[u].login = rows[t].login
        BY <1>3, <1>6, <2>3
      <3>2. QED
        BY <2>1, <3>1
    <2>4. CASE u # n /\ v = n
      <3>1. u \in DOMAIN rows /\ later[v].login = rows[t].login
        BY <1>3, <1>6, <2>4
      <3>2. QED
        BY <2>1, <3>1
    <2>5. QED
      BY <1>6, <2>2, <2>3, <2>4
  <1>11. NoneLives(later, ended, now)
    <2> SUFFICES ASSUME NEW u \in DOMAIN later, later[u].login \in ended \ now
                 PROVE  later[u].revoked
      BY DEF NoneLives
    <2> QED
      BY <1>3, <1>4, <1>6 DEF SoundLogins, OwnLogins, OneLives, NoneLives
  <1>12. QED
    BY <1>6, <1>7, <1>8, <1>9, <1>10, <1>11 DEF SoundLogins

\* A row is revoked, which ends its login.
LEMMA LoggedOut ==
    ASSUME NEW rows, NEW ended, NEW contested, SoundLogins(rows, ended, contested),
           NEW t \in DOMAIN rows, NEW later, NEW now, later = Revocation(rows, t),
           contested \subseteq now,
           rows[t].revoked => rows[t].login \in now
    PROVE  SoundLogins(later, ended \cup {rows[t].login}, now) /\ Grown(rows, later)
  <1>1. rows \in Seq(TokenRows) /\ rows[t] \in TokenRows
    BY DEF SoundLogins
  <1> PICK old : old = Revoked(rows[t])
    OBVIOUS
  <1>2. /\ old \in TokenRows /\ old.user = rows[t].user /\ old.login = rows[t].login
        /\ old.revoked
    BY <1>1, RevokedFields
  <1>3. later = [rows EXCEPT ![t] = old]
    BY DEF Revocation
  <1>4. /\ later \in Seq(TokenRows) /\ DOMAIN later = DOMAIN rows /\ later[t] = old
        /\ \A u \in DOMAIN rows \ {t} : later[u] = rows[u]
    BY <1>1, <1>2, <1>3
  <1>5. \A u \in DOMAIN rows :
           /\ later[u].user = rows[u].user /\ later[u].login = rows[u].login
           /\ rows[u].revoked => later[u].revoked
           /\ u = t => later[u].revoked
    BY <1>2, <1>4
  <1>6. Grown(rows, later)
    BY <1>4, <1>5 DEF Grown
  <1>7. ended \cup {rows[t].login} \subseteq DOMAIN later
    BY <1>4 DEF SoundLogins, OwnLogins, OneLives, NoneLives
  <1>8. OwnLogins(later)
    <2> SUFFICES ASSUME NEW u \in DOMAIN rows
                 PROVE  later[u].login \in DOMAIN rows /\ later[later[u].login].user = later[u].user
      BY <1>4, <1>5, Zenon DEF OwnLogins
    <2>1. rows[u].login \in DOMAIN rows /\ rows[rows[u].login].user = rows[u].user
      BY DEF SoundLogins, OwnLogins
    <2>2. QED
      BY <1>5, <2>1
  <1>9. OneLives(later, now)
    <2> SUFFICES ASSUME NEW u \in DOMAIN later, NEW v \in DOMAIN later,
                        ~later[u].revoked, ~later[v].revoked,
                        later[u].login = later[v].login, later[u].login \notin now
                 PROVE  u = v
      BY DEF OneLives
    <2> QED
      BY <1>4, <1>5 DEF SoundLogins, OwnLogins, OneLives, NoneLives
  <1>10. NoneLives(later, ended \cup {rows[t].login}, now)
    <2> SUFFICES ASSUME NEW u \in DOMAIN later, later[u].login \in (ended \cup {rows[t].login}) \ now
                 PROVE  later[u].revoked
      BY DEF NoneLives
    <2>1. rows[u].login \notin now /\ rows[u].login = later[u].login /\ u \in DOMAIN rows
      BY <1>4, <1>5
    <2>2. CASE rows[u].login \in ended
      BY <1>5, <2>1, <2>2 DEF SoundLogins, OwnLogins, OneLives, NoneLives
    <2>3. CASE rows[u].login = rows[t].login
      <3>1. CASE rows[u].revoked
        BY <1>5, <2>1, <3>1
      <3>2. CASE ~rows[u].revoked
        <4>1. ~rows[t].revoked /\ rows[t].login \notin contested
          BY <2>1, <2>3
        <4>2. u = t
          BY <2>1, <2>3, <3>2, <4>1 DEF SoundLogins, OwnLogins, OneLives, NoneLives
        <4>3. QED
          BY <1>5, <2>1, <4>2
      <3>3. QED
        BY <3>1, <3>2
    <2>4. QED
      BY <2>1, <2>2, <2>3
  <1>11. later \in Seq(TokenRows)
    BY <1>4
  <1>12. QED
    BY <1>6, <1>7, <1>8, <1>9, <1>10, <1>11 DEF SoundLogins

\* All rows of a user are revoked, which ends all of the user's logins.
LEMMA AllLoggedOut ==
    ASSUME NEW rows, NEW ended, NEW contested, SoundLogins(rows, ended, contested),
           NEW email, NEW later,
           later = [t \in DOMAIN rows |->
                       IF rows[t].user = email THEN Revoked(rows[t]) ELSE rows[t]]
    PROVE  /\ SoundLogins(later,
                   ended \cup {rows[t].login : t \in {u \in DOMAIN rows : rows[u].user = email}},
                   contested)
           /\ Grown(rows, later)
  <1> PICK gone : gone = {rows[t].login : t \in {u \in DOMAIN rows : rows[u].user = email}}
    OBVIOUS
  <1>1. rows \in Seq(TokenRows) /\ \A t \in DOMAIN rows : rows[t] \in TokenRows
    BY DEF SoundLogins
  <1>2. /\ DOMAIN later = DOMAIN rows
        /\ \A t \in DOMAIN rows :
              /\ later[t] \in TokenRows /\ later[t].user = rows[t].user
              /\ later[t].login = rows[t].login
              /\ rows[t].revoked => later[t].revoked
              /\ rows[t].user = email => later[t].revoked
    BY <1>1, RevokedFields, Zenon
  <1>3. later \in Seq(TokenRows)
    <2>1. DOMAIN later = 1 .. Len(rows) /\ Len(rows) \in Nat
      BY <1>1, <1>2
    <2>2. later \in [1 .. Len(rows) -> TokenRows]
      BY <1>2, <2>1, Zenon
    <2>3. QED
      BY <2>1, <2>2
  <1>4. \A login \in gone : \E t \in DOMAIN rows : login = rows[t].login /\ rows[t].user = email
    BY Zenon
  <1>5. Grown(rows, later)
    BY <1>2 DEF Grown
  <1>6. ended \cup gone \subseteq DOMAIN later
    BY <1>2, <1>4 DEF SoundLogins, OwnLogins, OneLives, NoneLives
  <1>7. OwnLogins(later)
    BY <1>2 DEF SoundLogins, OwnLogins
  <1>8. OneLives(later, contested)
    <2> SUFFICES ASSUME NEW t \in DOMAIN later, NEW u \in DOMAIN later,
                        ~later[t].revoked, ~later[u].revoked,
                        later[t].login = later[u].login, later[t].login \notin contested
                 PROVE  t = u
      BY DEF OneLives
    <2> QED
      BY <1>2 DEF SoundLogins, OwnLogins, OneLives, NoneLives
  <1>9. NoneLives(later, ended \cup gone, contested)
    <2> SUFFICES ASSUME NEW t \in DOMAIN later, later[t].login \in (ended \cup gone) \ contested
                 PROVE  later[t].revoked
      BY DEF NoneLives
    <2>1. CASE later[t].login \in ended
      BY <1>2, <2>1 DEF SoundLogins, OwnLogins, OneLives, NoneLives
    <2>2. CASE later[t].login \in gone
      <3>1. rows[t].user = email
        <4>1. t \in DOMAIN rows /\ rows[t].login \in gone
          BY <1>2, <2>2
        <4>2. PICK u \in DOMAIN rows : rows[t].login = rows[u].login /\ rows[u].user = email
          BY <1>4, <4>1
        <4>3. rows[rows[t].login].user = rows[t].user /\ rows[rows[u].login].user = rows[u].user
          BY <4>1 DEF SoundLogins, OwnLogins, OneLives, NoneLives
        <4>4. QED
          BY <4>2, <4>3
      <3>2. QED
        BY <1>2, <3>1
    <2>3. QED
      BY <2>1, <2>2
  <1>10. SoundLogins(later, ended \cup gone, contested)
    BY <1>3, <1>6, <1>7, <1>8, <1>9 DEF SoundLogins
  <1>11. QED
    BY <1>5, <1>10

LEMMA ExpiredSoundly ==
    ASSUME NEW rows, NEW ended, NEW contested, SoundLogins(rows, ended, contested),
           NEW t \in DOMAIN rows, NEW later, later = [rows EXCEPT ![t] = Expired(@)]
    PROVE  SoundLogins(later, ended, contested) /\ Grown(rows, later)
  <1>1. rows \in Seq(TokenRows) /\ rows[t] \in TokenRows
    BY DEF SoundLogins
  <1> PICK old : old = Expired(rows[t])
    OBVIOUS
  <1>2. /\ old \in TokenRows /\ old.user = rows[t].user /\ old.login = rows[t].login
        /\ old.revoked = rows[t].revoked
    BY <1>1, ExpiredFields
  <1>3. later = [rows EXCEPT ![t] = old]
    OBVIOUS
  <1>4. /\ later \in Seq(TokenRows) /\ DOMAIN later = DOMAIN rows /\ later[t] = old
        /\ \A u \in DOMAIN rows \ {t} : later[u] = rows[u]
    BY <1>1, <1>2, <1>3
  <1>5. /\ DOMAIN later = DOMAIN rows
        /\ \A u \in DOMAIN rows :
              /\ later[u].user = rows[u].user /\ later[u].login = rows[u].login
              /\ later[u].revoked = rows[u].revoked
    BY <1>2, <1>4
  <1>6. Grown(rows, later)
    BY <1>5 DEF Grown
  <1>7. ended \subseteq DOMAIN later
    BY <1>5 DEF SoundLogins, OwnLogins, OneLives, NoneLives
  <1>8. OwnLogins(later)
    <2> SUFFICES ASSUME NEW u \in DOMAIN rows
                 PROVE  later[u].login \in DOMAIN rows /\ later[later[u].login].user = later[u].user
      BY <1>5, Zenon DEF OwnLogins
    <2>1. rows[u].login \in DOMAIN rows /\ rows[rows[u].login].user = rows[u].user
      BY DEF SoundLogins, OwnLogins
    <2>2. QED
      BY <1>5, <2>1
  <1>9. OneLives(later, contested)
    <2> SUFFICES ASSUME NEW u \in DOMAIN later, NEW v \in DOMAIN later,
                        ~later[u].revoked, ~later[v].revoked,
                        later[u].login = later[v].login, later[u].login \notin contested
                 PROVE  u = v
      BY DEF OneLives
    <2> QED
      BY <1>5 DEF SoundLogins, OwnLogins, OneLives, NoneLives
  <1>10. NoneLives(later, ended, contested)
    <2> SUFFICES ASSUME NEW u \in DOMAIN later, later[u].login \in ended \ contested
                 PROVE  later[u].revoked
      BY DEF NoneLives
    <2>1. rows[u].revoked
      BY <1>5 DEF SoundLogins, OwnLogins, OneLives, NoneLives
    <2>2. QED
      BY <1>5, <2>1, Zenon
  <1>11. later \in Seq(TokenRows)
    BY <1>4
  <1>12. QED
    BY <1>6, <1>7, <1>8, <1>9, <1>10, <1>11 DEF SoundLogins

-----------------------------------------------------------------------------
(* Sessions of requests *)

ReqFields == {"op", "email", "password", "token", "seen", "ask", "limits"}

\* The row that the request loaded is the one it is going to write.
TokenAtHand(rows, r) ==
    /\ r.token \in DOMAIN rows
    /\ r.seen.user = rows[r.token].user /\ r.seen.login = rows[r.token].login
    /\ ~r.seen.revoked

Ready(rows, label, r) ==
    /\ label \in {"check", "register", "login", "issue"} => r.email \in Emails
    /\ label = "refresh" => r.token \in DOMAIN rows
    /\ label \in {"rotate", "logout"} => TokenAtHand(rows, r)

SoundSession(rows, label, r) ==
    /\ DOMAIN r = ReqFields
    /\ Ready(rows, label, r)
    /\ label = "limit" => r.op \in {"check", "login", "refresh"} /\ Ready(rows, r.op, r)

SessionInv ==
    /\ SoundLogins(tokens, closed, raced)
    /\ DOMAIN pc = Clients /\ DOMAIN req = Clients
    /\ \A c \in Clients : SoundSession(tokens, pc[c], req[c])

LEMMA NoRequestFields == DOMAIN NoRequest = ReqFields
  BY Zenon DEF NoRequest, ReqFields

LEMMA IdleSession == \A rows : SoundSession(rows, "idle", NoRequest)
  BY NoRequestFields DEF SoundSession, Ready

LEMMA SessionStays ==
    ASSUME NEW rows, NEW later, Grown(rows, later),
           NEW label, NEW r, SoundSession(rows, label, r)
    PROVE  SoundSession(later, label, r)
  <1>1. \A l : Ready(rows, l, r) => Ready(later, l, r)
    BY Zenon DEF Grown, Ready, TokenAtHand
  <1>2. QED
    BY <1>1 DEF SoundSession

LEMMA SameRows == \A rows : Grown(rows, rows)
  BY DEF Grown

\* Every step takes one request on; the rows it leaves are sound.
LEMMA RequestMoves ==
    ASSUME SessionInv, NEW c \in Clients, NEW label, NEW request, Goto(c, label, request),
           SoundSession(tokens', label, request),
           Grown(tokens, tokens'), SoundLogins(tokens', closed', raced')
    PROVE  SessionInv'
  <1>1. /\ DOMAIN pc' = Clients /\ DOMAIN req' = Clients
        /\ pc'[c] = label /\ req'[c] = request
        /\ \A d \in Clients \ {c} : pc'[d] = pc[d] /\ req'[d] = req[d]
    BY DEF Goto, SessionInv
  <1>2. ASSUME NEW d \in Clients PROVE SoundSession(tokens', pc'[d], req'[d])
    <2>1. CASE d = c
      BY <1>1, <2>1
    <2>2. CASE d # c
      BY <1>1, <2>2, SessionStays DEF SessionInv
    <2>3. QED
      BY <2>1, <2>2
  <1>3. QED
    BY <1>1, <1>2 DEF SessionInv

\* A step that leaves the tokens alone
LEMMA RequestMovesAlone ==
    ASSUME SessionInv, NEW c \in Clients, NEW label, NEW request, Goto(c, label, request),
           SoundSession(tokens, label, request), UNCHANGED <<tokens, closed, raced>>
    PROVE  SessionInv'
  <1>1. Grown(tokens, tokens') /\ SoundLogins(tokens', closed', raced')
    BY SameRows DEF SessionInv
  <1>2. QED
    BY <1>1, RequestMoves

\* A step of no request
LEMMA RowsChange ==
    ASSUME SessionInv, UNCHANGED <<pc, req>>,
           Grown(tokens, tokens'), SoundLogins(tokens', closed', raced')
    PROVE  SessionInv'
  <1>1. ASSUME NEW d \in Clients PROVE SoundSession(tokens', pc'[d], req'[d])
    BY SessionStays DEF SessionInv
  <1>2. QED
    BY <1>1 DEF SessionInv

LEMMA SessionInit == Init => SessionInv
  <1> SUFFICES ASSUME Init PROVE SessionInv
    OBVIOUS
  <1>1. Token(FirstUser, 1) \in TokenRows /\ Token(FirstUser, 1).login = 1
    BY AccountsAssumption, TokenFields
  <1>2. tokens \in Seq(TokenRows) /\ DOMAIN tokens = {1} /\ tokens[1].login = 1
    BY <1>1 DEF Init
  <1>3. SoundLogins(tokens, closed, raced)
    BY <1>2 DEF Init, SoundLogins, OwnLogins, OneLives, NoneLives
  <1>4. DOMAIN pc = Clients /\ DOMAIN req = Clients
        /\ \A c \in Clients : pc[c] = "idle" /\ req[c] = NoRequest
    BY DEF Init
  <1>5. QED
    BY <1>3, <1>4, IdleSession DEF SessionInv

\* How a request begins, and goes on
LEMMA SessionFields ==
    ASSUME NEW r, DOMAIN r = ReqFields, NEW seen, NEW ask, NEW limits
    PROVE  /\ \A s : s = [r EXCEPT !.limits = limits]
                   => /\ DOMAIN s = ReqFields /\ s.op = r.op /\ s.email = r.email
                      /\ s.token = r.token /\ s.seen = r.seen
           /\ \A s : s = [r EXCEPT !.seen = seen]
                   => DOMAIN s = ReqFields /\ s.token = r.token /\ s.seen = seen
           /\ DOMAIN [r EXCEPT !.seen = seen, !.ask = ask] = ReqFields
  BY DEF ReqFields

\* Labels that ask nothing of the session
LEMMA PlainSession ==
    ASSUME NEW rows, NEW label \in {"idle", "password", "profile", "create", "set"},
           NEW r, DOMAIN r = ReqFields
    PROVE  SoundSession(rows, label, r)
  BY DEF SoundSession, Ready

LEMMA LimitsKeepSessions ==
    ASSUME SessionInv, NEW c \in Clients,
           AskRegister(c) \/ AskLogin(c) \/ AskRefresh(c) \/ PassLimit(c) \/ Limited(c)
    PROVE  SessionInv'
  <1>1. CASE AskRegister(c)
    <2>1. PICK email \in Emails, password \in Passwords, ip \in Addresses :
             Begins(c, "limit", [NoRequest EXCEPT !.op = "check", !.email = email,
                        !.password = password, !.limits = RegistrationLimits(ip)])
      BY <1>1 DEF AskRegister
    <2> PICK r : r = [NoRequest EXCEPT !.op = "check", !.email = email,
                        !.password = password, !.limits = RegistrationLimits(ip)]
      OBVIOUS
    <2>2. DOMAIN r = ReqFields /\ r.op = "check" /\ r.email = email
      BY NoRequestFields DEF ReqFields
    <2>3. SoundSession(tokens, "limit", r)
      BY <2>2 DEF SoundSession, Ready
    <2>4. QED
      BY <2>1, <2>3, RequestMovesAlone DEF Begins, rowVars, history
  <1>2. CASE AskLogin(c)
    <2>1. PICK email \in Emails, password \in Passwords, ip \in Addresses :
             Begins(c, "limit", [NoRequest EXCEPT !.op = "login", !.email = email,
                        !.password = password, !.limits = LoginLimits(ip, email)])
      BY <1>2 DEF AskLogin
    <2> PICK r : r = [NoRequest EXCEPT !.op = "login", !.email = email,
                        !.password = password, !.limits = LoginLimits(ip, email)]
      OBVIOUS
    <2>2. DOMAIN r = ReqFields /\ r.op = "login" /\ r.email = email
      BY NoRequestFields DEF ReqFields
    <2>3. SoundSession(tokens, "limit", r)
      BY <2>2 DEF SoundSession, Ready
    <2>4. QED
      BY <2>1, <2>3, RequestMovesAlone DEF Begins, rowVars, history
  <1>3. CASE AskRefresh(c)
    <2>1. PICK t \in DOMAIN tokens, ip \in Addresses :
             Begins(c, "limit", [NoRequest EXCEPT !.op = "refresh", !.token = t,
                        !.limits = RefreshLimits(ip)])
      BY <1>3 DEF AskRefresh
    <2> PICK r : r = [NoRequest EXCEPT !.op = "refresh", !.token = t, !.limits = RefreshLimits(ip)]
      OBVIOUS
    <2>2. DOMAIN r = ReqFields /\ r.op = "refresh" /\ r.token = t
      BY NoRequestFields DEF ReqFields
    <2>3. SoundSession(tokens, "limit", r)
      BY <2>2 DEF SoundSession, Ready
    <2>4. QED
      BY <2>1, <2>3, RequestMovesAlone DEF Begins, rowVars, history
  <1>4. CASE PassLimit(c)
    <2>1. /\ pc[c] = "limit" /\ UNCHANGED <<tokens, closed, raced>>
          /\ \/ Goto(c, req[c].op, [req[c] EXCEPT !.limits = <<>>])
             \/ Goto(c, "limit", [req[c] EXCEPT !.limits = Tail(req[c].limits)])
      BY <1>4 DEF PassLimit, rowVars, history
    <2>2. SoundSession(tokens, "limit", req[c])
      BY <2>1 DEF SessionInv
    <2>3. ASSUME NEW limits, NEW r, r = [req[c] EXCEPT !.limits = limits]
          PROVE  SoundSession(tokens, "limit", r) /\ SoundSession(tokens, req[c].op, r)
      <3>1. /\ DOMAIN r = ReqFields /\ r.op = req[c].op /\ r.email = req[c].email
            /\ r.token = req[c].token /\ r.seen = req[c].seen
        BY <2>2, <2>3, SessionFields DEF SoundSession
      <3>2. QED
        BY <2>2, <3>1 DEF SoundSession, Ready, TokenAtHand
    <2>4. QED
      BY <2>1, <2>3, RequestMovesAlone
  <1>5. CASE Limited(c)
    BY <1>5, IdleSession, RequestMovesAlone DEF Limited, Done, rowVars, history
  <1>6. QED
    BY <1>1, <1>2, <1>3, <1>4, <1>5

LEMMA LoginKeepsSessions ==
    ASSUME SessionInv, NEW c \in Clients,
           \/ RegisterCheck(c) \/ RegisterWrite(c) \/ RegisterRefused(c)
           \/ LoginLoad(c) \/ LoginWrite(c)
    PROVE  SessionInv'
  <1>1. SoundSession(tokens, pc[c], req[c]) /\ SoundLogins(tokens, closed, raced)
    BY DEF SessionInv
  <1>2. CASE RegisterCheck(c)
    <2>1. SoundSession(tokens, "register", req[c])
      BY <1>1, <1>2 DEF RegisterCheck, SoundSession, Ready
    <2>2. QED
      BY <1>2, <2>1, IdleSession, RequestMovesAlone DEF RegisterCheck, Done, rowVars, history
  <1>3. CASE LoginLoad(c)
    <2>1. SoundSession(tokens, "issue", req[c])
      BY <1>1, <1>3 DEF LoginLoad, SoundSession, Ready
    <2>2. QED
      BY <1>3, <2>1, IdleSession, RequestMovesAlone DEF LoginLoad, Done, rowVars, history
  <1>4. CASE RegisterRefused(c)
    BY <1>4, IdleSession, RequestMovesAlone DEF RegisterRefused, Done, rowVars, history
  <1>5. CASE RegisterWrite(c) \/ LoginWrite(c)
    <2>1. /\ req[c].email \in Emails
          /\ tokens' = Append(tokens, Token(req[c].email, Len(tokens) + 1))
          /\ Goto(c, "idle", NoRequest) /\ UNCHANGED <<closed, raced>>
      BY <1>1, <1>5 DEF RegisterWrite, LoginWrite, SoundSession, Ready, Done, history
    <2>2. Grown(tokens, tokens') /\ SoundLogins(tokens', closed, raced)
      BY <1>1, <2>1, Issued
    <2>3. QED
      BY <2>1, <2>2, IdleSession, RequestMoves
  <1>6. QED
    BY <1>2, <1>3, <1>4, <1>5

\* Which login the request has raced for, and that a revoked token tells it
LEMMA RaceTells ==
    ASSUME SessionInv, NEW c \in Clients, pc[c] \in {"rotate", "logout"}, Race(c)
    PROVE  /\ TokenAtHand(tokens, req[c])
           /\ raced \subseteq raced'
           /\ tokens[req[c].token].revoked => tokens[req[c].token].login \in raced'
  <1>1. TokenAtHand(tokens, req[c])
    BY DEF SessionInv, SoundSession, Ready
  <1>2. QED
    BY <1>1 DEF Race, UsedMeanwhile, TokenAtHand

LEMMA RefreshKeepsSessions ==
    ASSUME SessionInv, NEW c \in Clients,
           RefreshLoad(c) \/ RefreshWrite(c) \/ LogoutLoad(c) \/ LogoutWrite(c)
    PROVE  SessionInv'
  <1>1. SoundSession(tokens, pc[c], req[c]) /\ SoundLogins(tokens, closed, raced)
    BY DEF SessionInv
  <1>2. CASE RefreshLoad(c)
    <2>1. /\ pc[c] = "refresh" /\ UNCHANGED <<tokens, closed, raced>>
          /\ \/ /\ ~tokens[req[c].token].revoked
                /\ Goto(c, "rotate", [req[c] EXCEPT !.seen = tokens[req[c].token]])
             \/ Goto(c, "idle", NoRequest)
      BY <1>2 DEF RefreshLoad, ValidToken, Done, rowVars, history
    <2>2. ASSUME ~tokens[req[c].token].revoked,
                 NEW r, r = [req[c] EXCEPT !.seen = tokens[req[c].token]]
          PROVE  SoundSession(tokens, "rotate", r)
      <3>1. /\ DOMAIN r = ReqFields /\ r.token = req[c].token
            /\ r.seen = tokens[req[c].token]
        BY <1>1, <2>2, SessionFields DEF SoundSession
      <3>2. QED
        BY <1>1, <2>1, <2>2, <3>1 DEF SoundSession, Ready, TokenAtHand
    <2>3. QED
      BY <2>1, <2>2, IdleSession, RequestMovesAlone
  <1>3. CASE LogoutLoad(c)
    <2>1. PICK t \in DOMAIN tokens :
             /\ ~tokens[t].revoked
             /\ Begins(c, "logout", [NoRequest EXCEPT !.token = t, !.seen = tokens[t]])
      BY <1>3 DEF LogoutLoad, ValidToken
    <2> PICK r : r = [NoRequest EXCEPT !.token = t, !.seen = tokens[t]]
      OBVIOUS
    <2>2. DOMAIN r = ReqFields /\ r.token = t /\ r.seen = tokens[t]
      BY NoRequestFields DEF ReqFields
    <2>3. SoundSession(tokens, "logout", r)
      BY <2>1, <2>2 DEF SoundSession, Ready, TokenAtHand
    <2>4. QED
      BY <2>1, <2>3, RequestMovesAlone DEF Begins, rowVars, history
  <1>4. CASE RefreshWrite(c)
    <2> PICK t : t = req[c].token
      OBVIOUS
    <2>1. /\ pc[c] = "rotate" /\ Race(c) /\ UNCHANGED closed
          /\ tokens' = Append([tokens EXCEPT ![t] = Replaced(@, Len(tokens) + 1)],
                              Token(req[c].seen.user, req[c].seen.login))
          /\ Goto(c, "idle", NoRequest)
      BY <1>4 DEF RefreshWrite, Done
    <2>2. /\ t \in DOMAIN tokens /\ raced \subseteq raced'
          /\ tokens[t].revoked => tokens[t].login \in raced'
          /\ req[c].seen.user = tokens[t].user /\ req[c].seen.login = tokens[t].login
      BY <2>1, RaceTells DEF TokenAtHand
    <2>3. tokens' = Rotation(tokens, t)
      BY <2>1, <2>2 DEF Rotation
    <2>4. Grown(tokens, tokens') /\ SoundLogins(tokens', closed, raced')
      BY <1>1, <2>2, <2>3, Rotated
    <2>5. QED
      BY <2>1, <2>4, IdleSession, RequestMoves
  <1>5. CASE LogoutWrite(c)
    <2> PICK t : t = req[c].token
      OBVIOUS
    <2>1. /\ pc[c] = "logout" /\ Race(c) /\ tokens' = [tokens EXCEPT ![t] = Revoked(@)]
          /\ closed' = closed \cup {req[c].seen.login} /\ Goto(c, "idle", NoRequest)
      BY <1>5 DEF LogoutWrite, Done
    <2>2. /\ t \in DOMAIN tokens /\ raced \subseteq raced'
          /\ tokens[t].revoked => tokens[t].login \in raced'
          /\ req[c].seen.login = tokens[t].login
      BY <2>1, RaceTells DEF TokenAtHand
    <2>3. tokens' = Revocation(tokens, t)
      BY <2>1 DEF Revocation
    <2>4. closed' = closed \cup {tokens[t].login}
      BY <2>1, <2>2
    <2>5. Grown(tokens, tokens') /\ SoundLogins(tokens', closed', raced')
      BY <1>1, <2>2, <2>3, <2>4, LoggedOut
    <2>6. QED
      BY <2>1, <2>5, IdleSession, RequestMoves
  <1>6. QED
    BY <1>2, <1>3, <1>4, <1>5

LEMMA ProfileKeepsSessions ==
    ASSUME SessionInv, NEW c \in Clients,
           \/ PasswordLoad(c) \/ PasswordWrite(c) \/ ProfileLoad(c) \/ ProfileWrite(c)
           \/ SettingsLoad(c) \/ SettingsCreate(c) \/ SettingsWrite(c) \/ RequestAborted(c)
    PROVE  SessionInv'
  <1>1. SoundSession(tokens, pc[c], req[c]) /\ SoundLogins(tokens, closed, raced)
    BY DEF SessionInv
  <1>2. CASE PasswordLoad(c)
    <2>1. PICK email, password :
             Begins(c, "password", [NoRequest EXCEPT !.email = email, !.password = password])
      BY <1>2 DEF PasswordLoad
    <2>2. DOMAIN [NoRequest EXCEPT !.email = email, !.password = password] = ReqFields
      BY NoRequestFields
    <2>3. QED
      BY <2>1, <2>2, PlainSession, RequestMovesAlone DEF Begins, rowVars, history
  <1>3. CASE ProfileLoad(c)
    <2>1. PICK email, ask, row :
             Begins(c, "profile", [NoRequest EXCEPT !.email = email, !.ask = ask, !.seen = row])
      BY <1>3 DEF ProfileLoad
    <2>2. DOMAIN [NoRequest EXCEPT !.email = email, !.ask = ask, !.seen = row] = ReqFields
      BY NoRequestFields
    <2>3. QED
      BY <2>1, <2>2, PlainSession, RequestMovesAlone DEF Begins, rowVars, history
  <1>4. CASE SettingsLoad(c)
    <2>1. PICK email, ask, row :
             \/ Begins(c, "set", [NoRequest EXCEPT !.email = email, !.ask = ask, !.seen = row])
             \/ Begins(c, "create", [NoRequest EXCEPT !.email = email, !.ask = ask])
      BY <1>4 DEF SettingsLoad
    <2>2. /\ DOMAIN [NoRequest EXCEPT !.email = email, !.ask = ask, !.seen = row] = ReqFields
          /\ DOMAIN [NoRequest EXCEPT !.email = email, !.ask = ask] = ReqFields
      BY NoRequestFields
    <2>3. QED
      BY <2>1, <2>2, PlainSession, RequestMovesAlone DEF Begins, rowVars, history
  <1>5. CASE SettingsCreate(c)
    <2>1. /\ UNCHANGED <<tokens, closed, raced>>
          /\ \/ Goto(c, "idle", NoRequest)
             \/ \E seen, ask : Goto(c, "set", [req[c] EXCEPT !.seen = seen, !.ask = ask])
      BY <1>5 DEF SettingsCreate, WithSettings, Done, history
    <2>2. \A seen, ask :
             SoundSession(tokens, "set", [req[c] EXCEPT !.seen = seen, !.ask = ask])
      BY <1>1, SessionFields, PlainSession DEF SoundSession
    <2>3. QED
      BY <2>1, <2>2, IdleSession, RequestMovesAlone
  <1>6. CASE ProfileWrite(c) \/ SettingsWrite(c) \/ RequestAborted(c)
    BY <1>6, IdleSession, RequestMovesAlone
    DEF ProfileWrite, SettingsWrite, RequestAborted, Done, rowVars, history
  <1>7. CASE PasswordWrite(c)
    <2>1. /\ tokens' = [t \in DOMAIN tokens |->
                 IF tokens[t].user = req[c].email THEN Revoked(tokens[t]) ELSE tokens[t]]
          /\ closed' = closed \cup {tokens[t].login :
                 t \in {u \in DOMAIN tokens : tokens[u].user = req[c].email}}
          /\ UNCHANGED raced /\ Goto(c, "idle", NoRequest)
      BY <1>7 DEF PasswordWrite, Done
    <2>2. Grown(tokens, tokens') /\ SoundLogins(tokens', closed', raced')
      BY <1>1, <2>1, AllLoggedOut, SMTT(40)
    <2>3. QED
      BY <2>1, <2>2, IdleSession, RequestMoves
  <1>8. QED
    BY <1>2, <1>3, <1>4, <1>5, <1>6, <1>7

LEMMA SessionNext == SessionInv /\ [Next]_vars => SessionInv'
  <1> SUFFICES ASSUME SessionInv, [Next]_vars PROVE SessionInv'
    OBVIOUS
  <1>1. CASE UNCHANGED vars
    BY <1>1, SameRows, RowsChange DEF vars, rowVars, history, SessionInv
  <1>2. ASSUME NEW t \in DOMAIN tokens, TokenExpires(t) PROVE SessionInv'
    <2>1. /\ tokens' = [tokens EXCEPT ![t] = Expired(@)]
          /\ UNCHANGED <<pc, req, closed, raced>>
      BY <1>2 DEF TokenExpires, history
    <2>2. Grown(tokens, tokens') /\ SoundLogins(tokens', closed, raced)
      BY <2>1, ExpiredSoundly DEF SessionInv
    <2>3. QED
      BY <2>1, <2>2, RowsChange
  <1>3. CASE (\E email \in Emails : Deactivate(email)) \/ \E k \in Keys : CounterExpires(k)
    <2>1. UNCHANGED <<tokens, pc, req, closed, raced>>
      BY <1>3 DEF Deactivate, CounterExpires, rowVars, history
    <2>2. QED
      BY <2>1, SameRows, RowsChange DEF SessionInv
  <1>4. QED
    BY <1>1, <1>2, <1>3, LimitsKeepSessions, LoginKeepsSessions, RefreshKeepsSessions,
       ProfileKeepsSessions
    DEF Next

\* However requests interleave: a login has at most one token that can be
\* refreshed, and none once it was ended, unless two requests used one of its
\* tokens at once.
THEOREM SessionsAreSingle == Spec => []OneSessionPerLogin
  <1>1. ASSUME SessionInv, NEW login \in DOMAIN tokens \ raced
        PROVE  Cardinality(LiveTokens(login)) <= IF login \in closed THEN 0 ELSE 1
    <2>1. \A t, u \in LiveTokens(login) : t = u
      BY <1>1 DEF SessionInv, SoundLogins, OneLives, LiveTokens
    <2>2. login \in closed => LiveTokens(login) = {}
      BY <1>1 DEF SessionInv, SoundLogins, NoneLives, LiveTokens
    <2>3. CASE LiveTokens(login) = {}
      <3>1. Cardinality(LiveTokens(login)) = 0
        BY <2>3, FS_EmptySet
      <3>2. QED
        BY <3>1
    <2>4. CASE LiveTokens(login) # {}
      <3>1. PICK t : LiveTokens(login) = {t}
        BY <2>1, <2>4
      <3>2. Cardinality(LiveTokens(login)) = 1
        BY <3>1, FS_Singleton
      <3>3. QED
        BY <2>2, <2>4, <3>2
    <2>5. QED
      BY <2>3, <2>4
  <1>2. SessionInv => OneSessionPerLogin
    BY <1>1 DEF OneSessionPerLogin
  <1>3. QED
    BY <1>2, SessionInit, SessionNext, PTL DEF Spec

-----------------------------------------------------------------------------
(* The choices of users *)

LEMMA FieldsAre ==
    Fields = {"forecast_default_horizon_days", "forecast_min_history_days",
              "inventory_default_minimum_stock", "reports_default_format",
              "dashboard_default_date_range_days"}
  BY DEF Fields, CategoryFields

LEMMA DefaultFields == DOMAIN DefaultSettings = Fields
  BY FieldsAre DEF DefaultSettings

\* Nothing but settings is ever asked for.
LEMMA AskedFields == \A ask \in Asked : DOMAIN ask \subseteq Fields
  <1>1. \A category \in DOMAIN CategoryFields :
           DOMAIN Restrict(DefaultSettings, CategoryFields[category]) \subseteq Fields
    BY DEF Restrict, Fields
  <1>2. \A values \in {u \in Updates : ValidUpdate(u, Fields)} :
           DOMAIN NormalizedUpdate(values) \subseteq Fields
    BY DEF NormalizedUpdate, ValidUpdate
  <1>3. QED
    BY <1>1, <1>2, DefaultFields DEF Asked

UserColumns == {"hashed_password", "full_name", "is_active"}

\* What was last chosen for a field, out of the choices so far
Latest(choices, email, field, default) ==
    IF <<email, field>> \in DOMAIN choices THEN choices[<<email, field>>] ELSE default

KeptSettings(rows, choices) ==
    \A email \in DOMAIN rows :
        /\ DOMAIN rows[email] = Fields
        /\ \A field \in Fields :
               rows[email][field] = Latest(choices, email, field, DefaultSettings[field])

KeptUsers(rows, choices) ==
    \A email \in DOMAIN rows :
        /\ DOMAIN rows[email] = UserColumns
        /\ rows[email].full_name = Latest(choices, email, "full_name", None)
        /\ rows[email].hashed_password
               = Latest(choices, email, "password", rows[email].hashed_password)

\* Only users, and rows of settings that there are, have choices.
Grounded(people, rows, choices) ==
    \A email, field : <<email, field>> \in DOMAIN choices =>
        /\ field \in Fields => email \in DOMAIN rows
        /\ field \in {"full_name", "password"} => email \in DOMAIN people

\* A request writes to rows that there are.
Aims(people, rows, label, r) ==
    /\ label \in {"create", "set"} => DOMAIN r.ask \subseteq Fields
    /\ label = "set" => r.email \in DOMAIN rows
    /\ label \in {"password", "profile"} => r.email \in DOMAIN people

ChoiceInv ==
    /\ KeptSettings(settings, chosen)
    /\ KeptUsers(users, chosen)
    /\ Grounded(users, settings, chosen)
    /\ \A c \in Clients : Aims(users, settings, pc[c], req[c])

LEMMA ChoiceInit == Init => ChoiceInv
  <1> SUFFICES ASSUME Init PROVE ChoiceInv
    OBVIOUS
  <1>1. PICK password : users = With(<<>>, FirstUser, User(password, None, TRUE))
    BY DEF Init
  <1>2. DOMAIN users = {FirstUser} /\ users[FirstUser] = User(password, None, TRUE)
    <2>1. DOMAIN <<>> = {}
      OBVIOUS
    <2>2. QED
      BY <1>1, <2>1 DEF With
  <1>3. DOMAIN settings = {} /\ DOMAIN chosen = {}
    BY DEF Init
  <1>4. KeptUsers(users, chosen)
    <2>1. \A field, default : Latest(chosen, FirstUser, field, default) = default
      BY <1>3 DEF Latest
    <2>2. DOMAIN users[FirstUser] = UserColumns /\ users[FirstUser].full_name = None
      BY <1>2 DEF User, UserColumns
    <2>3. QED
      BY <1>2, <2>1, <2>2 DEF KeptUsers
  <1>5. KeptSettings(settings, chosen) /\ Grounded(users, settings, chosen)
    BY <1>3 DEF KeptSettings, Grounded
  <1>6. \A c \in Clients : pc[c] = "idle"
    BY DEF Init
  <1>7. QED
    BY <1>4, <1>5, <1>6 DEF ChoiceInv, Aims

\* Rows are never deleted
LEMMA AimsStay ==
    ASSUME NEW people, NEW rows, NEW label, NEW r, Aims(people, rows, label, r),
           NEW others, NEW more, DOMAIN people \subseteq DOMAIN others,
           DOMAIN rows \subseteq DOMAIN more
    PROVE  Aims(others, more, label, r)
  BY DEF Aims

LEMMA ChoosersMove ==
    ASSUME SessionInv, ChoiceInv,
           NEW c \in Clients, NEW label, NEW request, Goto(c, label, request),
           Aims(users', settings', label, request),
           DOMAIN users \subseteq DOMAIN users', DOMAIN settings \subseteq DOMAIN settings',
           KeptSettings(settings', chosen'), KeptUsers(users', chosen'),
           Grounded(users', settings', chosen')
    PROVE  ChoiceInv'
  <1>1. /\ pc'[c] = label /\ req'[c] = request
        /\ \A d \in Clients \ {c} : pc'[d] = pc[d] /\ req'[d] = req[d]
    BY DEF Goto, SessionInv
  <1>2. ASSUME NEW d \in Clients PROVE Aims(users', settings', pc'[d], req'[d])
    <2>1. CASE d = c
      BY <1>1, <2>1
    <2>2. CASE d # c
      BY <1>1, <2>2, AimsStay DEF ChoiceInv
    <2>3. QED
      BY <2>1, <2>2
  <1>3. QED
    BY <1>2 DEF ChoiceInv

\* A step that leaves users, settings and choices alone
LEMMA ChoosersMoveAlone ==
    ASSUME SessionInv, ChoiceInv,
           NEW c \in Clients, NEW label, NEW request, Goto(c, label, request),
           Aims(users, settings, label, request), UNCHANGED <<users, settings, chosen>>
    PROVE  ChoiceInv'
  <1>1. /\ KeptSettings(settings', chosen') /\ KeptUsers(users', chosen')
        /\ Grounded(users', settings', chosen') /\ Aims(users', settings', label, request)
        /\ DOMAIN users \subseteq DOMAIN users' /\ DOMAIN settings \subseteq DOMAIN settings'
    BY DEF ChoiceInv
  <1>2. QED
    BY <1>1, ChoosersMove

\* Labels that aim at no row
LEMMA AimsAtNothing ==
    ASSUME NEW people, NEW rows, NEW r,
           NEW label \in {"idle", "limit", "check", "register", "login", "issue", "refresh",
                          "rotate", "logout"}
    PROVE  Aims(people, rows, label, r)
  BY DEF Aims

\* What was not chosen now is what it was.
LEMMA LatestOf ==
    ASSUME NEW choices, NEW email, NEW field, NEW value,
           NEW later, later = With(choices, <<email, field>>, value)
    PROVE  /\ \A default : Latest(later, email, field, default) = value
           /\ \A e, f, default : <<e, f>> # <<email, field>> =>
                 Latest(later, e, f, default) = Latest(choices, e, f, default)
  <1>1. /\ DOMAIN later = DOMAIN choices \cup {<<email, field>>}
        /\ later[<<email, field>>] = value
        /\ \A y \in DOMAIN choices \ {<<email, field>>} : later[y] = choices[y]
    BY DEF With
  <1>2. QED
    BY <1>1 DEF Latest

LEMMA LimitsKeepChoices ==
    ASSUME SessionInv, ChoiceInv, NEW c \in Clients,
           AskRegister(c) \/ AskLogin(c) \/ AskRefresh(c) \/ PassLimit(c) \/ Limited(c)
    PROVE  ChoiceInv'
  <1>1. CASE AskRegister(c) \/ AskLogin(c) \/ AskRefresh(c)
    <2>1. /\ \E r : Goto(c, "limit", r)
          /\ UNCHANGED <<users, settings, chosen>>
      BY <1>1 DEF AskRegister, AskLogin, AskRefresh, Begins, rowVars, history
    <2>2. QED
      BY <2>1, AimsAtNothing, ChoosersMoveAlone
  <1>2. CASE PassLimit(c)
    <2>1. /\ pc[c] = "limit" /\ UNCHANGED <<users, settings, chosen>>
          /\ \E r : Goto(c, req[c].op, r) \/ Goto(c, "limit", r)
      BY <1>2 DEF PassLimit, rowVars, history
    <2>2. req[c].op \in {"check", "login", "refresh"}
      BY <2>1 DEF SessionInv, SoundSession
    <2>3. QED
      BY <2>1, <2>2, AimsAtNothing, ChoosersMoveAlone
  <1>3. CASE Limited(c)
    BY <1>3, AimsAtNothing, ChoosersMoveAlone DEF Limited, Done, rowVars, history
  <1>4. QED
    BY <1>1, <1>2, <1>3

LEMMA LoginKeepsChoices ==
    ASSUME SessionInv, ChoiceInv, NEW c \in Clients,
           \/ RegisterCheck(c) \/ RegisterWrite(c) \/ RegisterRefused(c)
           \/ LoginLoad(c) \/ LoginWrite(c)
           \/ RefreshLoad(c) \/ RefreshWrite(c) \/ LogoutLoad(c) \/ LogoutWrite(c)
           \/ RequestAborted(c)
    PROVE  ChoiceInv'
  <1>1. CASE RegisterWrite(c)
    <2> PICK email : email = req[c].email
      OBVIOUS
    <2> PICK row : row = User(req[c].password, None, TRUE)
      OBVIOUS
    <2>1. /\ email \notin DOMAIN users /\ users' = With(users, email, row)
          /\ Goto(c, "idle", NoRequest) /\ UNCHANGED <<settings, chosen>>
      BY <1>1 DEF RegisterWrite, Done, history
    <2>2. /\ DOMAIN users' = DOMAIN users \cup {email} /\ users'[email] = row
          /\ \A e \in DOMAIN users : users'[e] = users[e]
      BY <2>1 DEF With
    <2>3. /\ DOMAIN row = UserColumns
          /\ row.full_name = None
      BY DEF User, UserColumns
    <2>4. <<email, "full_name">> \notin DOMAIN chosen /\ <<email, "password">> \notin DOMAIN chosen
      BY <2>1 DEF ChoiceInv, Grounded
    <2>5. KeptUsers(users', chosen)
      <3>1. ASSUME NEW e \in DOMAIN users
            PROVE  /\ DOMAIN users'[e] = UserColumns
                   /\ users'[e].full_name = Latest(chosen, e, "full_name", None)
                   /\ users'[e].hashed_password
                          = Latest(chosen, e, "password", users'[e].hashed_password)
        BY <2>2 DEF ChoiceInv, KeptUsers
      <3>2. /\ DOMAIN users'[email] = UserColumns
            /\ users'[email].full_name = Latest(chosen, email, "full_name", None)
            /\ users'[email].hashed_password
                   = Latest(chosen, email, "password", users'[email].hashed_password)
        BY <2>2, <2>3, <2>4 DEF Latest
      <3>3. QED
        BY <2>2, <3>1, <3>2, Zenon DEF KeptUsers
    <2>6. Grounded(users', settings, chosen)
      BY <2>2 DEF ChoiceInv, Grounded
    <2>7. KeptSettings(settings', chosen')
      BY <2>1 DEF ChoiceInv
    <2>8. QED
      BY <2>1, <2>2, <2>5, <2>6, <2>7, AimsAtNothing, ChoosersMove
  <1>2. CASE ~RegisterWrite(c)
    <2>1. /\ UNCHANGED <<users, settings, chosen>>
          /\ \E r, label : /\ label \in {"idle", "register", "issue", "rotate", "logout"}
                           /\ Goto(c, label, r)
      BY <1>2
      DEF RegisterCheck, RegisterRefused, LoginLoad, LoginWrite, RefreshLoad, RefreshWrite,
          LogoutLoad, LogoutWrite, RequestAborted, Begins, Done, rowVars, history
    <2>2. QED
      BY <2>1, AimsAtNothing, ChoosersMoveAlone
  <1>3. QED
    BY <1>1, <1>2

\* The columns that an update of a user leaves alone
LEMMA UserUpdates ==
    ASSUME NEW row, DOMAIN row = UserColumns, NEW value
    PROVE  /\ \A s : s = [row EXCEPT !.hashed_password = value]
                   => /\ DOMAIN s = UserColumns
                      /\ s.hashed_password = value /\ s.full_name = row.full_name
           /\ \A s : s = [row EXCEPT !.full_name = value]
                   => /\ DOMAIN s = UserColumns
                      /\ s.full_name = value /\ s.hashed_password = row.hashed_password
           /\ \A s : s = [row EXCEPT !.is_active = value]
                   => /\ DOMAIN s = UserColumns /\ s.full_name = row.full_name
                      /\ s.hashed_password = row.hashed_password
  BY DEF UserColumns

LEMMA ProfileKeepsChoices ==
    ASSUME SessionInv, ChoiceInv, NEW c \in Clients,
           PasswordLoad(c) \/ PasswordWrite(c) \/ ProfileLoad(c) \/ ProfileWrite(c)
    PROVE  ChoiceInv'
  <1>1. Aims(users, settings, pc[c], req[c]) /\ DOMAIN req[c] = ReqFields
    BY DEF SessionInv, SoundSession, ChoiceInv
  <1>2. CASE PasswordLoad(c)
    <2>1. PICK email, password :
             /\ email \in DOMAIN users
             /\ Begins(c, "password", [NoRequest EXCEPT !.email = email, !.password = password])
      BY <1>2 DEF PasswordLoad, Active
    <2> PICK r : r = [NoRequest EXCEPT !.email = email, !.password = password]
      OBVIOUS
    <2>2. r.email = email
      BY NoRequestFields DEF ReqFields
    <2>3. QED
      BY <2>1, <2>2, ChoosersMoveAlone DEF Aims, Begins, rowVars, history
  <1>3. CASE ProfileLoad(c)
    <2>1. PICK email, name :
             /\ email \in DOMAIN users
             /\ Begins(c, "profile", [NoRequest EXCEPT !.email = email, !.ask = name,
                                                      !.seen = users[email]])
      BY <1>3 DEF ProfileLoad, Active
    <2> PICK r : r = [NoRequest EXCEPT !.email = email, !.ask = name, !.seen = users[email]]
      OBVIOUS
    <2>2. r.email = email
      BY NoRequestFields DEF ReqFields
    <2>3. QED
      BY <2>1, <2>2, ChoosersMoveAlone DEF Aims, Begins, rowVars, history
  <1>4. ASSUME NEW email \in DOMAIN users, NEW row, NEW field \in {"full_name", "password"}, NEW value,
               users' = [users EXCEPT ![email] = row], DOMAIN row = UserColumns,
               /\ field = "password" => row.hashed_password = value
                                        /\ row.full_name = users[email].full_name
               /\ field = "full_name" => row.full_name = value
                                        /\ row.hashed_password = users[email].hashed_password,
               chosen' = With(chosen, <<email, field>>, value),
               Goto(c, "idle", NoRequest), UNCHANGED settings
        PROVE  ChoiceInv'
    <2>1. /\ DOMAIN users' = DOMAIN users /\ users'[email] = row
          /\ \A e \in DOMAIN users \ {email} : users'[e] = users[e]
      BY <1>4
    <2>2. /\ \A default : Latest(chosen', email, field, default) = value
          /\ \A e, f, default : <<e, f>> # <<email, field>> =>
                Latest(chosen', e, f, default) = Latest(chosen, e, f, default)
      BY <1>4, LatestOf
    <2>3. KeptUsers(users', chosen')
      <3>1. ASSUME NEW e \in DOMAIN users
            PROVE  /\ DOMAIN users'[e] = UserColumns
                   /\ users'[e].full_name = Latest(chosen', e, "full_name", None)
                   /\ users'[e].hashed_password
                          = Latest(chosen', e, "password", users'[e].hashed_password)
        <4>1. /\ DOMAIN users[e] = UserColumns
              /\ users[e].full_name = Latest(chosen, e, "full_name", None)
              /\ users[e].hashed_password
                     = Latest(chosen, e, "password", users[e].hashed_password)
          BY DEF ChoiceInv, KeptUsers
        <4>2. CASE e # email
          BY <2>1, <2>2, <4>1, <4>2
        <4>3. CASE e = email /\ field = "password"
          BY <1>4, <2>1, <2>2, <4>1, <4>3
        <4>4. CASE e = email /\ field = "full_name"
          BY <1>4, <2>1, <2>2, <4>1, <4>4
        <4>5. QED
          BY <1>4, <4>2, <4>3, <4>4
      <3>2. QED
        BY <2>1, <3>1, Zenon DEF KeptUsers
    <2>4. KeptSettings(settings', chosen')
      <3>1. field \notin Fields
        BY <1>4, FieldsAre
      <3>2. \A e, f, default : f \in Fields =>
               Latest(chosen', e, f, default) = Latest(chosen, e, f, default)
        BY <2>2, <3>1
      <3>3. QED
        BY <1>4, <3>2 DEF ChoiceInv, KeptSettings
    <2>5. Grounded(users', settings', chosen')
      <3>1. field \notin Fields
        BY <1>4, FieldsAre
      <3>2. DOMAIN chosen' = DOMAIN chosen \cup {<<email, field>>}
        BY <1>4 DEF With
      <3>3. QED
        BY <1>4, <2>1, <3>1, <3>2 DEF ChoiceInv, Grounded
    <2>6. QED
      BY <1>4, <2>1, <2>3, <2>4, <2>5, AimsAtNothing, ChoosersMove
  <1>5. CASE PasswordWrite(c)
    <2> PICK email : email = req[c].email
      OBVIOUS
    <2> PICK row : row = [users[email] EXCEPT !.hashed_password = req[c].password]
      OBVIOUS
    <2>1. /\ users' = [users EXCEPT ![email] = row] /\ email \in DOMAIN users
          /\ chosen' = With(chosen, <<email, "password">>, req[c].password)
          /\ Goto(c, "idle", NoRequest) /\ UNCHANGED settings
      BY <1>1, <1>5 DEF PasswordWrite, Aims, Done
    <2>2. DOMAIN users[email] = UserColumns
      BY <2>1 DEF ChoiceInv, KeptUsers
    <2>3. /\ DOMAIN row = UserColumns /\ row.hashed_password = req[c].password
          /\ row.full_name = users[email].full_name
      BY <2>2, UserUpdates
    <2>4. QED
      BY <1>4, <2>1, <2>3
  <1>6. CASE ProfileWrite(c)
    <2> PICK email : email = req[c].email
      OBVIOUS
    <2> PICK row : row = [users[email] EXCEPT !.full_name = req[c].ask]
      OBVIOUS
    <2>1. /\ email \in DOMAIN users /\ Goto(c, "idle", NoRequest) /\ UNCHANGED settings
          /\ \/ /\ users' = [users EXCEPT ![email] = row]
                /\ chosen' = With(chosen, <<email, "full_name">>, req[c].ask)
             \/ UNCHANGED <<users, chosen>>
      BY <1>1, <1>6 DEF ProfileWrite, Aims, Done
    <2>2. DOMAIN users[email] = UserColumns
      BY <2>1 DEF ChoiceInv, KeptUsers
    <2>3. /\ DOMAIN row = UserColumns /\ row.full_name = req[c].ask
          /\ row.hashed_password = users[email].hashed_password
      BY <2>2, UserUpdates
    <2>4. CASE UNCHANGED <<users, chosen>>
      BY <2>1, <2>4, AimsAtNothing, ChoosersMoveAlone
    <2>5. QED
      BY <1>4, <2>1, <2>3, <2>4
  <1>7. QED
    BY <1>2, <1>3, <1>5, <1>6

LEMMA SettingsKeepChoices ==
    ASSUME SessionInv, ChoiceInv, NEW c \in Clients,
           SettingsLoad(c) \/ SettingsCreate(c) \/ SettingsWrite(c)
    PROVE  ChoiceInv'
  <1>1. Aims(users, settings, pc[c], req[c]) /\ DOMAIN req[c] = ReqFields
    BY DEF SessionInv, SoundSession, ChoiceInv
  <1>2. CASE SettingsLoad(c)
    <2>1. PICK email \in Emails, ask \in Asked :
             \/ /\ email \in DOMAIN settings
                /\ Begins(c, "set", [NoRequest EXCEPT !.email = email, !.ask = ask,
                                                     !.seen = settings[email]])
             \/ Begins(c, "create", [NoRequest EXCEPT !.email = email, !.ask = ask])
      BY <1>2 DEF SettingsLoad
    <2>2. DOMAIN ask \subseteq Fields
      BY AskedFields
    <2>3. CASE /\ email \in DOMAIN settings
               /\ Begins(c, "set", [NoRequest EXCEPT !.email = email, !.ask = ask,
                                                    !.seen = settings[email]])
      <3> PICK r : r = [NoRequest EXCEPT !.email = email, !.ask = ask, !.seen = settings[email]]
        OBVIOUS
      <3>1. r.email = email /\ r.ask = ask
        BY NoRequestFields DEF ReqFields
      <3>2. Aims(users, settings, "set", r)
        BY <2>2, <2>3, <3>1 DEF Aims
      <3>3. QED
        BY <2>3, <3>2, ChoosersMoveAlone DEF Begins, rowVars, history
    <2>4. CASE Begins(c, "create", [NoRequest EXCEPT !.email = email, !.ask = ask])
      <3> PICK r : r = [NoRequest EXCEPT !.email = email, !.ask = ask]
        OBVIOUS
      <3>1. r.ask = ask
        BY NoRequestFields DEF ReqFields
      <3>2. Aims(users, settings, "create", r)
        BY <2>2, <3>1 DEF Aims
      <3>3. QED
        BY <2>4, <3>2, ChoosersMoveAlone DEF Begins, rowVars, history
    <2>5. QED
      BY <2>1, <2>3, <2>4
  <1>3. CASE SettingsCreate(c)
    <2> PICK email : email = req[c].email
      OBVIOUS
    <2>1. /\ settings' = Inserted(email) /\ UNCHANGED <<users, chosen>>
          /\ WithSettings(c, req[c].ask, settings'[email]) /\ DOMAIN req[c].ask \subseteq Fields
      BY <1>1, <1>3 DEF SettingsCreate, Aims, history
    <2>2. /\ DOMAIN settings' = DOMAIN settings \cup {email}
          /\ \A e \in DOMAIN settings : settings'[e] = settings[e]
          /\ email \notin DOMAIN settings => settings'[email] = DefaultSettings
      BY <2>1 DEF Inserted, With
    <2>3. KeptSettings(settings', chosen')
      <3>1. ASSUME NEW e \in DOMAIN settings
            PROVE  /\ DOMAIN settings'[e] = Fields
                   /\ \A field \in Fields :
                          settings'[e][field] = Latest(chosen', e, field, DefaultSettings[field])
        BY <2>1, <2>2 DEF ChoiceInv, KeptSettings
      <3>2. ASSUME email \notin DOMAIN settings
            PROVE  /\ DOMAIN settings'[email] = Fields
                   /\ \A field \in Fields :
                          settings'[email][field]
                              = Latest(chosen', email, field, DefaultSettings[field])
        <4>1. \A field \in Fields : <<email, field>> \notin DOMAIN chosen
          BY <3>2 DEF ChoiceInv, Grounded
        <4>2. QED
          BY <2>1, <2>2, <3>2, <4>1, DefaultFields DEF Latest
      <3>3. QED
        BY <2>2, <3>1, <3>2, Zenon DEF KeptSettings
    <2>4. KeptUsers(users', chosen') /\ Grounded(users', settings', chosen')
      BY <2>1, <2>2 DEF ChoiceInv, Grounded
    <2>5. DOMAIN users \subseteq DOMAIN users' /\ DOMAIN settings \subseteq DOMAIN settings'
      BY <2>1, <2>2
    <2>6. CASE Goto(c, "idle", NoRequest)
      BY <2>3, <2>4, <2>5, <2>6, AimsAtNothing, ChoosersMove
    <2>7. CASE Goto(c, "set", [req[c] EXCEPT !.seen = settings'[email], !.ask = req[c].ask])
      <3> PICK r : r = [req[c] EXCEPT !.seen = settings'[email], !.ask = req[c].ask]
        OBVIOUS
      <3>1. r.email = email /\ r.ask = req[c].ask
        BY <1>1 DEF ReqFields
      <3>2. Aims(users', settings', "set", r)
        BY <2>1, <2>2, <3>1 DEF Aims
      <3>3. QED
        BY <2>3, <2>4, <2>5, <2>7, <3>2, ChoosersMove
    <2>8. QED
      BY <2>1, <2>6, <2>7 DEF WithSettings, Done
  <1>4. CASE SettingsWrite(c)
    <2> PICK r : r = req[c]
      OBVIOUS
    <2> PICK email : email = r.email
      OBVIOUS
    <2> PICK changed : changed = Changed(r)
      OBVIOUS
    <2> PICK row : row = Written(settings[email], r)
      OBVIOUS
    <2>1. /\ email \in DOMAIN settings /\ changed \subseteq Fields
          /\ settings' = [settings EXCEPT ![email] = row]
          /\ chosen' = [key \in DOMAIN chosen \cup ({email} \X changed) |->
                           IF key \in {email} \X changed THEN r.ask[key[2]] ELSE chosen[key]]
          /\ UNCHANGED users /\ Goto(c, "idle", NoRequest)
      BY <1>1, <1>4 DEF SettingsWrite, Changed, Aims, Done
    <2>2. /\ DOMAIN settings' = DOMAIN settings /\ settings'[email] = row
          /\ \A e \in DOMAIN settings \ {email} : settings'[e] = settings[e]
      BY <2>1
    <2>3. /\ DOMAIN row = Fields
          /\ \A field \in Fields :
                row[field] = IF field \in changed THEN r.ask[field] ELSE settings[email][field]
      BY <2>1 DEF Written, ChoiceInv, KeptSettings
    <2>4. \A e, f : <<e, f>> \in DOMAIN chosen'
                       <=> <<e, f>> \in DOMAIN chosen \/ (e = email /\ f \in changed)
      BY <2>1
    <2>5. /\ \A f, default : f \in changed => Latest(chosen', email, f, default) = r.ask[f]
          /\ \A e, f, default : ~(e = email /\ f \in changed)
                 => Latest(chosen', e, f, default) = Latest(chosen, e, f, default)
      BY <2>1, <2>4 DEF Latest
    <2>6. KeptSettings(settings', chosen')
      <3>1. ASSUME NEW e \in DOMAIN settings
            PROVE  /\ DOMAIN settings'[e] = Fields
                   /\ \A field \in Fields :
                          settings'[e][field] = Latest(chosen', e, field, DefaultSettings[field])
        <4>1. /\ DOMAIN settings[e] = Fields
              /\ \A field \in Fields :
                    settings[e][field] = Latest(chosen, e, field, DefaultSettings[field])
          BY DEF ChoiceInv, KeptSettings
        <4>2. CASE e = email
          BY <2>2, <2>3, <2>5, <4>1, <4>2
        <4>3. CASE e # email
          BY <2>2, <2>5, <4>1, <4>3
        <4>4. QED
          BY <4>2, <4>3
      <3>2. QED
        BY <2>2, <3>1, Zenon DEF KeptSettings
    <2>7. KeptUsers(users', chosen')
      <3>1. "full_name" \notin changed /\ "password" \notin changed
        BY <2>1, FieldsAre
      <3>2. \A e, default :
               /\ Latest(chosen', e, "full_name", default) = Latest(chosen, e, "full_name", default)
               /\ Latest(chosen', e, "password", default) = Latest(chosen, e, "password", default)
        BY <2>5, <3>1
      <3>3. QED
        BY <2>1, <3>2, SMTT(40) DEF ChoiceInv, KeptUsers
    <2>8. Grounded(users', settings', chosen')
      <3>1. \A f \in changed : f \in Fields /\ f \notin {"full_name", "password"}
        BY <2>1, FieldsAre
      <3>2. QED
        BY <2>1, <2>2, <2>4, <3>1 DEF ChoiceInv, Grounded
    <2>9. QED
      BY <2>1, <2>2, <2>6, <2>7, <2>8, AimsAtNothing, ChoosersMove
  <1>5. QED
    BY <1>2, <1>3, <1>4

\* Steps of no request
LEMMA OthersKeepChoices ==
    ASSUME SessionInv, ChoiceInv,
           \/ UNCHANGED vars
           \/ \E t \in DOMAIN tokens : TokenExpires(t)
           \/ \E email \in Emails : Deactivate(email)
           \/ \E k \in Keys : CounterExpires(k)
    PROVE  ChoiceInv'
  <1>1. CASE UNCHANGED <<users, settings, chosen, pc, req>>
    BY <1>1 DEF ChoiceInv
  <1>2. ASSUME NEW email \in Emails, Deactivate(email) PROVE ChoiceInv'
    <2> PICK row : row = [users[email] EXCEPT !.is_active = FALSE]
      OBVIOUS
    <2>1. /\ email \in DOMAIN users /\ users' = [users EXCEPT ![email] = row]
          /\ UNCHANGED <<settings, chosen, pc, req>>
      BY <1>2 DEF Deactivate, Active, history
    <2>2. DOMAIN users[email] = UserColumns
      BY <2>1 DEF ChoiceInv, KeptUsers
    <2>3. /\ DOMAIN row = UserColumns /\ row.full_name = users[email].full_name
          /\ row.hashed_password = users[email].hashed_password
      BY <2>2 DEF UserColumns
    <2>4. /\ DOMAIN users' = DOMAIN users /\ users'[email] = row
          /\ \A e \in DOMAIN users \ {email} : users'[e] = users[e]
      BY <2>1
    <2>5. KeptUsers(users', chosen')
      BY <2>1, <2>3, <2>4 DEF ChoiceInv, KeptUsers
    <2>6. /\ KeptSettings(settings', chosen') /\ Grounded(users', settings', chosen')
          /\ \A c \in Clients : Aims(users', settings', pc'[c], req'[c])
      BY <2>1, <2>4 DEF ChoiceInv, Grounded, Aims
    <2>7. QED
      BY <2>5, <2>6 DEF ChoiceInv
  <1>3. QED
    BY <1>1, <1>2 DEF TokenExpires, CounterExpires, vars, rowVars, history

LEMMA ChoiceNext == SessionInv /\ ChoiceInv /\ [Next]_vars => ChoiceInv'
  <1> SUFFICES ASSUME SessionInv, ChoiceInv, [Next]_vars PROVE ChoiceInv'
    OBVIOUS
  <1> QED
    BY LimitsKeepChoices, LoginKeepsChoices, ProfileKeepsChoices, SettingsKeepChoices,
       OthersKeepChoices
    DEF Next

\* No concurrent request brings back a setting, a name or a password that a
\* later request replaced.
THEOREM NoChoiceIsLost == Spec => []ChoicesAreKept
  <1>1. ChoiceInv => ChoicesAreKept
    BY DEF ChoiceInv, KeptSettings, KeptUsers, Latest, ChoicesAreKept, Stored
  <1>2. QED
    BY <1>1, SessionInit, SessionNext, ChoiceInit, ChoiceNext, PTL DEF Spec

-----------------------------------------------------------------------------
(* Successors of tokens *)

\* A token comes after its login, and a replaced one is revoked and before its
\* successor, a token of the same login.
SuccessorsFollow(rows) ==
    \A t \in DOMAIN rows :
        /\ rows[t].login \in 1 .. t
        /\ rows[t].replaced_by # None =>
               /\ rows[t].revoked
               /\ rows[t].replaced_by \in t + 1 .. Len(rows)
               /\ rows[rows[t].replaced_by].login = rows[t].login

OwnedBy(rows, people) == \A t \in DOMAIN rows : rows[t].user \in people

\* A login that is about to issue a token has found its user.
TokenInv ==
    /\ SuccessorsFollow(tokens) /\ OwnedBy(tokens, DOMAIN users)
    /\ \A c \in Clients : pc[c] = "issue" => req[c].email \in DOMAIN users

LEMMA SuccessorFields ==
    ASSUME NEW token \in TokenRows, NEW successor
    PROVE  /\ Revoked(token).replaced_by = token.replaced_by
           /\ Expired(token).replaced_by = token.replaced_by
           /\ Replaced(token, successor).replaced_by = successor
           /\ \A user, login : Token(user, login).replaced_by = None
  BY Zenon DEF Revoked, Expired, Replaced, Token, TokenRows

LEMMA IssuedLast ==
    ASSUME NEW rows \in Seq(TokenRows), NEW people, SuccessorsFollow(rows), OwnedBy(rows, people),
           NEW user \in people, NEW later, later = Append(rows, Token(user, Len(rows) + 1))
    PROVE  SuccessorsFollow(later) /\ OwnedBy(later, people)
  <1>1. PICK n \in Nat : n = Len(rows) + 1
    OBVIOUS
  <1> PICK token : token = Token(user, n)
    OBVIOUS
  <1>2. token.user = user /\ token.login = n /\ token.replaced_by = None
    BY Zenon DEF Token
  <1>3. later = Append(rows, token)
    BY <1>1
  <1>4. /\ DOMAIN later = 1 .. n /\ Len(later) = n /\ later[n] = token
        /\ DOMAIN rows = 1 .. n - 1
        /\ \A t \in DOMAIN rows : later[t] = rows[t]
    BY <1>1, <1>3
  <1>5. OwnedBy(later, people)
    BY <1>2, <1>4 DEF OwnedBy
  <1>6. SuccessorsFollow(later)
    BY <1>1, <1>2, <1>4 DEF SuccessorsFollow
  <1>7. QED
    BY <1>5, <1>6

LEMMA RotatedInOrder ==
    ASSUME NEW rows \in Seq(TokenRows), NEW people, SuccessorsFollow(rows), OwnedBy(rows, people),
           NEW t \in DOMAIN rows, NEW later, later = Rotation(rows, t)
    PROVE  SuccessorsFollow(later) /\ OwnedBy(later, people)
  <1>1. PICK n \in Nat : n = Len(rows) + 1
    OBVIOUS
  <1>2. rows[t] \in TokenRows /\ rows[t].user \in people /\ rows[t].login \in 1 .. t
    BY DEF OwnedBy, SuccessorsFollow
  <1> PICK token : token = Token(rows[t].user, rows[t].login)
    OBVIOUS
  <1>3. /\ token.user = rows[t].user /\ token.login = rows[t].login
        /\ token.replaced_by = None
    BY Zenon DEF Token
  <1> PICK old : old = Replaced(rows[t], n)
    OBVIOUS
  <1>4. /\ old.user = rows[t].user /\ old.login = rows[t].login
        /\ old.revoked /\ old.replaced_by = n
    BY <1>1, <1>2, ReplacedFields, SuccessorFields, Zenon
  <1>5. later = Append([rows EXCEPT ![t] = old], token)
    BY <1>1, <1>4 DEF Rotation
  <1>6. /\ DOMAIN later = 1 .. n /\ Len(later) = n
        /\ DOMAIN rows = 1 .. n - 1
        /\ later[n] = token /\ later[t] = old
        /\ \A u \in DOMAIN rows \ {t} : later[u] = rows[u]
    <2>1. PICK changed : changed = [rows EXCEPT ![t] = old]
      OBVIOUS
    <2>2. /\ DOMAIN changed = 1 .. n - 1 /\ Len(changed) = n - 1 /\ changed[t] = old
          /\ \A u \in DOMAIN rows \ {t} : changed[u] = rows[u]
      BY <1>1, <2>1
    <2>3. IsList(changed) /\ later = Append(changed, token)
      BY <1>1, <1>5, <2>1, <2>2 DEF IsList
    <2>4. QED
      BY <1>1, <2>2, <2>3 DEF IsList
  <1>7. OwnedBy(later, people)
    BY <1>2, <1>3, <1>4, <1>6 DEF OwnedBy
  <1>8. ASSUME NEW u \in DOMAIN rows
        PROVE  later[u].login = rows[u].login
    BY <1>4, <1>6
  <1>9. ASSUME NEW u \in DOMAIN rows, u # t
        PROVE  /\ later[u].login \in 1 .. u
               /\ later[u].replaced_by # None =>
                      /\ later[u].revoked
                      /\ later[u].replaced_by \in u + 1 .. Len(later)
                      /\ later[later[u].replaced_by].login = later[u].login
    <2>1. /\ rows[u].login \in 1 .. u
          /\ rows[u].replaced_by # None =>
                 /\ rows[u].revoked
                 /\ rows[u].replaced_by \in u + 1 .. n - 1
                 /\ rows[rows[u].replaced_by].login = rows[u].login
      BY <1>1 DEF SuccessorsFollow
    <2>2. later[u] = rows[u]
      BY <1>6, <1>9
    <2>3. \A x \in u + 1 .. n - 1 : x \in DOMAIN rows /\ x \in u + 1 .. n
      BY <1>6
    <2>4. QED
      BY <1>6, <1>8, <2>1, <2>2, <2>3
  <1>10. SuccessorsFollow(later)
    <2>1. t \in 1 .. n - 1 /\ n \in t + 1 .. n
      BY <1>1
    <2>2. /\ later[t].login \in 1 .. t /\ later[t].revoked /\ later[t].replaced_by = n
          /\ later[n].login = later[t].login
      BY <1>2, <1>3, <1>4, <1>6
    <2>3. later[n].login \in 1 .. n /\ later[n].replaced_by = None
      BY <1>2, <1>3, <1>6, <2>1
    <2>4. \A u \in DOMAIN later : u = t \/ u = n \/ (u \in DOMAIN rows /\ u # t)
      BY <1>6
    <2>5. QED
      BY <1>6, <1>9, <2>1, <2>2, <2>3, <2>4 DEF SuccessorsFollow
  <1>11. QED
    BY <1>7, <1>10

\* Revoked or expired, by one or by many, tokens keep their places.
LEMMA KeptInOrder ==
    ASSUME NEW rows, NEW people, SuccessorsFollow(rows), OwnedBy(rows, people), NEW later,
           DOMAIN later = DOMAIN rows, Len(later) = Len(rows),
           \A t \in DOMAIN rows :
               /\ later[t].user = rows[t].user /\ later[t].login = rows[t].login
               /\ later[t].replaced_by = rows[t].replaced_by
               /\ rows[t].revoked => later[t].revoked,
           DOMAIN rows = 1 .. Len(rows), Len(rows) \in Nat
    PROVE  SuccessorsFollow(later) /\ OwnedBy(later, people)
  <1>1. OwnedBy(later, people)
    BY DEF OwnedBy
  <1>2. SuccessorsFollow(later)
    <2> SUFFICES ASSUME NEW t \in DOMAIN rows
                 PROVE  /\ later[t].login \in 1 .. t
                        /\ later[t].replaced_by # None =>
                               /\ later[t].revoked
                               /\ later[t].replaced_by \in t + 1 .. Len(later)
                               /\ later[later[t].replaced_by].login = later[t].login
      BY DEF SuccessorsFollow
    <2>1. \A x \in t + 1 .. Len(rows) : x \in DOMAIN rows
      OBVIOUS
    <2>2. QED
      BY <2>1 DEF SuccessorsFollow
  <1>3. QED
    BY <1>1, <1>2

LEMMA TokensMove ==
    ASSUME SessionInv, TokenInv, NEW c \in Clients, NEW label, NEW r, Goto(c, label, r),
           DOMAIN users \subseteq DOMAIN users', label = "issue" => r.email \in DOMAIN users,
           SuccessorsFollow(tokens'), OwnedBy(tokens', DOMAIN users')
    PROVE  TokenInv'
  <1>1. /\ pc'[c] = label /\ req'[c] = r
        /\ \A d \in Clients \ {c} : pc'[d] = pc[d] /\ req'[d] = req[d]
    BY DEF Goto, SessionInv
  <1>2. ASSUME NEW d \in Clients, pc'[d] = "issue" PROVE req'[d].email \in DOMAIN users'
    <2>1. CASE d = c
      BY <1>1, <1>2, <2>1
    <2>2. CASE d # c
      BY <1>1, <1>2, <2>2 DEF TokenInv
    <2>3. QED
      BY <2>1, <2>2
  <1>3. QED
    BY <1>2 DEF TokenInv

\* A step that leaves users and tokens alone
LEMMA TokensMoveAlone ==
    ASSUME SessionInv, TokenInv, NEW c \in Clients, NEW label, NEW r, Goto(c, label, r),
           label = "issue" => r.email \in DOMAIN users, UNCHANGED tokens, users' = users
    PROVE  TokenInv'
  <1>1. SuccessorsFollow(tokens') /\ OwnedBy(tokens', DOMAIN users')
    BY DEF TokenInv
  <1>2. QED
    BY <1>1, TokensMove

LEMMA TokenInit == Init => TokenInv
  <1> SUFFICES ASSUME Init PROVE TokenInv
    OBVIOUS
  <1>1. PICK password : users = With(<<>>, FirstUser, User(password, None, TRUE))
    BY DEF Init
  <1>2. FirstUser \in DOMAIN users
    BY <1>1 DEF With
  <1> PICK token : token = Token(FirstUser, 1)
    OBVIOUS
  <1>3. token.user = FirstUser /\ token.login = 1 /\ token.replaced_by = None
    BY Zenon DEF Token
  <1>4. DOMAIN tokens = {1} /\ tokens[1] = token
    BY DEF Init
  <1>5. SuccessorsFollow(tokens) /\ OwnedBy(tokens, DOMAIN users)
    BY <1>2, <1>3, <1>4 DEF SuccessorsFollow, OwnedBy
  <1>6. \A c \in Clients : pc[c] = "idle"
    BY DEF Init
  <1>7. QED
    BY <1>5, <1>6 DEF TokenInv

LEMMA TokenRowsAre ==
    ASSUME SessionInv
    PROVE  /\ tokens \in Seq(TokenRows) /\ DOMAIN tokens = 1 .. Len(tokens) /\ Len(tokens) \in Nat
           /\ \A t \in DOMAIN tokens : tokens[t] \in TokenRows
  BY DEF SessionInv, SoundLogins

LEMMA LoginsKeepOrder ==
    ASSUME SessionInv, TokenInv, NEW c \in Clients,
           \/ RegisterCheck(c) \/ RegisterWrite(c) \/ RegisterRefused(c)
           \/ LoginLoad(c) \/ LoginWrite(c)
    PROVE  TokenInv'
  <1>1. CASE RegisterCheck(c) \/ RegisterRefused(c)
    BY <1>1, TokensMoveAlone DEF RegisterCheck, RegisterRefused, Done, rowVars
  <1>2. CASE LoginLoad(c)
    BY <1>2, TokensMoveAlone DEF LoginLoad, CorrectLogin, Done, rowVars
  <1>3. CASE RegisterWrite(c) \/ LoginWrite(c)
    <2> PICK email : email = req[c].email
      OBVIOUS
    <2>1. /\ tokens' = Append(tokens, Token(email, Len(tokens) + 1))
          /\ email \in DOMAIN users' /\ DOMAIN users \subseteq DOMAIN users'
          /\ Goto(c, "idle", NoRequest)
      BY <1>3 DEF RegisterWrite, LoginWrite, Done, With, TokenInv
    <2>2. SuccessorsFollow(tokens) /\ OwnedBy(tokens, DOMAIN users')
      BY <2>1 DEF TokenInv, OwnedBy
    <2>3. SuccessorsFollow(tokens') /\ OwnedBy(tokens', DOMAIN users')
      BY <2>1, <2>2, TokenRowsAre, IssuedLast
    <2>4. QED
      BY <2>1, <2>3, TokensMove
  <1>4. QED
    BY <1>1, <1>2, <1>3

LEMMA RefreshesKeepOrder ==
    ASSUME SessionInv, TokenInv, NEW c \in Clients,
           RefreshLoad(c) \/ RefreshWrite(c) \/ LogoutLoad(c) \/ LogoutWrite(c)
    PROVE  TokenInv'
  <1>1. CASE RefreshLoad(c)
    BY <1>1, TokensMoveAlone DEF RefreshLoad, Done, rowVars
  <1>2. CASE LogoutLoad(c)
    BY <1>2, TokensMoveAlone DEF LogoutLoad, Begins, rowVars
  <1>3. ASSUME pc[c] \in {"rotate", "logout"}
        PROVE  /\ req[c].token \in DOMAIN tokens
               /\ req[c].seen.user = tokens[req[c].token].user
               /\ req[c].seen.login = tokens[req[c].token].login
    BY <1>3 DEF SessionInv, SoundSession, Ready, TokenAtHand
  <1>4. CASE RefreshWrite(c)
    <2> PICK t : t = req[c].token
      OBVIOUS
    <2>1. t \in DOMAIN tokens /\ tokens' = Rotation(tokens, t)
      BY <1>3, <1>4 DEF RefreshWrite, Rotation
    <2>2. Goto(c, "idle", NoRequest) /\ users' = users
      BY <1>4 DEF RefreshWrite, Done
    <2>3. SuccessorsFollow(tokens') /\ OwnedBy(tokens', DOMAIN users)
      BY <2>1, TokenRowsAre, RotatedInOrder DEF TokenInv
    <2>4. QED
      BY <2>2, <2>3, TokensMove
  <1>5. CASE LogoutWrite(c)
    <2> PICK t : t = req[c].token
      OBVIOUS
    <2> PICK token : token = Revoked(tokens[t])
      OBVIOUS
    <2>1. t \in DOMAIN tokens /\ tokens' = [tokens EXCEPT ![t] = token]
      BY <1>3, <1>5 DEF LogoutWrite
    <2>2. Goto(c, "idle", NoRequest) /\ users' = users
      BY <1>5 DEF LogoutWrite, Done
    <2>3. /\ token.user = tokens[t].user /\ token.login = tokens[t].login
          /\ token.replaced_by = tokens[t].replaced_by /\ token.revoked
      BY <2>1, TokenRowsAre, RevokedFields, SuccessorFields, Zenon
    <2>4. /\ DOMAIN tokens' = DOMAIN tokens /\ Len(tokens') = Len(tokens)
          /\ tokens'[t] = token /\ \A u \in DOMAIN tokens \ {t} : tokens'[u] = tokens[u]
      BY <2>1, TokenRowsAre
    <2>5. SuccessorsFollow(tokens') /\ OwnedBy(tokens', DOMAIN users)
      BY <2>3, <2>4, TokenRowsAre, KeptInOrder DEF TokenInv
    <2>6. QED
      BY <2>2, <2>5, TokensMove
  <1>6. QED
    BY <1>1, <1>2, <1>4, <1>5

LEMMA ProfilesKeepOrder ==
    ASSUME SessionInv, TokenInv, NEW c \in Clients,
           \/ PasswordLoad(c) \/ PasswordWrite(c) \/ ProfileLoad(c) \/ ProfileWrite(c)
           \/ SettingsLoad(c) \/ SettingsCreate(c) \/ SettingsWrite(c) \/ RequestAborted(c)
    PROVE  TokenInv'
  <1>1. CASE PasswordLoad(c)
    BY <1>1, TokensMoveAlone DEF PasswordLoad, Begins, rowVars
  <1>2. CASE ProfileLoad(c)
    BY <1>2, TokensMoveAlone DEF ProfileLoad, Begins, rowVars
  <1>3. CASE SettingsLoad(c)
    BY <1>3, TokensMoveAlone DEF SettingsLoad, Begins, rowVars
  <1>4. CASE SettingsCreate(c)
    BY <1>4, TokensMoveAlone DEF SettingsCreate, WithSettings, Done
  <1>5. CASE SettingsWrite(c) \/ RequestAborted(c)
    BY <1>5, TokensMoveAlone DEF SettingsWrite, RequestAborted, Done, rowVars
  <1>6. CASE ProfileWrite(c)
    <2>1. Goto(c, "idle", NoRequest) /\ tokens' = tokens /\ DOMAIN users' = DOMAIN users
      BY <1>6 DEF ProfileWrite, Done
    <2>2. SuccessorsFollow(tokens') /\ OwnedBy(tokens', DOMAIN users')
      BY <2>1 DEF TokenInv
    <2>3. QED
      BY <2>1, <2>2, TokensMove
  <1>7. CASE PasswordWrite(c)
    <2>1. Goto(c, "idle", NoRequest) /\ DOMAIN users' = DOMAIN users
      BY <1>7 DEF PasswordWrite, Done
    <2> PICK email : email = req[c].email
      OBVIOUS
    <2>2. tokens' = [t \in DOMAIN tokens |->
                        IF tokens[t].user = email THEN Revoked(tokens[t]) ELSE tokens[t]]
      BY <1>7 DEF PasswordWrite
    <2>3. /\ DOMAIN tokens' = DOMAIN tokens /\ Len(tokens') = Len(tokens)
          /\ \A t \in DOMAIN tokens :
                tokens'[t] = IF tokens[t].user = email THEN Revoked(tokens[t]) ELSE tokens[t]
      BY <2>2, TokenRowsAre
    <2>4. \A t \in DOMAIN tokens :
             /\ tokens'[t].user = tokens[t].user /\ tokens'[t].login = tokens[t].login
             /\ tokens'[t].replaced_by = tokens[t].replaced_by
             /\ tokens[t].revoked => tokens'[t].revoked
      BY <2>3, TokenRowsAre, RevokedFields, SuccessorFields, Zenon
    <2>5. SuccessorsFollow(tokens') /\ OwnedBy(tokens', DOMAIN users)
      BY <2>3, <2>4, TokenRowsAre, KeptInOrder DEF TokenInv
    <2>6. QED
      BY <2>1, <2>5, TokensMove
  <1>8. QED
    BY <1>1, <1>2, <1>3, <1>4, <1>5, <1>6, <1>7

LEMMA TokenNext == SessionInv /\ TokenInv /\ [Next]_vars => TokenInv'
  <1> SUFFICES ASSUME SessionInv, TokenInv, [Next]_vars PROVE TokenInv'
    OBVIOUS
  <1>1. ASSUME NEW c \in Clients, AskRegister(c) \/ AskLogin(c) \/ AskRefresh(c) PROVE TokenInv'
    BY <1>1, TokensMoveAlone DEF AskRegister, AskLogin, AskRefresh, Begins, rowVars
  <1>2. ASSUME NEW c \in Clients, PassLimit(c) \/ Limited(c) PROVE TokenInv'
    <2>1. pc[c] = "limit" => req[c].op \in {"check", "login", "refresh"}
      BY DEF SessionInv, SoundSession
    <2>2. QED
      BY <1>2, <2>1, TokensMoveAlone DEF PassLimit, Limited, Done, rowVars
  <1>3. CASE UNCHANGED <<users, tokens, pc, req>>
    BY <1>3 DEF TokenInv
  <1>4. ASSUME NEW email \in Emails, Deactivate(email) PROVE TokenInv'
    <2>1. DOMAIN users' = DOMAIN users /\ UNCHANGED <<tokens, pc, req>>
      BY <1>4 DEF Deactivate
    <2>2. QED
      BY <2>1 DEF TokenInv
  <1>5. ASSUME NEW t \in DOMAIN tokens, TokenExpires(t) PROVE TokenInv'
    <2> PICK token : token = Expired(tokens[t])
      OBVIOUS
    <2>1. tokens' = [tokens EXCEPT ![t] = token] /\ UNCHANGED <<users, pc, req>>
      BY <1>5 DEF TokenExpires
    <2>2. /\ token.user = tokens[t].user /\ token.login = tokens[t].login
          /\ token.replaced_by = tokens[t].replaced_by
      BY TokenRowsAre, ExpiredFields, SuccessorFields, Zenon
    <2>3. tokens[t].revoked => token.revoked
      BY TokenRowsAre, ExpiredFields, Zenon
    <2>4. /\ DOMAIN tokens' = DOMAIN tokens /\ Len(tokens') = Len(tokens)
          /\ tokens'[t] = token /\ \A u \in DOMAIN tokens \ {t} : tokens'[u] = tokens[u]
      BY <2>1, TokenRowsAre
    <2>5. \A u \in DOMAIN tokens :
             /\ tokens'[u].user = tokens[u].user /\ tokens'[u].login = tokens[u].login
             /\ tokens'[u].replaced_by = tokens[u].replaced_by
             /\ tokens[u].revoked => tokens'[u].revoked
      BY <2>2, <2>3, <2>4, Zenon
    <2>6. SuccessorsFollow(tokens') /\ OwnedBy(tokens', DOMAIN users)
      BY <2>4, <2>5, TokenRowsAre, KeptInOrder DEF TokenInv
    <2>7. QED
      BY <2>1, <2>6 DEF TokenInv
  <1>6. QED
    BY <1>1, <1>2, <1>3, <1>4, <1>5, LoginsKeepOrder, RefreshesKeepOrder, ProfilesKeepOrder
    DEF Next, vars, rowVars, CounterExpires

-----------------------------------------------------------------------------
(* The values of the settings *)

\* What each column takes
Takes(field) ==
    CASE field = "forecast_default_horizon_days" -> {7, 15, 30}
      [] field = "forecast_min_history_days" -> 1 .. 365
      [] field = "dashboard_default_date_range_days" -> 7 .. 365
      [] field = "reports_default_format" -> {"json", "csv"}
      [] field = "inventory_default_minimum_stock" -> 0 .. StockLimit

SoundValues(values) == \A field \in DOMAIN values : values[field] \in Takes(field)

LEMMA StockFits ==
    ASSUME NEW stock, stock.digits \in Int, stock.decimals \in Nat, stock.decimals <= 3,
           ValidRange(stock.digits, 0, StockLimit \div 10 ^ (3 - stock.decimals))
    PROVE  stock.digits * 10 ^ (3 - stock.decimals) \in 0 .. StockLimit
  <1>1. PICK scale : scale = 10 ^ (3 - stock.decimals) /\ scale \in Scales
    <2>1. 3 - stock.decimals \in 0 .. 3
      OBVIOUS
    <2>2. QED
      BY <2>1, PowersOfTen, Zenon
  <1>2. PICK digits : digits = stock.digits
    OBVIOUS
  <1>3. digits \in 0 .. (StockLimit \div scale)
    BY <1>1, <1>2, Zenon DEF ValidRange
  <1>4. digits * scale \in 0 .. StockLimit
    <2>1. StockLimit \in Nat
      BY SettingsRulesAssumption
    <2>2. scale = 1 \/ scale = 10 \/ scale = 100 \/ scale = 1000
      BY <1>1 DEF Scales
    <2>3. QED
      BY <1>3, <2>1, <2>2
  <1>5. QED
    BY <1>1, <1>2, <1>4, Zenon

LEMMA DefaultsAreSound == SoundValues(DefaultSettings)
  BY SettingsRulesAssumption DEF DefaultSettings, SoundValues, Takes

LEMMA AskedValues == \A ask \in Asked : SoundValues(ask)
  <1>1. SoundValues(<<>>)
    BY DEF SoundValues
  <1>2. ASSUME NEW category \in DOMAIN CategoryFields
        PROVE  SoundValues(Restrict(DefaultSettings, CategoryFields[category]))
    <2>1. CategoryFields[category] \subseteq DOMAIN DefaultSettings
      BY DefaultFields DEF Fields
    <2>2. QED
      BY <2>1, DefaultsAreSound, Zenon DEF Restrict, SoundValues
  <1>3. ASSUME NEW values \in Updates, ValidUpdate(values, Fields)
        PROVE  SoundValues(NormalizedUpdate(values))
    <2> SUFFICES ASSUME NEW field \in DOMAIN values
                 PROVE  StoredSetting(field, values[field]) \in Takes(field)
      BY DEF NormalizedUpdate, SoundValues
    <2>1. ValidSetting(field, values[field]) /\ field \in Fields
      BY <1>3 DEF ValidUpdate
    <2>2. CASE field = "inventory_default_minimum_stock"
      <3> PICK stock : stock = values.inventory_default_minimum_stock
        OBVIOUS
      <3>1. stock.digits \in Int /\ stock.decimals \in Nat
        BY <2>2, AccountsAssumption
      <3>2. /\ stock.decimals <= 3
            /\ ValidRange(stock.digits, 0, StockLimit \div 10 ^ (3 - stock.decimals))
        BY <2>1, <2>2, Zenon DEF ValidSetting
      <3>3. StoredSetting(field, values[field]) = stock.digits * 10 ^ (3 - stock.decimals)
        BY <2>2, Zenon DEF StoredSetting
      <3>4. Takes(field) = 0 .. StockLimit
        BY <2>2, Zenon DEF Takes
      <3>5. QED
        BY <3>1, <3>2, <3>3, <3>4, StockFits
    <2>3. CASE field # "inventory_default_minimum_stock"
      BY <2>1, <2>3, FieldsAre DEF ValidSetting, ValidRange, StoredSetting, Takes
    <2>4. QED
      BY <2>2, <2>3
  <1>4. QED
    BY <1>1, <1>2, <1>3, DefaultsAreSound, Zenon DEF Asked

ValueInv ==
    /\ \A email \in DOMAIN settings : SoundValues(settings[email])
    /\ \A c \in Clients : pc[c] \in {"create", "set"} => SoundValues(req[c].ask)

LEMMA ValuesMove ==
    ASSUME SessionInv, ValueInv, NEW c \in Clients, NEW label, NEW r, Goto(c, label, r),
           label \in {"create", "set"} => SoundValues(r.ask),
           \A email \in DOMAIN settings' : SoundValues(settings'[email])
    PROVE  ValueInv'
  <1>1. /\ pc'[c] = label /\ req'[c] = r
        /\ \A d \in Clients \ {c} : pc'[d] = pc[d] /\ req'[d] = req[d]
    BY DEF Goto, SessionInv
  <1>2. ASSUME NEW d \in Clients, pc'[d] \in {"create", "set"} PROVE SoundValues(req'[d].ask)
    <2>1. CASE d = c
      BY <1>1, <1>2, <2>1
    <2>2. CASE d # c
      BY <1>1, <1>2, <2>2 DEF ValueInv
    <2>3. QED
      BY <2>1, <2>2
  <1>3. QED
    BY <1>2, Zenon DEF ValueInv

LEMMA ValuesMoveAlone ==
    ASSUME SessionInv, ValueInv, NEW c \in Clients, NEW label, NEW r, Goto(c, label, r),
           label # "create" /\ label # "set", settings' = settings
    PROVE  ValueInv'
  <1>1. \A email \in DOMAIN settings' : SoundValues(settings'[email])
    BY DEF ValueInv
  <1>2. QED
    BY <1>1, ValuesMove

LEMMA SettingsKeepValues ==
    ASSUME SessionInv, ChoiceInv, ValueInv, NEW c \in Clients,
           SettingsLoad(c) \/ SettingsCreate(c) \/ SettingsWrite(c)
    PROVE  ValueInv'
  <1>1. CASE SettingsLoad(c)
    <2>1. PICK email \in Emails, ask \in Asked :
             \/ Begins(c, "set", [NoRequest EXCEPT !.email = email, !.ask = ask,
                                                  !.seen = settings[email]])
             \/ Begins(c, "create", [NoRequest EXCEPT !.email = email, !.ask = ask])
      BY <1>1 DEF SettingsLoad
    <2>2. PICK label, r : /\ Goto(c, label, r) /\ UNCHANGED settings
                          /\ r.ask = ask
      <3>1. ASSUME NEW row, NEW r, r = [NoRequest EXCEPT !.email = email, !.ask = ask, !.seen = row]
            PROVE  r.ask = ask
        BY <3>1, NoRequestFields DEF ReqFields
      <3>2. ASSUME NEW r, r = [NoRequest EXCEPT !.email = email, !.ask = ask] PROVE r.ask = ask
        BY <3>2, NoRequestFields DEF ReqFields
      <3>3. QED
        BY <2>1, <3>1, <3>2, Zenon DEF Begins, rowVars
    <2>3. SoundValues(r.ask)
      BY <2>2, AskedValues
    <2>4. \A e \in DOMAIN settings' : SoundValues(settings'[e])
      BY <2>2 DEF ValueInv
    <2>5. QED
      BY <2>2, <2>3, <2>4, ValuesMove
  <1>2. CASE SettingsCreate(c)
    <2> PICK email : email = req[c].email
      OBVIOUS
    <2> PICK ask : ask = req[c].ask
      OBVIOUS
    <2>1. settings' = Inserted(email) /\ WithSettings(c, ask, settings'[email])
      BY <1>2 DEF SettingsCreate
    <2>2. SoundValues(ask)
      BY <1>2 DEF SettingsCreate, ValueInv
    <2>3. \A e \in DOMAIN settings' : SoundValues(settings'[e])
      BY <2>1, DefaultsAreSound, Zenon DEF Inserted, With, ValueInv
    <2>4. CASE Goto(c, "idle", NoRequest)
      BY <2>3, <2>4, ValuesMove
    <2>5. CASE Goto(c, "set", [req[c] EXCEPT !.seen = settings'[email], !.ask = ask])
      <3> PICK r : r = [req[c] EXCEPT !.seen = settings'[email], !.ask = ask]
        OBVIOUS
      <3>1. DOMAIN req[c] = ReqFields
        BY DEF SessionInv, SoundSession
      <3>2. r.ask = ask
        BY <3>1 DEF ReqFields
      <3>3. QED
        BY <2>2, <2>3, <2>5, <3>2, ValuesMove
    <2>6. QED
      BY <2>1, <2>4, <2>5 DEF WithSettings, Done
  <1>3. CASE SettingsWrite(c)
    <2> PICK r : r = req[c]
      OBVIOUS
    <2> PICK row : row = Written(settings[r.email], r)
      OBVIOUS
    <2>1. /\ settings' = [settings EXCEPT ![r.email] = row] /\ Goto(c, "idle", NoRequest)
          /\ pc[c] = "set"
      BY <1>3 DEF SettingsWrite, Done
    <2>2. r.email \in DOMAIN settings
      BY <2>1 DEF ChoiceInv, Aims
    <2>3. SoundValues(r.ask) /\ SoundValues(settings[r.email])
      BY <2>1, <2>2 DEF ValueInv
    <2>4. SoundValues(row)
      BY <2>3, Zenon DEF Written, Changed, SoundValues
    <2>5. \A e \in DOMAIN settings' : SoundValues(settings'[e])
      BY <2>1, <2>4 DEF ValueInv
    <2>6. QED
      BY <2>1, <2>5, ValuesMove
  <1>4. QED
    BY <1>1, <1>2, <1>3

LEMMA ValueInit == Init => ValueInv
  BY DEF Init, ValueInv

LEMMA ValueNext == SessionInv /\ ChoiceInv /\ ValueInv /\ [Next]_vars => ValueInv'
  <1> SUFFICES ASSUME SessionInv, ChoiceInv, ValueInv, [Next]_vars PROVE ValueInv'
    OBVIOUS
  <1>1. ASSUME NEW c \in Clients, AskRegister(c) \/ AskLogin(c) \/ AskRefresh(c) PROVE ValueInv'
    BY <1>1, ValuesMoveAlone DEF AskRegister, AskLogin, AskRefresh, Begins, rowVars
  <1>2. ASSUME NEW c \in Clients, PassLimit(c) \/ Limited(c) PROVE ValueInv'
    <2>1. pc[c] = "limit" => req[c].op \in {"check", "login", "refresh"}
      BY DEF SessionInv, SoundSession
    <2>2. QED
      BY <1>2, <2>1, ValuesMoveAlone DEF PassLimit, Limited, Done, rowVars
  <1>3. ASSUME NEW c \in Clients,
               \/ RegisterCheck(c) \/ RegisterWrite(c) \/ RegisterRefused(c)
               \/ LoginLoad(c) \/ LoginWrite(c)
        PROVE  ValueInv'
    BY <1>3, ValuesMoveAlone
    DEF RegisterCheck, RegisterWrite, RegisterRefused, LoginLoad, LoginWrite, Done, rowVars
  <1>4. ASSUME NEW c \in Clients, RefreshLoad(c) \/ RefreshWrite(c) \/ LogoutLoad(c) \/ LogoutWrite(c)
        PROVE  ValueInv'
    BY <1>4, ValuesMoveAlone
    DEF RefreshLoad, RefreshWrite, LogoutLoad, LogoutWrite, Begins, Done, rowVars
  <1>5. ASSUME NEW c \in Clients, PasswordLoad(c) \/ PasswordWrite(c) \/ ProfileLoad(c) \/ ProfileWrite(c)
        PROVE  ValueInv'
    BY <1>5, ValuesMoveAlone
    DEF PasswordLoad, PasswordWrite, ProfileLoad, ProfileWrite, Begins, Done, rowVars
  <1>6. ASSUME NEW c \in Clients, RequestAborted(c) PROVE ValueInv'
    BY <1>6, ValuesMoveAlone DEF RequestAborted, Done, rowVars
  <1>7. CASE UNCHANGED <<settings, pc, req>>
    BY <1>7 DEF ValueInv
  <1>8. QED
    BY <1>1, <1>2, <1>3, <1>4, <1>5, <1>6, <1>7, SettingsKeepValues
    DEF Next, vars, rowVars, CounterExpires, TokenExpires, Deactivate

\* Whatever clients send, a stored setting is one that its field takes; and however
\* requests interleave, a token belongs to a user, and one that was replaced is
\* revoked and leads to a later token of the same login.
THEOREM AccountsTypes == Spec => []TypeOK
  <1>1. SessionInv /\ TokenInv /\ ChoiceInv /\ ValueInv => TypeOK
    <2> SUFFICES ASSUME SessionInv, TokenInv, ChoiceInv, ValueInv PROVE TypeOK
      OBVIOUS
    <2>1. \A email \in DOMAIN settings : \A field \in Fields : settings[email][field] \in Takes(field)
      BY DEF ValueInv, ChoiceInv, KeptSettings, SoundValues
    <2>2. ASSUME NEW email \in DOMAIN settings
          PROVE  LET row == settings[email] IN
                 /\ row.forecast_default_horizon_days \in {7, 15, 30}
                 /\ row.forecast_min_history_days \in 1 .. 365
                 /\ row.inventory_default_minimum_stock \in 0 .. StockLimit
                 /\ row.reports_default_format \in {"json", "csv"}
                 /\ row.dashboard_default_date_range_days \in 7 .. 365
      BY <2>1, FieldsAre DEF Takes
    <2>3. \A t \in DOMAIN tokens :
             /\ tokens[t].user \in DOMAIN users
             /\ tokens[t].login \in 1 .. t
             /\ tokens[t].replaced_by # None =>
                    /\ tokens[t].revoked
                    /\ tokens[t].replaced_by \in t + 1 .. Len(tokens)
                    /\ tokens[tokens[t].replaced_by].login = tokens[t].login
      BY Zenon DEF TokenInv, OwnedBy, SuccessorsFollow
    <2>4. QED
      BY <2>2, <2>3, Zenon DEF TypeOK
  <1>2. QED
    BY <1>1, SessionInit, SessionNext, TokenInit, TokenNext, ChoiceInit, ChoiceNext,
       ValueInit, ValueNext, PTL DEF Spec
=============================================================================
