------------------------------ MODULE Accounts ------------------------------
(***************************************************************************)
(* AuthService, UserProfileService and SystemSettingsService over          *)
(* PostgreSQL: users, the refresh tokens of their sessions and their       *)
(* settings, under concurrent requests.  Registration, login and refresh   *)
(* pass the rate limiter first.  What a request loads it holds in its      *)
(* session, without a lock, until it writes.                               *)
(***************************************************************************)
EXTENDS RateLimiter, SettingsRules, Sequences, FiniteSets, Functions

CONSTANTS
    Clients,          \* the concurrent requests
    None,             \* no token, no row, no category
    FirstUser,        \* who has registered, and is logged in, at the start
    Passwords, Names, \* passwords that are strong enough; full names
    Updates,          \* what clients send to PATCH /settings
    MaxRequests       \* bound: so many requests begin

ASSUME AccountsAssumption ==
    /\ FirstUser \in Emails /\ MaxRequests \in Nat
    /\ \A values \in Updates : "inventory_default_minimum_stock" \in DOMAIN values =>
           LET stock == values.inventory_default_minimum_stock
           IN  stock.digits \in Int /\ stock.decimals \in Nat

VARIABLES
    users,      \* table users: [some Emails -> row]
    tokens,     \* table auth_refresh_tokens, oldest first
    settings,   \* table user_system_settings: [some Emails -> row]
    begun,      \* the number of requests so far
    pc, req,    \* where each request is; its session
    closed,     \* history: the logins that a logout or a new password ended
    raced,      \* history: the logins of a token that two requests used at once
    chosen      \* history: what a field was last changed to: [some <<email, field>> -> value]

rowVars == <<users, tokens, settings>>
history == <<closed, raced, chosen>>
vars == <<limiterVars, rowVars, begun, pc, req, history>>

\* A table, or the history, with value at x
With(f, x, value) == [y \in DOMAIN f \cup {x} |-> IF y = x THEN value ELSE f[y]]

User(password, name, active) ==
    [hashed_password |-> password, full_name |-> name, is_active |-> active]

\* login is the token that the login issued, of which this one is a successor
Token(user, login) ==
    [user |-> user, login |-> login, revoked |-> FALSE, expired |-> FALSE, replaced_by |-> None]

Revoked(token) == [token EXCEPT !.revoked = TRUE]
Replaced(token, successor) == [token EXCEPT !.revoked = TRUE, !.replaced_by = successor]
Expired(token) == [token EXCEPT !.expired = TRUE]

NoRequest == [op |-> None, email |-> None, password |-> None, token |-> None,
              seen |-> None, ask |-> None, limits |-> <<>>]

Init ==
    /\ RateLimiterInit
    /\ \E password \in Passwords : users = With(<<>>, FirstUser, User(password, None, TRUE))
    /\ tokens = <<Token(FirstUser, 1)>>
    /\ settings = <<>>
    /\ begun = 0
    /\ pc = [c \in Clients |-> "idle"]
    /\ req = [c \in Clients |-> NoRequest]
    /\ closed = {} /\ raced = {} /\ chosen = <<>>

Goto(c, label, request) ==
    /\ pc' = [pc EXCEPT ![c] = label]
    /\ req' = [req EXCEPT ![c] = request]

\* The request is answered; its session is closed
Done(c) == Goto(c, "idle", NoRequest)

Begins(c, label, request) ==
    /\ pc[c] = "idle"
    /\ begun < MaxRequests
    /\ begun' = begun + 1
    /\ Goto(c, label, request)
    /\ UNCHANGED <<limiterVars, rowVars, history>>

-----------------------------------------------------------------------------
(* The rate limits *)

AskRegister(c) == \E email \in Emails, password \in Passwords, ip \in Addresses :
    Begins(c, "limit", [NoRequest EXCEPT !.op = "check", !.email = email,
               !.password = password, !.limits = RegistrationLimits(ip)])

AskLogin(c) == \E email \in Emails, password \in Passwords, ip \in Addresses :
    Begins(c, "limit", [NoRequest EXCEPT !.op = "login", !.email = email,
               !.password = password, !.limits = LoginLimits(ip, email)])

AskRefresh(c) == \E t \in DOMAIN tokens, ip \in Addresses :
    Begins(c, "limit", [NoRequest EXCEPT !.op = "refresh", !.token = t,
               !.limits = RefreshLimits(ip)])

\* _enforce: one limit after the other
PassLimit(c) ==
    LET rest == Tail(req[c].limits) IN
    /\ pc[c] = "limit"
    /\ Admit(Head(req[c].limits))
    /\ IF rest = <<>> THEN Goto(c, req[c].op, [req[c] EXCEPT !.limits = <<>>])
       ELSE Goto(c, "limit", [req[c] EXCEPT !.limits = rest])
    /\ UNCHANGED <<rowVars, begun, history>>

Limited(c) ==
    /\ pc[c] = "limit"
    /\ Reject(Head(req[c].limits)) \/ Unavailable(Head(req[c].limits))
    /\ Done(c)
    /\ UNCHANGED <<rowVars, begun, history>>

-----------------------------------------------------------------------------
(* Sessions *)

\* email_exists
RegisterCheck(c) ==
    /\ pc[c] = "check"
    /\ IF req[c].email \in DOMAIN users THEN Done(c) ELSE Goto(c, "register", req[c])
    /\ UNCHANGED <<limiterVars, rowVars, begun, history>>

\* The user and the first token in one transaction
RegisterWrite(c) ==
    LET email == req[c].email IN
    /\ pc[c] = "register"
    /\ email \notin DOMAIN users
    /\ users' = With(users, email, User(req[c].password, None, TRUE))
    /\ tokens' = Append(tokens, Token(email, Len(tokens) + 1))
    /\ Done(c)
    /\ UNCHANGED <<limiterVars, settings, begun, history>>

\* The unique index on the email: DuplicateEmailError
RegisterRefused(c) ==
    /\ pc[c] = "register"
    /\ req[c].email \in DOMAIN users
    /\ Done(c)
    /\ UNCHANGED <<limiterVars, rowVars, begun, history>>

CorrectLogin(r) ==
    /\ r.email \in DOMAIN users
    /\ users[r.email].hashed_password = r.password
    /\ users[r.email].is_active

LoginLoad(c) ==
    /\ pc[c] = "login"
    /\ IF CorrectLogin(req[c]) THEN Goto(c, "issue", req[c]) ELSE Done(c)
    /\ UNCHANGED <<limiterVars, rowVars, begun, history>>

LoginWrite(c) ==
    /\ pc[c] = "issue"
    /\ tokens' = Append(tokens, Token(req[c].email, Len(tokens) + 1))
    /\ Done(c)
    /\ UNCHANGED <<limiterVars, users, settings, begun, history>>

\* A token that was replaced is as good as its successor.
UnexpiredToken(token) == ~token.expired

\* _get_valid_refresh_token
ValidToken(token) == ~token.revoked /\ ~token.expired

RefreshLoad(c) ==
    LET token == tokens[req[c].token] IN
    /\ pc[c] = "refresh"
    /\ IF ValidToken(token) /\ users[token.user].is_active
       THEN Goto(c, "rotate", [req[c] EXCEPT !.seen = token])
       ELSE Done(c)
    /\ UNCHANGED <<limiterVars, rowVars, begun, history>>

\* Somebody else has used the token since this request loaded it
UsedMeanwhile(c) == tokens[req[c].token].revoked /\ ~req[c].seen.revoked

Race(c) == raced' = IF UsedMeanwhile(c) THEN raced \cup {req[c].seen.login} ELSE raced

\* rotate_refresh_token
RefreshWrite(c) ==
    LET t == req[c].token IN
    /\ pc[c] = "rotate"
    /\ tokens' = Append([tokens EXCEPT ![t] = Replaced(@, Len(tokens) + 1)],
                        Token(req[c].seen.user, req[c].seen.login))
    /\ Race(c)
    /\ Done(c)
    /\ UNCHANGED <<limiterVars, users, settings, begun, closed, chosen>>

\* No rate limit, no user
LogoutLoad(c) == \E t \in DOMAIN tokens :
    /\ ValidToken(tokens[t])
    /\ Begins(c, "logout", [NoRequest EXCEPT !.token = t, !.seen = tokens[t]])

\* revoke_refresh_token: replaced_by_token_id was NULL and stays as it is
LogoutWrite(c) ==
    /\ pc[c] = "logout"
    /\ tokens' = [tokens EXCEPT ![req[c].token] = Revoked(@)]
    /\ closed' = closed \cup {req[c].seen.login}
    /\ Race(c)
    /\ Done(c)
    /\ UNCHANGED <<limiterVars, users, settings, begun, chosen>>

-----------------------------------------------------------------------------
(* The profile.  The access token's user is loaded once per request        *)

Active(email) == email \in DOMAIN users /\ users[email].is_active

PasswordLoad(c) == \E email \in Emails, password \in Passwords :
    /\ Active(email)
    /\ users[email].hashed_password # password
    /\ Begins(c, "password", [NoRequest EXCEPT !.email = email, !.password = password])

\* change_password: the hash is salted, hence always another one
PasswordWrite(c) ==
    LET email == req[c].email IN
    /\ pc[c] = "password"
    /\ users' = [users EXCEPT ![email] = [@ EXCEPT !.hashed_password = req[c].password]]
    /\ tokens' = [t \in DOMAIN tokens |->
                     IF tokens[t].user = email THEN Revoked(tokens[t]) ELSE tokens[t]]
    /\ closed' = closed \cup {tokens[t].login : t \in {u \in DOMAIN tokens : tokens[u].user = email}}
    /\ chosen' = With(chosen, <<email, "password">>, req[c].password)
    /\ Done(c)
    /\ UNCHANGED <<limiterVars, settings, begun, raced>>

ProfileLoad(c) == \E email \in Emails, name \in Names \cup {None} :
    /\ Active(email)
    /\ Begins(c, "profile", [NoRequest EXCEPT !.email = email, !.ask = name, !.seen = users[email]])

\* A name that is the loaded one is not in the UPDATE
ProfileWrite(c) ==
    LET email == req[c].email
        changed == req[c].ask # req[c].seen.full_name
    IN
    /\ pc[c] = "profile"
    /\ users' = IF changed THEN [users EXCEPT ![email] = [@ EXCEPT !.full_name = req[c].ask]]
                ELSE users
    /\ chosen' = IF changed THEN With(chosen, <<email, "full_name">>, req[c].ask) ELSE chosen
    /\ Done(c)
    /\ UNCHANGED <<limiterVars, tokens, settings, begun, closed, raced>>

-----------------------------------------------------------------------------
(* Settings: the row is created when it is first asked for                 *)

\* GET: only get_or_create, nothing is asked for; update, reset: the new values
Asked ==
    {<<>>}
    \cup {NormalizedUpdate(values) : values \in {u \in Updates : ValidUpdate(u, Fields)}}
    \cup {Restrict(DefaultSettings, CategoryFields[category]) : category \in DOMAIN CategoryFields}
    \cup {DefaultSettings}

WithSettings(c, ask, row) ==
    IF ask = <<>> THEN Done(c)
    ELSE Goto(c, "set", [req[c] EXCEPT !.seen = row, !.ask = ask])

SettingsLoad(c) == \E email \in Emails, ask \in Asked :
    /\ Active(email)
    /\ email \in DOMAIN settings => ask # <<>>
    /\ IF email \in DOMAIN settings
       THEN Begins(c, "set", [NoRequest EXCEPT !.email = email, !.ask = ask, !.seen = settings[email]])
       ELSE Begins(c, "create", [NoRequest EXCEPT !.email = email, !.ask = ask])

\* INSERT with ON CONFLICT DO UPDATE.
InsertedOver(email) == With(settings, email, DefaultSettings)

\* INSERT with ON CONFLICT DO NOTHING: the row that is there stays
Inserted(email) ==
    IF email \in DOMAIN settings THEN settings ELSE With(settings, email, DefaultSettings)

\* Committed; the row, be it somebody else's, is loaded
SettingsCreate(c) ==
    LET email == req[c].email IN
    /\ pc[c] = "create"
    /\ settings' = Inserted(email)
    /\ WithSettings(c, req[c].ask, settings'[email])
    /\ UNCHANGED <<limiterVars, users, tokens, begun, history>>

\* Only fields that differ from the loaded row are in the UPDATE
Changed(r) == {field \in DOMAIN r.ask : r.ask[field] # r.seen[field]}

Written(row, r) == [field \in DOMAIN row |-> IF field \in Changed(r) THEN r.ask[field] ELSE row[field]]

SettingsWrite(c) ==
    LET r == req[c]
        keys == {r.email} \X Changed(r)
    IN
    /\ pc[c] = "set"
    /\ settings' = [settings EXCEPT ![r.email] = Written(@, r)]
    /\ chosen' = [key \in DOMAIN chosen \cup keys |->
                     IF key \in keys THEN r.ask[key[2]] ELSE chosen[key]]
    /\ Done(c)
    /\ UNCHANGED <<limiterVars, users, tokens, begun, closed, raced>>

-----------------------------------------------------------------------------
(* Around the requests *)

\* The API process dies, or the database ends the request
RequestAborted(c) ==
    /\ pc[c] # "idle"
    /\ Done(c)
    /\ UNCHANGED <<limiterVars, rowVars, begun, history>>

TokenExpires(t) ==
    /\ ~tokens[t].expired
    /\ tokens' = [tokens EXCEPT ![t] = Expired(@)]
    /\ UNCHANGED <<limiterVars, users, settings, begun, pc, req, history>>

\* By hand: no code clears is_active
Deactivate(email) ==
    /\ Active(email)
    /\ users' = [users EXCEPT ![email] = [@ EXCEPT !.is_active = FALSE]]
    /\ UNCHANGED <<limiterVars, tokens, settings, begun, pc, req, history>>

CounterExpires(k) == WindowEnds(k) /\ UNCHANGED <<rowVars, begun, pc, req, history>>

Next ==
    \/ \E c \in Clients :
           \/ AskRegister(c) \/ AskLogin(c) \/ AskRefresh(c) \/ PassLimit(c) \/ Limited(c)
           \/ RegisterCheck(c) \/ RegisterWrite(c) \/ RegisterRefused(c)
           \/ LoginLoad(c) \/ LoginWrite(c)
           \/ RefreshLoad(c) \/ RefreshWrite(c) \/ LogoutLoad(c) \/ LogoutWrite(c)
           \/ PasswordLoad(c) \/ PasswordWrite(c) \/ ProfileLoad(c) \/ ProfileWrite(c)
           \/ SettingsLoad(c) \/ SettingsCreate(c) \/ SettingsWrite(c)
           \/ RequestAborted(c)
    \/ \E t \in DOMAIN tokens : TokenExpires(t)
    \/ \E email \in Emails : Deactivate(email)
    \/ \E k \in Keys : CounterExpires(k)

Spec == Init /\ [][Next]_vars

-----------------------------------------------------------------------------
(* Properties *)

\* Rows have their types: settings are among the values that their fields take,
\* whatever was sent; tokens belong to users; a replaced token is revoked, and
\* its successor is a later token of the same login.
TypeOK ==
    /\ \A email \in DOMAIN settings :
        LET row == settings[email] IN
        /\ row.forecast_default_horizon_days \in {7, 15, 30}
        /\ row.forecast_min_history_days \in 1 .. 365
        /\ row.inventory_default_minimum_stock \in 0 .. StockLimit
        /\ row.reports_default_format \in {"json", "csv"}
        /\ row.dashboard_default_date_range_days \in 7 .. 365
    /\ \A t \in DOMAIN tokens :
        /\ tokens[t].user \in DOMAIN users
        /\ tokens[t].login \in 1 .. t
        /\ tokens[t].replaced_by # None =>
               /\ tokens[t].revoked
               /\ tokens[t].replaced_by \in t + 1 .. Len(tokens)
               /\ tokens[tokens[t].replaced_by].login = tokens[t].login

LiveTokens(login) == {t \in DOMAIN tokens : tokens[t].login = login /\ ~tokens[t].revoked}

\* A login has one token that can be refreshed, however often it was refreshed,
\* and none after a logout or a change of the password, unless two requests used
\* one of its tokens at the same time.
OneSessionPerLogin == \A login \in DOMAIN tokens \ raced :
    Cardinality(LiveTokens(login)) <= IF login \in closed THEN 0 ELSE 1

Stored(email, field, default) ==
    IF <<email, field>> \in DOMAIN chosen THEN chosen[<<email, field>>] ELSE default

\* Every setting, name and password is what the last request that changed it
\* chose: no concurrent request, be it about another field or about creating the
\* row, brings an older value back.
ChoicesAreKept ==
    /\ \A email \in DOMAIN settings, field \in Fields :
           settings[email][field] = Stored(email, field, DefaultSettings[field])
    /\ \A email \in DOMAIN users :
           /\ users[email].full_name = Stored(email, "full_name", None)
           /\ users[email].hashed_password
                  = Stored(email, "password", users[email].hashed_password)
=============================================================================
