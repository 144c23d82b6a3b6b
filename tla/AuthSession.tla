---------------------------- MODULE AuthSession ----------------------------
(***************************************************************************)
(* Accounts and sessions: the handlers of internal/api/authHandler.go, the *)
(* tables behind internal/repository/user_repository.go and                *)
(* refresh_token-repository.go, the tokens of internal/auth, the check of  *)
(* internal/middleware/auth-middleware.go and the nightly purge of         *)
(* internal/Tasks/cleanup.go.                                              *)
(*                                                                         *)
(* Every request is served once, one SQL statement per step, and all       *)
(* requests in flight interleave.  A request creates at most one user and  *)
(* at most one pair of tokens, so its number also names them: user u is    *)
(* the one that signup u created, token t the pair that request t handed   *)
(* out.  What a row says is then fixed by the request that inserted it.    *)
(*                                                                         *)
(* The pool, PostgreSQL, the browsers and time are the environment.  A     *)
(* statement may report an error, with or without its effect (the context  *)
(* of a request ends after five seconds), a handler may die with its       *)
(* process, and an answer may be lost.                                     *)
(***************************************************************************)
EXTENDS Integers, FiniteSets

CONSTANTS
  MaxRequests,  \* bound: how many requests are sent
  Browsers,     \* clients, each with a cookie jar
  Names,        \* user names
  Emails,       \* email addresses
  Passwords,    \* passwords
  Contexts,     \* where requests come from
  AgentOf,      \* context -> the text of its User-Agent header
  AddrOf,       \* context -> the text of its address
  IPs,          \* the texts that net.ParseIP accepts
  None,         \* no name, no browser, a nil net.IP, ...
  MaxFaults,    \* bound: how many statements, handlers or answers fail
  MaxEvents,    \* bound: how many pairs of tokens grow old and users are banned
  Plan          \* bound: request -> what it may ask, and from where

Kinds == {"signup", "login", "refresh", "logout", "ws"}

NoToken  == 0
Requests == 1..MaxRequests
Maybe    == Requests \cup {NoToken}

\* What a client asks.  A name of None stands for every payload that fails the
\* validation of the handler.
Question ==
  [kind : Kinds, browser : Browsers, ctx : Contexts, name : Names \cup {None},
   email : Emails \cup {None}, password : Passwords \cup {None}]

ASSUME AuthAssumption ==
  /\ MaxRequests \in Nat /\ MaxFaults \in Nat /\ MaxEvents \in Nat
  /\ Plan \in [Requests -> SUBSET Question]
  /\ None \notin IPs
  /\ None \notin Browsers

VARIABLES
  (* the database *)
  users,           \* rows of users
  banned,          \* users with is_banned
  refresh_tokens,  \* token -> "absent", "valid" or "revoked"
  (* time *)
  age,             \* pair of tokens -> "fresh", "lapsed" (the access token is past its
                   \* fifteen minutes) or "expired" (the refresh token past its week)
  (* the handlers *)
  at,              \* request -> where its handler is
  asked,           \* request -> what was sent
  user,            \* request -> the user its handler works for
  status,          \* request -> the HTTP status of the answer
  (* the clients *)
  jar,             \* browser -> its cookies
  (* history *)
  family,          \* token -> the login or signup its session began with
  faults           \* how many statements, handlers or answers have failed

tables   == <<users, banned, refresh_tokens>>
handlers == <<at, asked, user, status>>
vars     == <<tables, age, handlers, jar, family, faults>>

\* A question, the cookies that came with it and who was banned when it was sent.
Request ==
  [kind : Kinds \cup {"none"}, browser : Browsers \cup {None},
   ctx : Contexts \cup {None}, name : Names \cup {None}, email : Emails \cup {None},
   password : Passwords \cup {None}, access : Maybe, refresh : Maybe,
   barred : SUBSET Requests]

Sent(q, access, refresh, barred) ==
  [kind |-> q.kind, browser |-> q.browser, ctx |-> q.ctx, name |-> q.name,
   email |-> q.email, password |-> q.password, access |-> access,
   refresh |-> refresh, barred |-> barred]

NoQuestion ==
  [kind |-> "none", browser |-> None, ctx |-> None, name |-> None, email |-> None,
   password |-> None]

NoRequest == Sent(NoQuestion, NoToken, NoToken, {})

Places == {"idle", "byName", "byEmail", "create", "save", "lookup", "revoke",
           "access", "answer", "done"}

TypeOK ==
  /\ users \in SUBSET Requests /\ banned \in SUBSET users
  /\ refresh_tokens \in [Requests -> {"absent", "valid", "revoked"}]
  /\ age \in [Requests -> {"fresh", "lapsed", "expired"}]
  /\ at \in [Requests -> Places]
  /\ asked \in [Requests -> Request]
  /\ user \in [Requests -> Maybe]
  /\ status \in [Requests -> {0, 101, 200, 201, 400, 401, 403, 409, 500, 503}]
  /\ jar \in [Browsers -> [access : Maybe, refresh : Maybe]]
  /\ family \in [Requests -> Maybe]
  /\ faults \in 0..MaxFaults

Init ==
  /\ users = {} /\ banned = {}
  /\ refresh_tokens = [t \in Requests |-> "absent"]
  /\ age = [t \in Requests |-> "fresh"]
  /\ at = [r \in Requests |-> "idle"]
  /\ asked = [r \in Requests |-> NoRequest]
  /\ user = [r \in Requests |-> NoToken]
  /\ status = [r \in Requests |-> 0]
  /\ jar = [b \in Browsers |-> [access |-> NoToken, refresh |-> NoToken]]
  /\ family = [t \in Requests |-> NoToken]
  /\ faults = 0

-----------------------------------------------------------------------------
(***************************************************************************)
(* internal/auth                                                           *)
(***************************************************************************)

\* bcrypt, the salt left out: a hash is a text like any other.
HashPassword(p) == <<"bcrypt", p>>

VerifyPassword(hashedPassword, password) == hashedPassword = HashPassword(password)

ParseIP(text) == IF text \in IPs THEN text ELSE None

\* The two columns that tie a refresh token to a client.
CreateRefreshToken(ip, userAgent) == [ua |-> userAgent, ip |-> ParseIP(ip)]

GenerateFingerprint(ip, ua) == <<ip, ua>>

\* The row of token t.  All three handlers pass the user agent first.
TokenModel(t) == CreateRefreshToken(AgentOf[asked[t].ctx], AddrOf[asked[t].ctx])

\* The fingerprint in access token t.
Claims(t) == GenerateFingerprint(AddrOf[asked[t].ctx], AgentOf[asked[t].ctx])

-----------------------------------------------------------------------------
(***************************************************************************)
(* What the handlers have in common                                        *)
(***************************************************************************)

\* How a statement ends.  "late": it took effect, and the caller got an error.
Outcomes == IF faults < MaxFaults THEN {"ok", "error", "late"} ELSE {"ok"}

Count(outcome) == faults' = IF outcome = "ok" THEN faults ELSE faults + 1

Goto(r, place) ==
  /\ at' = [at EXCEPT ![r] = place]
  /\ UNCHANGED status

Answer(r, code) ==
  /\ at' = [at EXCEPT ![r] = "answer"]
  /\ status' = [status EXCEPT ![r] = code]

\* A SELECT that fails: the handler answers 500.
ReadFails(r) ==
  /\ faults < MaxFaults /\ faults' = faults + 1
  /\ Answer(r, 500)
  /\ UNCHANGED <<tables, age, asked, user, jar, family>>

Named(n)   == {u \in users : asked[u].name = n}
Mailed(e)  == {u \in users : asked[u].email = e}

\* Mutant: the table has no unique columns.
UniqueMutant(r) == TRUE

\* The unique columns username and email of the table.
Unique(r) == Named(asked[r].name) = {} /\ Mailed(asked[r].email) = {}

-----------------------------------------------------------------------------
(***************************************************************************)
(* Clients send requests                                                   *)
(***************************************************************************)

\* Requests are numbered in the order they are sent in.
Send(r, q, access, refresh, place) ==
  /\ at[r] = "idle" /\ \A p \in Requests : p < r => at[p] # "idle"
  /\ asked' = [asked EXCEPT ![r] = Sent(q, access, refresh, banned)]
  /\ Goto(r, place)
  /\ UNCHANGED <<tables, age, user, jar, family, faults>>

SendSignup(r, q) ==
  q.kind = "signup" /\ Send(r, q, NoToken, NoToken, "byName")

SendLogin(r, q) ==
  q.kind = "login" /\ Send(r, q, NoToken, NoToken, "byName")

SendRefresh(r, q) ==
  q.kind = "refresh" /\ Send(r, q, NoToken, jar[q.browser].refresh, "lookup")

\* A browser sends the refresh cookie to its path, /api/auth/refresh, and not to
\* /api/auth/logout; other clients may not look at the path.
SendLogout(r, q) ==
  /\ q.kind = "logout"
  /\ \E t \in {NoToken, jar[q.browser].refresh} : Send(r, q, NoToken, t, "lookup")

SendWS(r, q) ==
  q.kind = "ws" /\ Send(r, q, jar[q.browser].access, NoToken, "access")

-----------------------------------------------------------------------------
(***************************************************************************)
(* SignupHandler                                                           *)
(***************************************************************************)

SignupByName(r) ==
  /\ at[r] = "byName" /\ asked[r].kind = "signup"
  /\ \/ /\ IF asked[r].name = None THEN Answer(r, 400)
           ELSE IF Named(asked[r].name) # {} THEN Answer(r, 409)
           ELSE Goto(r, "byEmail")
        /\ UNCHANGED <<tables, age, asked, user, jar, family, faults>>
     \/ asked[r].name # None /\ ReadFails(r)

SignupByEmail(r) ==
  /\ at[r] = "byEmail"
  /\ \/ /\ IF Mailed(asked[r].email) # {} THEN Answer(r, 409) ELSE Goto(r, "create")
        /\ UNCHANGED <<tables, age, asked, user, jar, family, faults>>
     \/ ReadFails(r)

\* CreateUser, then both tokens are made and the session is about to be saved.
SignupCreate(r) ==
  /\ at[r] = "create"
  /\ \E outcome \in Outcomes :
       /\ users' = IF Unique(r) /\ outcome # "error" THEN users \cup {r} ELSE users
       /\ IF Unique(r) /\ outcome = "ok"
          THEN /\ Goto(r, "save")
               /\ user' = [user EXCEPT ![r] = r]
               /\ family' = [family EXCEPT ![r] = r]
          ELSE Answer(r, 500) /\ UNCHANGED <<user, family>>
       /\ Count(outcome)
  /\ UNCHANGED <<banned, refresh_tokens, age, asked, jar>>

-----------------------------------------------------------------------------
(***************************************************************************)
(* LoginHandler                                                            *)
(***************************************************************************)

\* The handler gives the password where VerifyPassword expects the hash.
Verified(r, u) ==
  VerifyPassword(asked[r].password, HashPassword(asked[u].password))

LoginByName(r) ==
  /\ at[r] = "byName" /\ asked[r].kind = "login"
  /\ \/ /\ \/ asked[r].name = None /\ Answer(r, 400) /\ UNCHANGED <<user, family>>
           \/ /\ asked[r].name # None
              /\ \A u \in Named(asked[r].name) : ~Verified(r, u)
              /\ Answer(r, 401) /\ UNCHANGED <<user, family>>
           \/ \E u \in Named(asked[r].name) :
                /\ Verified(r, u)
                /\ user' = [user EXCEPT ![r] = u]
                /\ family' = [family EXCEPT ![r] = r]
                /\ Goto(r, "save")
        /\ UNCHANGED <<tables, age, asked, jar, faults>>
     \/ asked[r].name # None /\ ReadFails(r)

-----------------------------------------------------------------------------
(***************************************************************************)
(* RefreshHandler and Logouthandler                                        *)
(***************************************************************************)

SameContext(r, t) ==
  /\ TokenModel(t).ua = AgentOf[asked[r].ctx]
  /\ TokenModel(t).ip = ParseIP(AddrOf[asked[r].ctx])

\* GetTokenByHash.  Its error for a missing row does not wrap ErrNoRows, so the
\* handler takes it for a failure of the database.
RefreshLookup(r) ==
  LET t == asked[r].refresh IN
  /\ at[r] = "lookup" /\ asked[r].kind = "refresh"
  /\ \/ /\ IF t = NoToken THEN Answer(r, 401) /\ UNCHANGED user
           ELSE IF refresh_tokens[t] # "valid" THEN Answer(r, 500) /\ UNCHANGED user
           ELSE IF age[t] = "expired" \/ ~SameContext(r, t)
           THEN Answer(r, 401) /\ UNCHANGED user
           ELSE Goto(r, "revoke") /\ user' = [user EXCEPT ![r] = user[t]]
        /\ UNCHANGED <<tables, age, asked, jar, family, faults>>
     \/ t # NoToken /\ ReadFails(r)

LogoutLookup(r) ==
  LET t == asked[r].refresh IN
  /\ at[r] = "lookup" /\ asked[r].kind = "logout"
  /\ \/ /\ t # NoToken /\ refresh_tokens[t] = "valid"
        /\ Goto(r, "revoke") /\ UNCHANGED faults
     \/ /\ t # NoToken => refresh_tokens[t] # "valid"
        /\ Answer(r, 200) /\ UNCHANGED faults
     \/ /\ t # NoToken /\ faults < MaxFaults /\ faults' = faults + 1
        /\ Answer(r, 200)
  /\ UNCHANGED <<tables, age, asked, user, jar, family>>

\* Mutants: the row is updated whether it is revoked or not; RowsAffected is not
\* looked at; an error is not looked at.
UpdatedMutant(t) == refresh_tokens[t] # "absent"

RevokedRowless(t, outcome) == outcome = "ok"

RevokedBlind(t, outcome) == refresh_tokens[t] = "valid"

\* UPDATE ... WHERE is_revoked = false finds a row.
Updated(t) == refresh_tokens[t] = "valid"

\* RevokeToken returns no error: the statement succeeded, RowsAffected is not 0.
Revoked(t, outcome) == Updated(t) /\ outcome = "ok"

\* RefreshHandler goes on to make a new pair only if RevokeToken succeeded;
\* Logouthandler ignores what it returns.
RevokeToken(r) ==
  LET t == asked[r].refresh IN
  /\ at[r] = "revoke"
  /\ \E outcome \in Outcomes :
       /\ refresh_tokens' = IF Updated(t) /\ outcome # "error"
                            THEN [refresh_tokens EXCEPT ![t] = "revoked"]
                            ELSE refresh_tokens
       /\ \/ /\ asked[r].kind = "refresh" /\ Revoked(t, outcome)
             /\ Goto(r, "save")
             /\ family' = [family EXCEPT ![r] = family[t]]
          \/ /\ asked[r].kind = "refresh" /\ ~Revoked(t, outcome)
             /\ Answer(r, 500) /\ UNCHANGED family
          \/ /\ asked[r].kind = "logout"
             /\ Answer(r, 200) /\ UNCHANGED family
       /\ Count(outcome)
  /\ UNCHANGED <<users, banned, age, asked, user, jar>>

\* The last statement of signup, login and refresh.  A nil address becomes the
\* text <nil>, which the column of type INET refuses.
SaveRefreshToken(r) ==
  LET fits == TokenModel(r).ip # None IN
  /\ at[r] = "save"
  /\ \E outcome \in Outcomes :
       /\ refresh_tokens' = IF fits /\ outcome # "error"
                            THEN [refresh_tokens EXCEPT ![r] = "valid"]
                            ELSE refresh_tokens
       /\ Answer(r, IF ~(fits /\ outcome = "ok") THEN 500
                    ELSE IF asked[r].kind = "signup" THEN 201 ELSE 200)
       /\ Count(outcome)
  /\ UNCHANGED <<users, banned, age, asked, user, jar, family>>

-----------------------------------------------------------------------------
(***************************************************************************)
(* Authenticate, in front of serveWS                                       *)
(***************************************************************************)

\* ValidateToken, and the fingerprint of the request.
Trusted(r) ==
  LET t == asked[r].access IN
  /\ t # NoToken /\ age[t] = "fresh"
  /\ Claims(t) = GenerateFingerprint(AddrOf[asked[r].ctx], AgentOf[asked[r].ctx])

\* Mutant: is_banned is not looked at.
AdmissibleMutant(u) == u \in users

\* GetUserByID finds the user, who is not banned.  serveWS tests it again.
Admissible(u) == u \in users /\ u \notin banned

Authenticate(r) ==
  LET t == asked[r].access
      u == user[t]
  IN
  /\ at[r] = "access"
  /\ \/ /\ ~Trusted(r)
        /\ Answer(r, IF t = NoToken \/ age[t] # "fresh" THEN 401 ELSE 403)
        /\ UNCHANGED <<user, faults>>
     \/ /\ Trusted(r) /\ Admissible(u)
        /\ Answer(r, 101) /\ user' = [user EXCEPT ![r] = u] /\ UNCHANGED faults
     \/ /\ Trusted(r) /\ ~Admissible(u)
        /\ Answer(r, IF u \in users THEN 403 ELSE 401) /\ UNCHANGED <<user, faults>>
     \/ /\ Trusted(r) /\ faults < MaxFaults /\ faults' = faults + 1
        /\ \E code \in {500, 503} : Answer(r, code)
        /\ UNCHANGED user
  /\ UNCHANGED <<tables, age, asked, jar, family>>

-----------------------------------------------------------------------------
(***************************************************************************)
(* The environment                                                         *)
(***************************************************************************)

\* Mutant: a refresh renews the access cookie only.
CookiesMutant(r) ==
  IF asked[r].kind = "logout" THEN [access |-> NoToken, refresh |-> NoToken]
  ELSE IF asked[r].kind # "ws" /\ status[r] \in {200, 201}
  THEN [access |-> r,
        refresh |-> IF asked[r].kind = "refresh" THEN jar[asked[r].browser].refresh ELSE r]
  ELSE jar[asked[r].browser]

\* Set-Cookie of a successful signup, login or refresh, or of a logout.
Cookies(r) ==
  IF asked[r].kind = "logout" THEN [access |-> NoToken, refresh |-> NoToken]
  ELSE IF asked[r].kind # "ws" /\ status[r] \in {200, 201}
  THEN [access |-> r, refresh |-> r]
  ELSE jar[asked[r].browser]

Receive(r) ==
  /\ at[r] = "answer"
  /\ at' = [at EXCEPT ![r] = "done"]
  /\ jar' = [jar EXCEPT ![asked[r].browser] = Cookies(r)]
  /\ UNCHANGED <<tables, age, asked, user, status, family, faults>>

\* The answer is lost, or the process dies while it handles the request.
Lose(r) ==
  /\ faults < MaxFaults /\ at[r] \notin {"idle", "done"}
  /\ at' = [at EXCEPT ![r] = "done"]
  /\ faults' = faults + 1
  /\ UNCHANGED <<tables, age, asked, user, status, jar, family>>

\* Mutant: rows are marked, not deleted.
PurgedMutant(t) ==
  IF age[t] = "expired" \/ refresh_tokens[t] = "revoked"
  THEN "deleted" ELSE refresh_tokens[t]

Purged(t) ==
  IF age[t] = "expired" \/ refresh_tokens[t] = "revoked"
  THEN "absent" ELSE refresh_tokens[t]

\* DeleteExpiredTokens, at three o'clock.
Purge ==
  /\ refresh_tokens' = [t \in Requests |-> Purged(t)]
  /\ UNCHANGED <<users, banned, age, handlers, jar, family, faults>>

Aged == {t \in Requests : age[t] # "fresh"}

\* Fifteen minutes, or a week, after the pair was made.
Age(t) ==
  /\ family[t] # NoToken /\ at[t] # "save" /\ age[t] # "expired"
  /\ Cardinality(Aged \ {t}) + Cardinality(banned) < MaxEvents
  /\ \/ age[t] = "fresh" /\ age' = [age EXCEPT ![t] = "lapsed"]
     \/ age' = [age EXCEPT ![t] = "expired"]
  /\ UNCHANGED <<tables, handlers, jar, family, faults>>

\* No code sets is_banned; somebody does it in the table.
Ban(u) ==
  /\ u \in users \ banned
  /\ Cardinality(Aged) + Cardinality(banned) < MaxEvents
  /\ banned' = banned \cup {u}
  /\ UNCHANGED <<users, refresh_tokens, age, handlers, jar, family, faults>>

Client(r, q) ==
  \/ SendSignup(r, q)
  \/ SendLogin(r, q)
  \/ SendRefresh(r, q)
  \/ SendLogout(r, q)
  \/ SendWS(r, q)

Handler(r) ==
  \/ SignupByName(r)
  \/ SignupByEmail(r)
  \/ SignupCreate(r)
  \/ LoginByName(r)
  \/ RefreshLookup(r)
  \/ LogoutLookup(r)
  \/ RevokeToken(r)
  \/ SaveRefreshToken(r)
  \/ Authenticate(r)

Next ==
  \/ \E r \in Requests : \E q \in Plan[r] : Client(r, q)
  \/ \E r \in Requests : Handler(r)
  \/ \E r \in Requests : Receive(r)
  \/ \E r \in Requests : Lose(r)
  \/ Purge
  \/ \E t \in Requests : Age(t)
  \/ \E u \in Requests : Ban(u)

Spec == Init /\ [][Next]_vars
-----------------------------------------------------------------------------
(***************************************************************************)
(* Properties                                                              *)
(***************************************************************************)

\* Of all the refresh tokens a login has led to, at most one can still be
\* exchanged: RefreshHandler revokes before it saves, and two requests that have
\* read the same row are told apart by RowsAffected in RevokeToken.
OneLivePerSession ==
  \A t, v \in Requests :
    /\ refresh_tokens[t] = "valid" /\ refresh_tokens[v] = "valid"
    /\ family[t] = family[v]
    => t = v

\* A refresh token is exchanged for a new pair at most once, however many tabs
\* present it at the same time.
SingleExchange ==
  \A r, q \in Requests :
    /\ asked[r].kind = "refresh" /\ asked[q].kind = "refresh"
    /\ status[r] = 200 /\ status[q] = 200
    /\ asked[r].refresh = asked[q].refresh
    => r = q

\* Two users never share a name or an address, though SignupHandler looks both
\* up in statements of their own before it inserts.
OneAccountPerName ==
  \A u, v \in users :
    u # v => asked[u].name # asked[v].name /\ asked[u].email # asked[v].email

\* A connection that Authenticate lets through belongs to a user who has signed
\* up or logged in with the same client, and who was not banned when it was made.
AdmittedAsSelf ==
  \A r \in Requests :
    asked[r].kind = "ws" /\ status[r] = 101 =>
      /\ user[r] \notin asked[r].barred
      /\ \E q \in Requests :
           /\ asked[q].kind \in {"signup", "login"} /\ status[q] \in {200, 201}
           /\ asked[q].browser = asked[r].browser /\ user[q] = user[r]

\* As long as no statement, handler or answer fails, requests that overlap (two
\* tabs that refresh, a login or a logout meanwhile, the purge) do not cost a
\* client its session: once all of them are answered, the refresh cookie it has,
\* if it has one, can be exchanged or has expired.
Quiet(b) == \A r \in Requests : asked[r].browser = b => at[r] = "done"

JarUsable ==
  faults = 0 =>
    \A b \in Browsers :
      Quiet(b) /\ jar[b].refresh # NoToken =>
        age[jar[b].refresh] = "expired" \/ refresh_tokens[jar[b].refresh] = "valid"

\* The sessions as batons.  A request holds one while it is exchanging a token,
\* a token while its row is there and not revoked.
Holds(h) == at[h] = "save" \/ refresh_tokens[h] = "valid"

Holding(f) == {h \in Requests : family[h] = f /\ Holds(h)}

BatonOf(f) ==
  IF family[f] # f THEN -1
  ELSE IF Holding(f) = {} THEN 0
  ELSE CHOOSE h \in Holding(f) : TRUE

Baton ==
  INSTANCE SessionBaton WITH
    Holders <- Requests,
    baton <- [f \in Requests |-> BatonOf(f)],
    used <- {h \in Requests : family[h] # NoToken}

\* The handlers and the purge implement SessionBaton: a session that was logged
\* out, expired or failed to be renewed is not revived by a request that had read
\* its token before.
ImplementsBaton == Baton!Spec
=============================================================================
