-------------------------- MODULE AuthClientProofs --------------------------
(***************************************************************************)
(* Proofs about AuthSession, continued: what accounts and clients can rely *)
(* on.  Names stay unique, a connection is admitted for the user who       *)
(* signed in with the same client, and overlapping requests do not cost a  *)
(* client its session.                                                     *)
(***************************************************************************)
EXTENDS AuthSessionProofs

\* What r leaves alone.
OnlyHandler(r) ==
  /\ \A q \in Requests : q # r => at'[q] = at[q] /\ status'[q] = status[q] /\ user'[q] = user[q]
  /\ UNCHANGED asked

LEMMA GotoOnly ==
  ASSUME TypeOK, NEW r \in Requests, NEW place, Goto(r, place), UNCHANGED asked,
         UNCHANGED user \/ \E u \in Maybe : user' = [user EXCEPT ![r] = u]
  PROVE  OnlyHandler(r) /\ at'[r] = place /\ status'[r] = status[r]
BY DEF TypeOK, Goto, OnlyHandler

LEMMA AnswerOnly ==
  ASSUME TypeOK, NEW r \in Requests, NEW code, Answer(r, code), UNCHANGED asked,
         UNCHANGED user \/ \E u \in Maybe : user' = [user EXCEPT ![r] = u]
  PROVE  OnlyHandler(r) /\ at'[r] = "answer" /\ status'[r] = code
BY DEF TypeOK, Answer, OnlyHandler

-----------------------------------------------------------------------------
(***************************************************************************)
(* What each handler does to its request                                   *)
(***************************************************************************)

\* A refusal: the request is answered with an error and nothing is learnt.
Refuses(r) ==
  /\ OnlyHandler(r) /\ UNCHANGED user
  /\ at'[r] = "answer" /\ status'[r] \in {400, 401, 403, 409, 500, 503}
  /\ UNCHANGED <<refresh_tokens, jar, banned, age>>

LEMMA ReadFailsRefuses ==
  ASSUME Typed, NEW r \in Requests, ReadFails(r)
  PROVE  Refuses(r)
<1>1. Answer(r, 500) /\ UNCHANGED <<asked, user, refresh_tokens, jar, banned, age>>
  BY DEF ReadFails, tables
<1>. QED
  BY <1>1, AnswerOnly DEF Typed, Refuses

\* Signup and login, up to the statement that saves the token.
Introduces(r) ==
  /\ asked[r].kind \in {"signup", "login"} /\ at[r] \in {"byName", "byEmail", "create"}
  /\ OnlyHandler(r) /\ UNCHANGED <<refresh_tokens, jar, banned, age>>
  /\ at'[r] \in {"byEmail", "create", "save"} /\ status'[r] = status[r]

LEMMA SignupDoes ==
  ASSUME Typed, Begun, NEW r \in Requests,
         SignupByName(r) \/ SignupByEmail(r) \/ SignupCreate(r) \/ LoginByName(r)
  PROVE  /\ at[r] \in {"byName", "byEmail", "create"}
         /\ Introduces(r) \/ Refuses(r)
<1>. USE DEF Typed
<1>1. CASE ReadFails(r) /\ at[r] \in {"byName", "byEmail"}
  BY <1>1, ReadFailsRefuses
<1>2. CASE SignupByName(r) /\ ~ReadFails(r)
  BY <1>2, GotoOnly, AnswerOnly DEF SignupByName, Introduces, Refuses, tables
<1>3. CASE SignupByEmail(r) /\ ~ReadFails(r)
  BY <1>3, GotoOnly, AnswerOnly DEF SignupByEmail, Introduces, Refuses, tables, Begun
<1>4. CASE SignupCreate(r)
  <2>1. UNCHANGED <<asked, refresh_tokens, jar, banned, age>> /\ at[r] = "create"
    BY <1>4 DEF SignupCreate
  <2>2. CASE Answer(r, 500) /\ UNCHANGED user
    BY <2>1, <2>2, AnswerOnly DEF Refuses
  <2>3. CASE Goto(r, "save") /\ user' = [user EXCEPT ![r] = r]
    BY <2>1, <2>3, GotoOnly DEF Introduces, Begun, Maybe
  <2>. QED
    BY <1>4, <2>1, <2>2, <2>3 DEF SignupCreate
<1>5. CASE LoginByName(r) /\ ~ReadFails(r)
  <2>1. UNCHANGED <<asked, refresh_tokens, jar, banned, age>> /\ at[r] = "byName"
        /\ asked[r].kind = "login"
    BY <1>5 DEF LoginByName, tables
  <2>2. CASE \E code \in {400, 401} : Answer(r, code) /\ UNCHANGED user
    BY <2>1, <2>2, AnswerOnly DEF Refuses
  <2>3. ASSUME NEW u \in Named(asked[r].name), user' = [user EXCEPT ![r] = u], Goto(r, "save")
        PROVE  Introduces(r)
    <3>1. u \in Maybe
      BY DEF Named, TypeOK, Maybe
    <3>. QED
      BY <2>1, <2>3, <3>1, GotoOnly DEF Introduces
  <2>. QED
    BY <1>5, <2>1, <2>2, <2>3 DEF LoginByName
<1>. QED
  BY <1>1, <1>2, <1>3, <1>4, <1>5 DEF SignupByName, SignupByEmail, LoginByName

\* RefreshHandler accepts the token it was shown.
Accepts(r) ==
  LET t == asked[r].refresh IN
  /\ asked[r].kind = "refresh" /\ at[r] = "lookup" /\ t \in Requests
  /\ refresh_tokens[t] = "valid" /\ SameContext(r, t)
  /\ OnlyHandler(r) /\ UNCHANGED <<refresh_tokens, jar, banned, age>>
  /\ at'[r] = "revoke" /\ status'[r] = status[r] /\ user'[r] = user[t]

\* Logouthandler goes on or is over; what it answers is always 200.
LogsOut(r) ==
  /\ asked[r].kind = "logout" /\ at[r] = "lookup"
  /\ OnlyHandler(r) /\ UNCHANGED <<user, refresh_tokens, jar, banned, age>>
  /\ \/ at'[r] = "revoke" /\ status'[r] = status[r]
     \/ at'[r] = "answer" /\ status'[r] = 200

LEMMA LookupDoes ==
  ASSUME Typed, NEW r \in Requests, RefreshLookup(r) \/ LogoutLookup(r)
  PROVE  at[r] = "lookup" /\ (Accepts(r) \/ LogsOut(r) \/ Refuses(r))
<1>. USE DEF Typed
<1>1. asked[r].refresh = NoToken \/ asked[r].refresh \in Requests
  BY DEF TypeOK, Request, Maybe
<1>2. CASE ReadFails(r) /\ at[r] = "lookup"
  BY <1>2, ReadFailsRefuses
<1>3. CASE RefreshLookup(r) /\ ~ReadFails(r)
  <2>1. UNCHANGED <<asked, refresh_tokens, jar, banned, age>> /\ at[r] = "lookup"
        /\ asked[r].kind = "refresh"
    BY <1>3 DEF RefreshLookup, tables
  <2>2. CASE \E code \in {401, 500} : Answer(r, code) /\ UNCHANGED user
    BY <2>1, <2>2, AnswerOnly DEF Refuses
  <2>3. CASE /\ Goto(r, "revoke") /\ user' = [user EXCEPT ![r] = user[asked[r].refresh]]
             /\ asked[r].refresh # NoToken /\ refresh_tokens[asked[r].refresh] = "valid"
             /\ SameContext(r, asked[r].refresh)
    <3>1. user[asked[r].refresh] \in Maybe /\ user'[r] = user[asked[r].refresh]
      BY <1>1, <2>3 DEF TypeOK
    <3>. QED
      BY <1>1, <2>1, <2>3, <3>1, GotoOnly DEF Accepts
  <2>. QED
    BY <1>3, <2>1, <2>2, <2>3 DEF RefreshLookup
<1>4. CASE LogoutLookup(r)
  <2>1. UNCHANGED <<asked, user, refresh_tokens, jar, banned, age>> /\ at[r] = "lookup"
        /\ asked[r].kind = "logout" /\ (Goto(r, "revoke") \/ Answer(r, 200))
    BY <1>4 DEF LogoutLookup, tables
  <2>. QED
    BY <2>1, GotoOnly, AnswerOnly DEF LogsOut
<1>. QED
  BY <1>2, <1>3, <1>4 DEF RefreshLookup

\* RevokeToken: a refresh goes on with the row revoked, or is refused, and then
\* the row is as it was unless a failure was counted; a logout is over.
Revokes(r) ==
  LET t == asked[r].refresh IN
  /\ at[r] = "revoke" /\ t \in Requests
  /\ OnlyHandler(r) /\ UNCHANGED <<user, jar, banned, age>>
  /\ \A v \in Requests : v # t => refresh_tokens'[v] = refresh_tokens[v]
  /\ \/ /\ asked[r].kind = "refresh" /\ at'[r] = "save" /\ status'[r] = status[r]
     \/ /\ asked[r].kind = "refresh" /\ at'[r] = "answer" /\ status'[r] = 500
        /\ UNCHANGED refresh_tokens \/ faults' # 0
     \/ asked[r].kind = "logout" /\ at'[r] = "answer" /\ status'[r] = 200

\* What a counted failure means for the counter.
LEMMA Counted ==
  ASSUME TypeOK, NEW outcome \in Outcomes, Count(outcome)
  PROVE  /\ outcome # "ok" => faults' # 0
         /\ faults' = 0 => faults = 0
BY AuthAssumption DEF TypeOK, Outcomes, Count

LEMMA RevokeDoes ==
  ASSUME Typed, NEW r \in Requests, RevokeToken(r)
  PROVE  Revokes(r)
<1>. USE DEF Typed
<1>1. asked[r].refresh \in Requests /\ at[r] = "revoke"
      /\ UNCHANGED <<asked, user, jar, banned, age>>
  BY DEF RevokeToken, TypeOK, WellSent, Request, Maybe
<1>2. PICK outcome \in Outcomes :
        /\ refresh_tokens' = IF Updated(asked[r].refresh) /\ outcome # "error"
                             THEN [refresh_tokens EXCEPT ![asked[r].refresh] = "revoked"]
                             ELSE refresh_tokens
        /\ \/ asked[r].kind = "refresh" /\ Goto(r, "save")
           \/ /\ asked[r].kind = "refresh" /\ ~Revoked(asked[r].refresh, outcome)
              /\ Answer(r, 500)
           \/ asked[r].kind = "logout" /\ Answer(r, 200)
        /\ Count(outcome)
  BY DEF RevokeToken
<1>3. \A v \in Requests : v # asked[r].refresh => refresh_tokens'[v] = refresh_tokens[v]
  BY <1>1, <1>2 DEF TypeOK
<1>4. ~Revoked(asked[r].refresh, outcome) => UNCHANGED refresh_tokens \/ faults' # 0
  BY <1>2, Counted DEF Revoked
<1>. QED
  BY <1>1, <1>2, <1>3, <1>4, GotoOnly, AnswerOnly DEF Revokes

\* SaveRefreshToken: the pair is handed out with its row in the table, or the
\* request fails, and then the column did not take the address or a failure was
\* counted.
Stores(r) ==
  /\ at[r] = "save" /\ OnlyHandler(r) /\ UNCHANGED <<user, jar, banned, age>>
  /\ \A v \in Requests : v # r => refresh_tokens'[v] = refresh_tokens[v]
  /\ at'[r] = "answer"
  /\ \/ /\ refresh_tokens'[r] = "valid"
        /\ status'[r] = IF asked[r].kind = "signup" THEN 201 ELSE 200
     \/ status'[r] = 500 /\ (TokenModel(r).ip = None \/ faults' # 0)

LEMMA SaveDoes ==
  ASSUME Typed, NEW r \in Requests, SaveRefreshToken(r)
  PROVE  Stores(r)
<1>. USE DEF Typed
<1>1. PICK outcome \in Outcomes :
        /\ refresh_tokens' = IF TokenModel(r).ip # None /\ outcome # "error"
                             THEN [refresh_tokens EXCEPT ![r] = "valid"]
                             ELSE refresh_tokens
        /\ Answer(r, IF ~(TokenModel(r).ip # None /\ outcome = "ok") THEN 500
                     ELSE IF asked[r].kind = "signup" THEN 201 ELSE 200)
        /\ Count(outcome)
  BY DEF SaveRefreshToken
<1>2. at[r] = "save" /\ UNCHANGED <<asked, user, jar, banned, age>>
  BY DEF SaveRefreshToken
<1>3. \A v \in Requests : v # r => refresh_tokens'[v] = refresh_tokens[v]
  BY <1>1 DEF TypeOK
<1>4. CASE TokenModel(r).ip # None /\ outcome = "ok"
  <2>1. refresh_tokens'[r] = "valid"
    BY <1>1, <1>4 DEF TypeOK
  <2>2. Answer(r, IF asked[r].kind = "signup" THEN 201 ELSE 200)
    BY <1>1, <1>4
  <2>. QED
    BY <1>2, <1>3, <2>1, <2>2, AnswerOnly DEF Stores
<1>5. CASE ~(TokenModel(r).ip # None /\ outcome = "ok")
  <2>1. Answer(r, 500)
    BY <1>1, <1>5
  <2>2. TokenModel(r).ip = None \/ faults' # 0
    BY <1>1, <1>5, Counted
  <2>. QED
    BY <1>2, <1>3, <2>1, <2>2, AnswerOnly DEF Stores
<1>. QED
  BY <1>4, <1>5

\* Authenticate lets the connection of an access token's user through.
Admits(r) ==
  LET t == asked[r].access IN
  /\ at[r] = "access" /\ t \in Requests /\ user[t] \notin banned
  /\ OnlyHandler(r) /\ UNCHANGED <<refresh_tokens, jar, banned, age>>
  /\ at'[r] = "answer" /\ status'[r] = 101 /\ user'[r] = user[t]

LEMMA AuthenticateDoes ==
  ASSUME Typed, NEW r \in Requests, Authenticate(r)
  PROVE  at[r] = "access" /\ (Admits(r) \/ Refuses(r))
<1>. USE DEF Typed
<1>1. asked[r].access = NoToken \/ asked[r].access \in Requests
  BY DEF TypeOK, Request, Maybe
<1>2. at[r] = "access" /\ UNCHANGED <<asked, refresh_tokens, jar, banned, age>>
  BY DEF Authenticate, tables
<1>3. CASE \E code \in {401, 403, 500, 503} : Answer(r, code) /\ UNCHANGED user
  BY <1>2, <1>3, AnswerOnly DEF Refuses
<1>4. CASE /\ Trusted(r) /\ Admissible(user[asked[r].access])
           /\ Answer(r, 101) /\ user' = [user EXCEPT ![r] = user[asked[r].access]]
  <2>1. asked[r].access \in Requests /\ user[asked[r].access] \notin banned
    BY <1>1, <1>4 DEF Trusted, Admissible
  <2>2. user[asked[r].access] \in Maybe /\ user'[r] = user[asked[r].access]
    BY <1>4, <2>1 DEF TypeOK
  <2>. QED
    BY <1>2, <1>4, <2>1, <2>2, AnswerOnly DEF Admits
<1>. QED
  BY <1>2, <1>3, <1>4 DEF Authenticate
-----------------------------------------------------------------------------
(***************************************************************************)
(* What clients and the environment do                                     *)
(***************************************************************************)

\* A client sends r with cookies from its jar, or without them.
Asks(r) ==
  LET a == asked'[r] IN
  /\ at[r] = "idle" /\ at'[r] \in {"byName", "lookup", "access"}
  /\ \A q \in Requests : q # r => at'[q] = at[q] /\ asked'[q] = asked[q]
  /\ UNCHANGED <<status, user, refresh_tokens, jar, banned, age>>
  /\ a.browser \in Browsers /\ a.barred = banned
  /\ a.access \in {NoToken, jar[a.browser].access}
  /\ a.refresh \in {NoToken, jar[a.browser].refresh}

LEMMA ClientAsks ==
  ASSUME Typed, NEW r \in Requests, NEW q \in Plan[r], Client(r, q)
  PROVE  Asks(r)
<1>. USE DEF Typed
<1>1. q \in Question /\ q.browser \in Browsers
  BY AuthAssumption DEF Question
<1>2. PICK access \in {NoToken, jar[q.browser].access},
           refresh \in {NoToken, jar[q.browser].refresh},
           place \in {"byName", "lookup", "access"} :
        Send(r, q, access, refresh, place)
  BY DEF Client, SendSignup, SendLogin, SendRefresh, SendLogout, SendWS
<1>3. access \in Maybe /\ refresh \in Maybe /\ banned \in SUBSET Requests
  BY <1>1 DEF TypeOK, Maybe
<1>4. asked'[r] = Sent(q, access, refresh, banned)
      /\ \A p \in Requests : p # r => asked'[p] = asked[p]
  BY <1>2 DEF Send, TypeOK
<1>5. at[r] = "idle" /\ Goto(r, place) /\ UNCHANGED <<user, refresh_tokens, jar, banned, age>>
  BY <1>2 DEF Send, tables
<1>6. /\ asked'[r].browser = q.browser /\ asked'[r].access = access
      /\ asked'[r].refresh = refresh /\ asked'[r].barred = banned
  BY <1>3, <1>4, SentTyped
<1>. QED
  BY <1>1, <1>2, <1>4, <1>5, <1>6, GotoOthers DEF Asks, Others

\* A client receives the answer to r.
Gets(r) ==
  /\ at[r] = "answer" /\ at'[r] = "done" /\ asked[r].browser \in Browsers
  /\ \A q \in Requests : q # r => at'[q] = at[q]
  /\ UNCHANGED <<asked, user, status, refresh_tokens, banned, age>>
  /\ jar' = [jar EXCEPT ![asked[r].browser] = Cookies(r)]

\* An answer or a handler is lost, which is counted.
Loses(r) ==
  /\ at[r] # "idle" /\ at'[r] = "done" /\ faults' # 0
  /\ \A q \in Requests : q # r => at'[q] = at[q]
  /\ UNCHANGED <<asked, user, status, refresh_tokens, jar, banned, age>>

\* Time goes by, rows are purged, users are banned.
Passing ==
  /\ UNCHANGED <<at, asked, user, status, jar>>
  /\ banned \subseteq banned'
  /\ \A t \in Requests :
       /\ age[t] = "expired" => age'[t] = "expired"
       /\ refresh_tokens[t] = "valid" => refresh_tokens'[t] = "valid" \/ age'[t] = "expired"

LEMMA ReceiveDoes ==
  ASSUME Typed, NEW r \in Requests, Receive(r)
  PROVE  Gets(r)
BY DEF Typed, TypeOK, WellSent, Receive, Gets, tables

LEMMA LoseDoes ==
  ASSUME Typed, NEW r \in Requests, Lose(r)
  PROVE  Loses(r)
<1>1. faults' # 0
  BY AuthAssumption DEF Typed, TypeOK, Lose
<1>. QED
  BY <1>1 DEF Typed, TypeOK, Lose, Loses, tables

LEMMA TimeDoes ==
  ASSUME Typed, Purge \/ (\E t \in Requests : Age(t) \/ Ban(t)) \/ UNCHANGED vars
  PROVE  Passing
<1>. USE DEF Typed, TypeOK, Passing
<1>1. CASE Purge
  BY <1>1 DEF Purge, Purged, handlers
<1>2. ASSUME NEW t \in Requests, Age(t)
      PROVE  Passing
  BY <1>2 DEF Age, handlers, tables
<1>3. ASSUME NEW t \in Requests, Ban(t)
      PROVE  Passing
  BY <1>3 DEF Ban, handlers
<1>4. CASE UNCHANGED vars
  BY <1>4 DEF vars, handlers, tables
<1>. QED
  BY <1>1, <1>2, <1>3, <1>4

\* A handler takes one of its steps.
Serves(r) ==
  \/ Introduces(r) \/ Accepts(r) \/ LogsOut(r) \/ Revokes(r) \/ Stores(r) \/ Admits(r)
  \/ Refuses(r) /\ at[r] \in Before \ {"idle"}

LEMMA StepDoes ==
  ASSUME Typed, Begun, [Next]_vars
  PROVE  Passing \/ \E r \in Requests : Asks(r) \/ Serves(r) \/ Gets(r) \/ Loses(r)
<1>1. ASSUME NEW r \in Requests, Handler(r)
      PROVE  Serves(r)
  BY <1>1, SignupDoes, LookupDoes, RevokeDoes, SaveDoes, AuthenticateDoes
  DEF Handler, Serves, Before
<1>2. ASSUME NEW r \in Requests, NEW q \in Plan[r], Client(r, q)
      PROVE  Asks(r)
  BY <1>2, ClientAsks
<1>3. ASSUME NEW r \in Requests, Receive(r) \/ Lose(r)
      PROVE  Gets(r) \/ Loses(r)
  BY <1>3, ReceiveDoes, LoseDoes
<1>. QED
  BY <1>1, <1>2, <1>3, TimeDoes DEF Next

\* What is settled stays: who asked what, the answer, the user of a request whose
\* handler has found it.
LEMMA Settled ==
  ASSUME Typed, Begun, [Next]_vars, NEW q \in Requests
  PROVE  /\ at[q] # "idle" => at'[q] # "idle" /\ asked'[q] = asked[q]
         /\ at[q] = "done" => at'[q] = "done"
         /\ at[q] \in After => at'[q] \in After /\ status'[q] = status[q]
         /\ at[q] \in After \cup {"revoke", "save"} => user'[q] = user[q]
<1>1. CASE Passing
  BY <1>1 DEF Passing
<1>2. ASSUME NEW r \in Requests, Asks(r) \/ Gets(r) \/ Loses(r)
      PROVE  /\ at[q] # "idle" => at'[q] # "idle" /\ asked'[q] = asked[q]
             /\ at[q] = "done" => at'[q] = "done"
             /\ at[q] \in After => at'[q] \in After /\ status'[q] = status[q]
             /\ user'[q] = user[q]
  BY <1>2 DEF Asks, Gets, Loses, After
<1>3. ASSUME NEW r \in Requests, Serves(r)
      PROVE  /\ at[q] # "idle" => at'[q] # "idle" /\ asked'[q] = asked[q]
             /\ at[q] \in After => at'[q] = at[q] /\ status'[q] = status[q]
             /\ at[q] \in After \cup {"revoke", "save"} => user'[q] = user[q]
  <2>1. OnlyHandler(r) /\ at[r] \notin After \cup {"idle"} /\ at'[r] # "idle"
    BY <1>3 DEF Serves, Introduces, Accepts, LogsOut, Revokes, Stores, Admits, Refuses, Before,
       After
  <2>2. at[r] \in {"revoke", "save"} => UNCHANGED user
    BY <1>3 DEF Serves, Introduces, Accepts, LogsOut, Revokes, Stores, Admits, Refuses
  <2>. QED
    BY <2>1, <2>2 DEF OnlyHandler
<1>. QED
  BY <1>1, <1>2, <1>3, StepDoes DEF After
-----------------------------------------------------------------------------
(***************************************************************************)
(* Unique accounts                                                         *)
(***************************************************************************)

\* Whoever has a row has asked for it.
Accounts == (\A u \in users : at[u] # "idle") /\ OneAccountPerName

\* Rows of users come from SignupCreate alone, through the unique columns.
LEMMA UsersGrow ==
  ASSUME Typed, [Next]_vars
  PROVE  \/ UNCHANGED users
         \/ \E r \in Requests : users' = users \cup {r} /\ Unique(r) /\ at[r] = "create"
<1>1. ASSUME NEW r \in Requests, SignupCreate(r)
      PROVE  \/ UNCHANGED users
             \/ users' = users \cup {r} /\ Unique(r) /\ at[r] = "create"
  BY <1>1 DEF SignupCreate
<1>2. ASSUME NEW r \in Requests, Handler(r), ~SignupCreate(r)
      PROVE  UNCHANGED users
  BY <1>2 DEF Handler, SignupByName, SignupByEmail, LoginByName, RefreshLookup, LogoutLookup,
     RevokeToken, SaveRefreshToken, Authenticate, ReadFails, tables
<1>3. ASSUME NEW r \in Requests, NEW q \in Plan[r], Client(r, q)
      PROVE  UNCHANGED users
  BY <1>3 DEF Client, SendSignup, SendLogin, SendRefresh, SendLogout, SendWS, Send, tables
<1>4. ASSUME NEW r \in Requests, Receive(r) \/ Lose(r) \/ Age(r) \/ Ban(r)
      PROVE  UNCHANGED users
  BY <1>4 DEF Receive, Lose, Age, Ban, tables
<1>5. CASE Purge \/ UNCHANGED vars
  BY <1>5 DEF Purge, vars, tables
<1>. QED
  BY <1>1, <1>2, <1>3, <1>4, <1>5 DEF Next

LEMMA AccountsStep ==
  ASSUME Typed, Begun, Accounts, [Next]_vars
  PROVE  Accounts'
<1>1. users \subseteq Requests
  BY DEF Typed, TypeOK
<1>2. \A u \in users : at'[u] # "idle" /\ asked'[u] = asked[u]
  BY <1>1, Settled DEF Accounts
<1>3. CASE UNCHANGED users
  BY <1>2, <1>3 DEF Accounts, OneAccountPerName
<1>4. ASSUME NEW r \in Requests, users' = users \cup {r}, Unique(r), at[r] = "create"
      PROVE  Accounts'
  <2>1. at'[r] # "idle" /\ asked'[r] = asked[r]
    BY <1>4, Settled
  <2>2. \A u \in users : asked[u].name # asked[r].name /\ asked[u].email # asked[r].email
    BY <1>4 DEF Unique, Named, Mailed
  <2>. QED
    BY <1>2, <1>4, <2>1, <2>2 DEF Accounts, OneAccountPerName
<1>. QED
  BY <1>3, <1>4, UsersGrow

\* Any number of signups that pass both lookups at the same time end with one
\* row for a name and one for an address.
THEOREM OneAccountPerNameHolds == Spec => []OneAccountPerName
<1>1. Init => Accounts
  BY DEF Init, Accounts, OneAccountPerName
<1>2. (Typed /\ Rotation) /\ Accounts /\ [Next]_vars => Accounts'
  BY AccountsStep DEF Rotation
<1>3. Accounts => OneAccountPerName
  BY DEF Accounts
<1>. QED
  BY <1>1, <1>2, <1>3, RotationInvariant, PTL DEF Spec

-----------------------------------------------------------------------------
(***************************************************************************)
(* Whose connections are admitted                                          *)
(***************************************************************************)

\* The user of request t has signed up or logged in with client b.
Granted(t, b) ==
  \E q \in Requests :
    /\ asked[q].kind \in {"signup", "login"} /\ status[q] \in {200, 201}
    /\ asked[q].browser = b /\ user[q] = user[t]

\* Token t was handed to client b, which got it in an answer.
HandedTo(t, b) ==
  t # NoToken => t \in Requests /\ at[t] = "done" /\ asked[t].browser = b /\ Granted(t, b)

Answered == \A r \in Requests : status[r] # 0 => at[r] \in After

JarsOwn == \A b \in Browsers : HandedTo(jar[b].access, b) /\ HandedTo(jar[b].refresh, b)

CookiesOwn ==
  \A r \in Requests : at[r] # "idle" =>
    HandedTo(asked[r].access, asked[r].browser) /\ HandedTo(asked[r].refresh, asked[r].browser)

\* A refresh that has accepted its token works for the user of that token.
RefreshOwn ==
  \A r \in Requests :
    asked[r].kind = "refresh" /\ (at[r] \in {"revoke", "save"} \/ status[r] \in {200, 201})
      => Granted(r, asked[r].browser)

AdmittedOwn ==
  \A r \in Requests : status[r] = 101 =>
    Granted(r, asked[r].browser) /\ user[r] \notin asked[r].barred

BarredBefore == \A r \in Requests : at[r] # "idle" => asked[r].barred \subseteq banned

Ownership ==
  /\ Answered /\ JarsOwn /\ CookiesOwn /\ RefreshOwn /\ AdmittedOwn /\ BarredBefore

\* Who was granted something keeps it.
LEMMA GrantedKept ==
  ASSUME Typed, Begun, Answered, [Next]_vars, NEW t \in Requests, NEW b, Granted(t, b),
         at[t] \in After \cup {"revoke", "save"}
  PROVE  Granted(t, b)'
<1>1. PICK q \in Requests :
        /\ asked[q].kind \in {"signup", "login"} /\ status[q] \in {200, 201}
        /\ asked[q].browser = b /\ user[q] = user[t]
  BY DEF Granted
<1>2. at[q] \in After /\ at[q] # "idle"
  BY <1>1 DEF Answered, After
<1>3. asked'[q] = asked[q] /\ status'[q] = status[q] /\ user'[q] = user[q]
  BY <1>2, Settled
<1>4. user'[t] = user[t]
  BY Settled
<1>. QED
  BY <1>1, <1>3, <1>4 DEF Granted

LEMMA HandedKept ==
  ASSUME Typed, Begun, Answered, [Next]_vars, NEW t, NEW b, HandedTo(t, b)
  PROVE  HandedTo(t, b)'
<1>. SUFFICES ASSUME t # NoToken
              PROVE  t \in Requests /\ at'[t] = "done" /\ asked'[t].browser = b /\ Granted(t, b)'
  BY DEF HandedTo
<1>1. t \in Requests /\ at[t] = "done" /\ asked[t].browser = b /\ Granted(t, b)
  BY DEF HandedTo
<1>2. at'[t] = "done" /\ asked'[t] = asked[t]
  BY <1>1, Settled
<1>3. Granted(t, b)'
  BY <1>1, GrantedKept DEF After
<1>. QED
  BY <1>1, <1>2, <1>3
LEMMA AnsweredStep ==
  ASSUME Typed, Begun, Ownership, [Next]_vars
  PROVE  Answered'
<1>. USE DEF Ownership, Answered
<1>1. CASE Passing
  BY <1>1 DEF Passing
<1>2. ASSUME NEW r \in Requests, Asks(r) \/ Gets(r) \/ Loses(r)
      PROVE  Answered'
  BY <1>2 DEF Asks, Gets, Loses, After, Begun
<1>3. ASSUME NEW r \in Requests, Serves(r)
      PROVE  Answered'
  <2>1. OnlyHandler(r) /\ at[r] \notin After
    BY <1>3 DEF Serves, Introduces, Accepts, LogsOut, Revokes, Stores, Admits, Refuses, Before,
       After
  <2>2. at'[r] = "answer" \/ status'[r] = status[r]
    BY <1>3 DEF Serves, Introduces, Accepts, LogsOut, Revokes, Stores, Admits, Refuses
  <2>. QED
    BY <2>1, <2>2 DEF OnlyHandler, After
<1>. QED
  BY <1>1, <1>2, <1>3, StepDoes

\* The jars change when a client gets an answer, and only its own.
LEMMA JarsStep ==
  ASSUME Typed, Begun, Ownership, [Next]_vars
  PROVE  JarsOwn'
<1>1. CASE UNCHANGED jar
  <2>. SUFFICES ASSUME NEW b \in Browsers
                PROVE  HandedTo(jar[b].access, b)' /\ HandedTo(jar[b].refresh, b)'
    BY DEF JarsOwn
  <2>1. HandedTo(jar[b].access, b) /\ HandedTo(jar[b].refresh, b)
    BY DEF Ownership, JarsOwn
  <2>. QED
    BY <1>1, <2>1, HandedKept DEF Ownership, HandedTo
<1>2. ASSUME NEW r \in Requests, Gets(r)
      PROVE  JarsOwn'
  <2>. SUFFICES ASSUME NEW b \in Browsers
                PROVE  HandedTo(jar[b].access, b)' /\ HandedTo(jar[b].refresh, b)'
    BY DEF JarsOwn
  <2>0. \A t : HandedTo(t, b) => HandedTo(t, b)'
    BY HandedKept DEF Ownership
  <2>1. CASE jar'[b] = jar[b]
    <3>1. HandedTo(jar[b].access, b) /\ HandedTo(jar[b].refresh, b)
      BY DEF Ownership, JarsOwn
    <3>. QED
      BY <2>0, <2>1, <3>1 DEF HandedTo
  <2>2. CASE jar'[b] = [access |-> NoToken, refresh |-> NoToken]
    BY <2>2 DEF HandedTo
  <2>3. CASE /\ jar'[b] = [access |-> r, refresh |-> r] /\ asked[r].browser = b
             /\ asked[r].kind \notin {"logout", "ws"} /\ status[r] \in {200, 201}
    <3>1. at[r] = "answer" /\ at'[r] = "done" /\ asked'[r] = asked[r]
      BY <1>2 DEF Gets
    <3>2. asked[r].kind \in {"signup", "login", "refresh"}
      BY <2>3, <3>1 DEF Typed, WellSent, Kinds
    <3>3. Granted(r, b)
      BY <2>3, <3>2 DEF Granted, Ownership, RefreshOwn
    <3>4. Granted(r, b)'
      BY <3>1, <3>3, GrantedKept DEF Ownership, After
    <3>. QED
      BY <2>3, <3>1, <3>4 DEF HandedTo
  <2>. QED
    BY <1>2, <2>1, <2>2, <2>3 DEF Gets, Cookies, Typed, TypeOK
<1>3. (\E r \in Requests : Gets(r)) \/ UNCHANGED jar
  <2>1. \A r \in Requests : Asks(r) \/ Serves(r) \/ Loses(r) => UNCHANGED jar
    BY DEF Asks, Loses, Serves, Introduces, Accepts, LogsOut, Revokes, Stores, Admits, Refuses
  <2>. QED
    BY <2>1, StepDoes DEF Passing
<1>. QED
  BY <1>1, <1>2, <1>3

\* A request that was just sent carries what was in its client's jar.
LEMMA CookiesStep ==
  ASSUME Typed, Begun, Ownership, [Next]_vars
  PROVE  CookiesOwn' /\ BarredBefore'
<1>0. \A q \in Requests : at[q] # "idle" => asked'[q] = asked[q]
  BY Settled
<1>1. banned \subseteq banned'
  <2>1. \A r \in Requests : Asks(r) \/ Serves(r) \/ Gets(r) \/ Loses(r) => UNCHANGED banned
    BY DEF Asks, Gets, Loses, Serves, Introduces, Accepts, LogsOut, Revokes, Stores, Admits,
       Refuses
  <2>. QED
    BY <2>1, StepDoes DEF Passing
<1>2. \A r \in Requests : at[r] = "idle" /\ at'[r] # "idle" => Asks(r)
  <2>1. \A q, r \in Requests :
          Serves(r) \/ Gets(r) \/ Loses(r) => at[q] # "idle" \/ at'[q] = at[q]
    BY DEF Gets, Loses, Serves, Introduces, Accepts, LogsOut, Revokes, Stores, Admits,
       Refuses, OnlyHandler, Before
  <2>2. \A q, r \in Requests : Asks(r) /\ q # r => at'[q] = at[q]
    BY DEF Asks
  <2>. QED
    BY <2>1, <2>2, StepDoes DEF Passing
<1>3. \A t, b : HandedTo(t, b) => HandedTo(t, b)'
  BY HandedKept DEF Ownership
<1>4. ASSUME NEW r \in Requests, at[r] # "idle"
      PROVE  /\ HandedTo(asked[r].access, asked[r].browser)'
             /\ HandedTo(asked[r].refresh, asked[r].browser)'
             /\ asked'[r].barred \subseteq banned'
  <2>1. /\ HandedTo(asked[r].access, asked[r].browser)
        /\ HandedTo(asked[r].refresh, asked[r].browser)
        /\ asked[r].barred \subseteq banned
    BY <1>4 DEF Ownership, CookiesOwn, BarredBefore
  <2>. QED
    BY <1>0, <1>1, <1>3, <1>4, <2>1 DEF HandedTo
<1>5. ASSUME NEW r \in Requests, Asks(r)
      PROVE  /\ HandedTo(asked[r].access, asked[r].browser)'
             /\ HandedTo(asked[r].refresh, asked[r].browser)'
             /\ asked'[r].barred \subseteq banned'
  <2> DEFINE b == asked'[r].browser
  <2>1. b \in Browsers /\ asked'[r].barred = banned
        /\ asked'[r].access \in {NoToken, jar[b].access}
        /\ asked'[r].refresh \in {NoToken, jar[b].refresh}
    BY <1>5 DEF Asks
  <2>2. HandedTo(asked'[r].access, b) /\ HandedTo(asked'[r].refresh, b)
    BY <2>1 DEF Ownership, JarsOwn, HandedTo
  <2>. QED
    BY <1>1, <1>3, <2>1, <2>2 DEF HandedTo
<1>. QED
  BY <1>2, <1>4, <1>5 DEF CookiesOwn, BarredBefore

\* Users are found through the token that was shown.
LEMMA UsersStep ==
  ASSUME Typed, Begun, Ownership, [Next]_vars
  PROVE  RefreshOwn' /\ AdmittedOwn'
<1>0. \A q \in Requests : at[q] # "idle" => asked'[q] = asked[q]
  BY Settled
<1>1. ASSUME NEW r \in Requests, asked'[r].kind = "refresh",
             at'[r] \in {"revoke", "save"} \/ status'[r] \in {200, 201}
      PROVE  /\ at[r] # "idle"
             /\ at[r] \in {"revoke", "save"} \/ status[r] \in {200, 201} \/ Accepts(r)
  <2>1. ASSUME NEW q \in Requests, q # r, Asks(q) \/ Serves(q) \/ Gets(q) \/ Loses(q)
        PROVE  at'[r] = at[r] /\ status'[r] = status[r]
    BY <2>1 DEF Asks, Gets, Loses, Serves, Introduces, Accepts, LogsOut, Revokes, Stores,
       Admits, Refuses, OnlyHandler
  <2>2. at[r] = "idle" => status[r] = 0
    BY DEF Begun
  <2>3. CASE Asks(r)
    BY <1>1, <2>2, <2>3 DEF Asks
  <2>4. CASE Gets(r) \/ Loses(r)
    BY <1>1, <2>2, <2>4 DEF Gets, Loses
  <2>5. CASE Serves(r)
    <3>1. asked'[r] = asked[r] /\ at[r] # "idle"
      BY <1>0, <2>5 DEF Serves, Introduces, Accepts, LogsOut, Revokes, Stores, Admits, Refuses,
         Before
    <3>. QED
      BY <1>1, <2>5, <3>1 DEF Serves, Introduces, LogsOut, Revokes, Stores, Admits, Refuses
  <2>6. CASE Passing
    BY <1>1, <2>2, <2>6 DEF Passing
  <2>. QED
    BY <1>1, <2>1, <2>2, <2>3, <2>4, <2>5, <2>6, StepDoes
<1>2. ASSUME NEW r \in Requests, status'[r] = 101
      PROVE  status[r] = 101 \/ Admits(r)
  BY <1>2, StepDoes DEF Passing, Asks, Gets, Loses, Serves, Introduces, Accepts, LogsOut,
     Revokes, Stores, Admits, Refuses, OnlyHandler
<1>3. ASSUME NEW r \in Requests, at[r] \in After \cup {"revoke", "save"},
             Granted(r, asked[r].browser)
      PROVE  Granted(r, asked[r].browser)'
  <2>1. asked'[r] = asked[r]
    BY <1>0, <1>3 DEF After
  <2> DEFINE b == asked[r].browser
  <2>3. Granted(r, b)
    BY <1>3
  <2>4. \A d : Granted(r, d) => Granted(r, d)'
    BY <1>3, GrantedKept DEF Ownership
  <2>. QED
    BY <2>1, <2>3, <2>4 DEF Granted
<1>4. ASSUME NEW r \in Requests, NEW t \in Requests, at[r] # "idle", user'[r] = user[t],
             t = asked[r].access \/ t = asked[r].refresh
      PROVE  Granted(r, asked[r].browser)'
  <2>1. t # NoToken /\ HandedTo(t, asked[r].browser)
    BY <1>4, Tokens DEF Ownership, CookiesOwn
  <2>2. at[t] = "done" /\ Granted(t, asked[r].browser)
    BY <2>1 DEF HandedTo
  <2>3. user'[t] = user[t] /\ asked'[r] = asked[r]
    BY <1>0, <1>4, <2>2, Settled DEF After
  <2>4. \A d : Granted(t, d) => Granted(t, d)'
    BY <2>2, GrantedKept DEF Ownership, After
  <2>. QED
    BY <1>4, <2>2, <2>3, <2>4 DEF Granted
<1>5. ASSUME NEW r \in Requests, status[r] # 0
      PROVE  at[r] \in After /\ at[r] # "idle" /\ asked'[r] = asked[r] /\ user'[r] = user[r]
  <2>1. at[r] \in After
    BY <1>5 DEF Ownership, Answered
  <2>. QED
    BY <1>0, <2>1, Settled DEF After
<1>6. RefreshOwn'
  <2>. SUFFICES ASSUME NEW r \in Requests, asked'[r].kind = "refresh",
                       at'[r] \in {"revoke", "save"} \/ status'[r] \in {200, 201}
                PROVE  Granted(r, asked[r].browser)'
    BY DEF RefreshOwn
  <2>1. CASE Accepts(r)
    BY <1>4, <2>1 DEF Accepts
  <2>2. CASE at[r] \in {"revoke", "save"} \/ status[r] \in {200, 201}
    <3>1. at[r] \in After \cup {"revoke", "save"} /\ asked'[r] = asked[r]
      BY <1>0, <1>5, <2>2
    <3>2. Granted(r, asked[r].browser)
      BY <2>2, <3>1 DEF Ownership, RefreshOwn
    <3>. QED
      BY <1>3, <3>1, <3>2
  <2>. QED
    BY <1>1, <2>1, <2>2
<1>7. AdmittedOwn'
  <2>. SUFFICES ASSUME NEW r \in Requests, status'[r] = 101
                PROVE  Granted(r, asked[r].browser)' /\ user'[r] \notin asked'[r].barred
    BY DEF AdmittedOwn
  <2>1. CASE status[r] = 101
    BY <1>3, <1>5, <2>1 DEF Ownership, AdmittedOwn
  <2>2. CASE Admits(r)
    <3>1. at[r] # "idle" /\ asked'[r] = asked[r] /\ asked[r].barred \subseteq banned
      BY <1>0, <2>2 DEF Admits, Ownership, BarredBefore
    <3>. QED
      BY <1>4, <2>2, <3>1 DEF Admits
  <2>. QED
    BY <1>2, <2>1, <2>2
<1>. QED
  BY <1>6, <1>7

LEMMA OwnershipStep == Typed /\ Rotation /\ Ownership /\ [Next]_vars => Ownership'
BY AnsweredStep, JarsStep, CookiesStep, UsersStep DEF Ownership, Rotation

LEMMA OwnershipInit == Init => Ownership
BY DEF Init, Ownership, Answered, JarsOwn, CookiesOwn, RefreshOwn, AdmittedOwn, BarredBefore,
   HandedTo

LEMMA OwnershipInvariant == Spec => []Ownership
BY OwnershipInit, OwnershipStep, RotationInvariant, PTL DEF Spec

\* Along every chain of refreshes, a connection is admitted for the user who
\* signed up or logged in with the same client, and never for one who was banned
\* before it was asked for.
THEOREM AdmittedAsSelfHolds == Spec => []AdmittedAsSelf
<1>1. Ownership => AdmittedAsSelf
  BY DEF Ownership, AdmittedOwn, Granted, AdmittedAsSelf
<1>. QED
  BY <1>1, OwnershipInvariant, PTL

-----------------------------------------------------------------------------
(***************************************************************************)
(* What overlapping requests leave a client with                           *)
(***************************************************************************)

\* Every address is one that net.ParseIP accepts.  It is so unless a client sends
\* a text of its own as X-Forwarded-For.
ParsableAddresses == \A c \in Contexts : AddrOf[c] \in IPs

\* Refresh token t can be exchanged, or its week is over.
Good(t) == age[t] = "expired" \/ refresh_tokens[t] = "valid"

\* The answer to r will replace the cookie of its client.
Replacing(r) ==
  \/ at[r] = "save" /\ asked[r].kind = "refresh"
  \/ at[r] = "answer" /\ asked[r].kind = "logout"
  \/ at[r] = "answer" /\ asked[r].kind = "refresh" /\ status[r] \in {200, 201}

JarsGood ==
  \A b \in Browsers : jar[b].refresh # NoToken =>
    \/ Good(jar[b].refresh)
    \/ \E r \in Requests : asked[r].browser = b /\ Replacing(r)

\* A refresh that goes on comes from where its new row fits the column.
Storable ==
  \A r \in Requests :
    asked[r].kind = "refresh" /\ at[r] \in {"revoke", "save"} => AgentOf[asked[r].ctx] \in IPs

\* What is in an answer that is under way can be used when it arrives.
AnswersGood ==
  \A r \in Requests :
    /\ at[r] = "answer" /\ asked[r].kind \in {"signup", "login", "refresh"}
    /\ status[r] \in {200, 201}
    => Good(r)

Unharmed == faults = 0 => JarsGood /\ Storable /\ AnswersGood

\* Failures are counted and not forgotten.
LEMMA FaultsGrow ==
  ASSUME Typed, [Next]_vars, faults' = 0
  PROVE  faults = 0
<1>. USE DEF Typed
<1>1. ASSUME NEW r \in Requests, Handler(r)
      PROVE  UNCHANGED faults \/ faults' = faults + 1 \/ \E o \in Outcomes : Count(o)
  BY <1>1 DEF Handler, SignupByName, SignupByEmail, SignupCreate, LoginByName, RefreshLookup,
     LogoutLookup, RevokeToken, SaveRefreshToken, Authenticate, ReadFails
<1>2. ASSUME NEW r \in Requests, NEW q \in Plan[r], Client(r, q)
      PROVE  UNCHANGED faults
  BY <1>2 DEF Client, SendSignup, SendLogin, SendRefresh, SendLogout, SendWS, Send
<1>3. ASSUME NEW r \in Requests, Receive(r) \/ Lose(r) \/ Age(r) \/ Ban(r)
      PROVE  UNCHANGED faults \/ faults' = faults + 1
  BY <1>3 DEF Receive, Lose, Age, Ban
<1>4. CASE Purge \/ UNCHANGED vars
  BY <1>4 DEF Purge, vars
<1>5. faults' # faults + 1
  BY AuthAssumption DEF TypeOK
<1>. QED
  BY <1>1, <1>2, <1>3, <1>4, <1>5, Counted DEF Next

\* Rows that can be used are lost to RevokeToken alone, as long as nothing fails.
LEMMA GoodKept ==
  ASSUME Typed, Begun, [Next]_vars, NEW t \in Requests, Good(t)
  PROVE  \/ Good(t)'
         \/ \E r \in Requests : Revokes(r) /\ asked[r].refresh = t
<1>. USE DEF Good
<1>1. CASE Passing
  BY <1>1 DEF Passing
<1>2. ASSUME NEW r \in Requests, Asks(r) \/ Gets(r) \/ Loses(r)
      PROVE  Good(t)'
  BY <1>2 DEF Asks, Gets, Loses
<1>3. ASSUME NEW r \in Requests, Introduces(r) \/ Accepts(r) \/ LogsOut(r) \/ Admits(r) \/ Refuses(r)
      PROVE  Good(t)'
  BY <1>3 DEF Introduces, Accepts, LogsOut, Admits, Refuses
<1>4. ASSUME NEW r \in Requests, Revokes(r), asked[r].refresh # t
      PROVE  Good(t)'
  BY <1>4 DEF Revokes
<1>5. ASSUME NEW r \in Requests, Stores(r)
      PROVE  Good(t)'
  <2>1. refresh_tokens[t] = "valid" => t # r
    BY <1>5 DEF Stores, Begun, After
  <2>. QED
    BY <1>5, <2>1 DEF Stores
<1>. QED
  BY <1>1, <1>2, <1>3, <1>4, <1>5, StepDoes DEF Serves

\* The one whose token is revoked is told, unless a failure was counted.
LEMMA RevokedReplaced ==
  ASSUME Typed, Ownership, NEW r \in Requests, Revokes(r), faults' = 0,
         NEW b \in Browsers, jar[b].refresh = asked[r].refresh, ~Good(jar[b].refresh)',
         Good(jar[b].refresh)
  PROVE  asked'[r].browser = b /\ Replacing(r)'
<1>1. asked[r].refresh \in Requests /\ at[r] # "idle" /\ asked[r].refresh # NoToken
      /\ UNCHANGED <<asked, jar, age>>
  BY Tokens DEF Revokes, OnlyHandler
<1>2. asked[r].browser = b
  BY <1>1 DEF Ownership, CookiesOwn, JarsOwn, HandedTo
<1>3. ~UNCHANGED refresh_tokens
  BY <1>1 DEF Good
<1>4. \/ asked[r].kind = "refresh" /\ at'[r] = "save"
      \/ asked[r].kind = "logout" /\ at'[r] = "answer"
  BY <1>3 DEF Revokes
<1>. QED
  BY <1>1, <1>2, <1>4 DEF Replacing

\* Who is about to be told stays so until the answer is received.
LEMMA ReplacingKept ==
  ASSUME Typed, Begun, [Next]_vars, Storable, NEW r \in Requests, Replacing(r), ~Gets(r),
         faults' = 0
  PROVE  Replacing(r)' /\ asked'[r] = asked[r]
<1>1. at[r] \in {"save", "answer"} /\ asked'[r] = asked[r]
  BY Settled DEF Replacing
<1>2. CASE at'[r] = at[r] /\ status'[r] = status[r]
  BY <1>1, <1>2 DEF Replacing
<1>3. CASE Stores(r)
  <2>1. asked[r].kind = "refresh" /\ AgentOf[asked[r].ctx] \in IPs
    BY <1>3 DEF Stores, Replacing, Storable
  <2>2. TokenModel(r).ip # None
    BY <2>1, AuthAssumption DEF TokenModel, CreateRefreshToken, ParseIP
  <2>3. at'[r] = "answer" /\ status'[r] = 200
    BY <1>3, <2>1, <2>2 DEF Stores
  <2>. QED
    BY <1>1, <2>1, <2>3 DEF Replacing
<1>4. ASSUME NEW q \in Requests, q # r, Asks(q) \/ Serves(q) \/ Gets(q) \/ Loses(q)
      PROVE  at'[r] = at[r] /\ status'[r] = status[r]
  BY <1>4 DEF Asks, Gets, Loses, Serves, Introduces, Accepts, LogsOut, Revokes, Stores,
     Admits, Refuses, OnlyHandler
<1>5. ~Asks(r) /\ ~Loses(r) /\ (Serves(r) => Stores(r))
  BY <1>1 DEF Asks, Loses, Serves, Introduces, Accepts, LogsOut, Revokes, Admits, Refuses, Before
<1>6. CASE Passing
  BY <1>2, <1>6 DEF Passing
<1>. QED
  BY <1>2, <1>3, <1>4, <1>5, <1>6, StepDoes

LEMMA JarsGoodStep ==
  ASSUME Typed, Begun, Ownership, [Next]_vars, JarsGood, Storable, AnswersGood, faults' = 0
  PROVE  JarsGood'
<1>. SUFFICES ASSUME NEW b \in Browsers, jar'[b].refresh # NoToken
              PROVE  \/ Good(jar[b].refresh)'
                     \/ \E r \in Requests : asked'[r].browser = b /\ Replacing(r)'
  BY DEF JarsGood
<1>1. CASE jar'[b] = jar[b]
  <2>1. jar[b].refresh \in Requests
    BY <1>1 DEF Typed, TypeOK, Maybe
  <2>2. CASE Good(jar[b].refresh)
    <3>1. CASE Good(jar[b].refresh)'
      BY <3>1
    <3>2. CASE ~Good(jar[b].refresh)'
      <4>1. \A t \in Requests : Good(t) /\ ~Good(t)' =>
              \E r \in Requests : Revokes(r) /\ asked[r].refresh = t
        BY GoodKept
      <4>2. PICK r \in Requests : Revokes(r) /\ asked[r].refresh = jar[b].refresh
        BY <1>1, <2>1, <2>2, <3>2, <4>1 DEF Good
      <4>. QED
        BY <2>2, <3>2, <4>2, RevokedReplaced
    <3>. QED
      BY <3>1, <3>2
  <2>3. ASSUME NEW r \in Requests, asked[r].browser = b, Replacing(r)
        PROVE  asked'[r].browser = b /\ Replacing(r)'
    <3>1. ~Gets(r)
      <4>1. SUFFICES ASSUME Gets(r) PROVE FALSE
        OBVIOUS
      <4>2. jar'[b] = Cookies(r) /\ at[r] = "answer"
        BY <2>3, <4>1 DEF Gets, Typed, TypeOK
      <4>3. asked[r].kind = "refresh" /\ jar'[b].refresh = r
        BY <2>3, <4>2 DEF Cookies, Replacing
      <4>4. jar[b].refresh = r
        BY <1>1, <4>3
      <4>. QED
        BY <4>2, <4>4, Tokens DEF Ownership, JarsOwn, HandedTo
    <3>. QED
      BY <2>3, <3>1, ReplacingKept
  <2>. QED
    BY <1>1, <2>2, <2>3 DEF JarsGood
<1>2. ASSUME NEW r \in Requests, Gets(r), asked[r].browser = b, jar'[b] # jar[b]
      PROVE  Good(jar[b].refresh)'
  <2>1. jar'[b] = Cookies(r) /\ at[r] = "answer" /\ UNCHANGED <<age, refresh_tokens>>
    BY <1>2 DEF Gets, Typed, TypeOK
  <2>2. /\ jar'[b].refresh = r /\ status[r] \in {200, 201}
        /\ asked[r].kind \in {"signup", "login", "refresh"}
    BY <1>2, <2>1 DEF Cookies, Typed, WellSent, Kinds
  <2>3. Good(r)
    BY <2>1, <2>2 DEF AnswersGood
  <2>. QED
    BY <2>1, <2>2, <2>3 DEF Good
<1>3. jar'[b] = jar[b] \/ \E r \in Requests : Gets(r) /\ asked[r].browser = b
  <2>1. \A r \in Requests : Asks(r) \/ Serves(r) \/ Loses(r) => UNCHANGED jar
    BY DEF Asks, Loses, Serves, Introduces, Accepts, LogsOut, Revokes, Stores, Admits, Refuses
  <2>2. \A r \in Requests : Gets(r) => jar'[b] = jar[b] \/ asked[r].browser = b
    BY DEF Gets, Typed, TypeOK
  <2>. QED
    BY <2>1, <2>2, StepDoes DEF Passing
<1>. QED
  BY <1>1, <1>2, <1>3

LEMMA StorableStep ==
  ASSUME Typed, Begun, Ownership, [Next]_vars, Storable, ParsableAddresses
  PROVE  Storable'
<1>. SUFFICES ASSUME NEW r \in Requests, asked'[r].kind = "refresh", at'[r] \in {"revoke", "save"}
              PROVE  AgentOf[asked'[r].ctx] \in IPs
  BY DEF Storable
<1>1. \/ at[r] \in {"revoke", "save"}
      \/ Accepts(r)
      \/ at[r] # "idle" /\ asked[r].kind # "refresh"
  <2>1. ASSUME NEW q \in Requests, q # r, Asks(q) \/ Serves(q) \/ Gets(q) \/ Loses(q)
        PROVE  at'[r] = at[r]
    BY <2>1 DEF Asks, Gets, Loses, Serves, Introduces, Accepts, LogsOut, Revokes, Stores,
       Admits, Refuses, OnlyHandler
  <2>2. ~Asks(r) /\ ~Gets(r) /\ ~Loses(r)
    BY DEF Asks, Gets, Loses
  <2>3. CASE Serves(r)
    BY <2>3 DEF Serves, Introduces, LogsOut, Revokes, Stores, Admits, Refuses
  <2>. QED
    BY <2>1, <2>2, <2>3, StepDoes DEF Passing
<1>2. CASE at[r] \in {"revoke", "save"}
  BY <1>2, Settled DEF Storable
<1>3. CASE at[r] # "idle" /\ asked[r].kind # "refresh"
  BY <1>3, Settled
<1>4. CASE Accepts(r)
  <2> DEFINE t == asked[r].refresh
  <2>1. t \in Requests /\ t # NoToken /\ at[r] # "idle" /\ SameContext(r, t) /\ asked' = asked
    BY <1>4, Tokens DEF Accepts, OnlyHandler
  <2>2. at[t] = "done"
    BY <2>1 DEF Ownership, CookiesOwn, HandedTo
  <2>3. asked[t].ctx \in Contexts
    BY <2>1, <2>2 DEF Typed, WellSent
  <2>4. AgentOf[asked[r].ctx] = AddrOf[asked[t].ctx]
    BY <2>1 DEF SameContext, TokenModel, CreateRefreshToken
  <2>. QED
    BY <2>1, <2>3, <2>4 DEF ParsableAddresses
<1>. QED
  BY <1>1, <1>2, <1>3, <1>4

LEMMA AnswersGoodStep ==
  ASSUME Typed, Begun, Ownership, [Next]_vars, AnswersGood
  PROVE  AnswersGood'
<1>. SUFFICES ASSUME NEW r \in Requests, at'[r] = "answer", status'[r] \in {200, 201},
                     asked'[r].kind \in {"signup", "login", "refresh"}
              PROVE  Good(r)'
  BY DEF AnswersGood
<1>1. \/ at[r] = "answer" /\ status[r] = status'[r]
      \/ Stores(r)
      \/ at[r] # "idle" /\ asked[r].kind = "logout"
  <2>1. ASSUME NEW q \in Requests, q # r, Asks(q) \/ Serves(q) \/ Gets(q) \/ Loses(q)
        PROVE  at'[r] = at[r] /\ status'[r] = status[r]
    BY <2>1 DEF Asks, Gets, Loses, Serves, Introduces, Accepts, LogsOut, Revokes, Stores,
       Admits, Refuses, OnlyHandler
  <2>2. ~Asks(r) /\ ~Gets(r) /\ ~Loses(r)
    BY DEF Asks, Gets, Loses
  <2>3. CASE Serves(r)
    BY <2>3 DEF Serves, Introduces, Accepts, LogsOut, Revokes, Admits, Refuses
  <2>. QED
    BY <2>1, <2>2, <2>3, StepDoes DEF Passing
<1>2. CASE at[r] # "idle" /\ asked[r].kind = "logout"
  BY <1>2, Settled
<1>3. CASE Stores(r)
  BY <1>3 DEF Stores, Good
<1>4. CASE at[r] = "answer" /\ status[r] = status'[r]
  <2>1. Good(r)
    BY <1>4, Settled DEF AnswersGood
  <2>2. ASSUME NEW q \in Requests, Revokes(q), asked[q].refresh = r
        PROVE  FALSE
    BY <1>4, <2>2, Tokens DEF Revokes, Ownership, CookiesOwn, HandedTo
  <2>. QED
    BY <2>1, <2>2, GoodKept
<1>. QED
  BY <1>1, <1>2, <1>3, <1>4

\* As long as nothing fails, the refresh cookie of a client is usable or about to
\* be replaced, whatever its requests and the purge do at the same time; so it is
\* usable when all of them are answered.
THEOREM JarUsableHolds ==
  ASSUME ParsableAddresses
  PROVE  Spec => []JarUsable
<1>1. Init => Unharmed
  BY DEF Init, Unharmed, JarsGood, Storable, AnswersGood
<1>2. (Typed /\ Rotation) /\ Ownership /\ Unharmed /\ [Next]_vars => Unharmed'
  <2>. SUFFICES ASSUME Typed, Rotation, Ownership, Unharmed, [Next]_vars, faults' = 0
                PROVE  JarsGood' /\ Storable' /\ AnswersGood'
    BY DEF Unharmed
  <2>1. Begun /\ faults = 0 /\ JarsGood /\ Storable /\ AnswersGood
    BY FaultsGrow DEF Rotation, Unharmed
  <2>. QED
    BY <2>1, JarsGoodStep, StorableStep, AnswersGoodStep
<1>3. Unharmed => JarUsable
  <2>. SUFFICES ASSUME Unharmed, faults = 0, NEW b \in Browsers, Quiet(b),
                       jar[b].refresh # NoToken
                PROVE  Good(jar[b].refresh)
    BY DEF JarUsable, Good
  <2>. QED
    BY DEF Unharmed, JarsGood, Quiet, Replacing
<1>. QED
  BY <1>1, <1>2, <1>3, RotationInvariant, OwnershipInvariant, PTL DEF Spec
=============================================================================
