------------------------- MODULE AuthSessionProofs -------------------------
(***************************************************************************)
(* Proofs about AuthSession: its type invariant, what the rotation of      *)
(* refresh tokens promises, and that it implements SessionBaton.           *)
(***************************************************************************)
EXTENDS AuthSession, TLAPS

\* A request that was sent is from a browser, in a context, of a kind, and its
\* handler is where such a handler goes.  It revokes only what it was shown.
WellSent ==
  \A r \in Requests : at[r] # "idle" =>
    /\ asked[r].kind \in Kinds
    /\ asked[r].browser \in Browsers
    /\ asked[r].ctx \in Contexts
    /\ at[r] = "revoke" => asked[r].refresh # NoToken

Typed == TypeOK /\ WellSent

LEMMA SentTyped ==
  ASSUME NEW r \in Requests, NEW q \in Plan[r], NEW access \in Maybe,
         NEW refresh \in Maybe, NEW barred \in SUBSET Requests
  PROVE  /\ Sent(q, access, refresh, barred) \in Request
         /\ Sent(q, access, refresh, barred).kind = q.kind
         /\ Sent(q, access, refresh, barred).browser = q.browser
         /\ Sent(q, access, refresh, barred).ctx = q.ctx
         /\ Sent(q, access, refresh, barred).access = access
         /\ Sent(q, access, refresh, barred).refresh = refresh
         /\ Sent(q, access, refresh, barred).barred = barred
         /\ q \in Question
<1>1. q \in Question
  BY AuthAssumption
<1>. QED
  BY <1>1 DEF Sent, Request, Question

LEMMA NoRequestTyped == NoRequest \in Request /\ NoRequest.kind = "none"
BY DEF NoRequest, NoQuestion, Sent, Request, Maybe

LEMMA InitTyped == Init => Typed
<1>. SUFFICES ASSUME Init PROVE Typed
  OBVIOUS
<1>1. asked \in [Requests -> Request]
  BY NoRequestTyped DEF Init
<1>2. faults \in 0..MaxFaults
  BY AuthAssumption DEF Init
<1>3. jar \in [Browsers -> [access : Maybe, refresh : Maybe]]
  BY DEF Init, Maybe
<1>. QED
  BY <1>1, <1>2, <1>3 DEF Init, Typed, TypeOK, WellSent, Maybe, Places

-----------------------------------------------------------------------------
(***************************************************************************)
(* Type correctness                                                        *)
(***************************************************************************)

\* What a step of one handler may do to the places and the answers.
Moves(r) ==
  \/ \E place \in Places \ {"revoke"} : Goto(r, place)
  \/ Goto(r, "revoke") /\ asked[r].refresh # NoToken
  \/ \E code \in {101, 200, 201, 400, 401, 403, 409, 500, 503} : Answer(r, code)

LEMMA MovesTyped ==
  ASSUME TypeOK, NEW r \in Requests, Moves(r)
  PROVE  /\ at' \in [Requests -> Places]
         /\ status' \in [Requests -> {0, 101, 200, 201, 400, 401, 403, 409, 500, 503}]
         /\ \A q \in Requests : q # r => at'[q] = at[q]
         /\ at'[r] = "revoke" => asked[r].refresh # NoToken
BY DEF TypeOK, Moves, Goto, Answer, Places

\* A step of a handler leaves what was asked alone.
LEMMA WellSentKept ==
  ASSUME Typed, NEW r \in Requests, at[r] # "idle", Moves(r), UNCHANGED asked
  PROVE  WellSent'
BY MovesTyped DEF Typed, WellSent

LEMMA CountTyped ==
  ASSUME TypeOK, NEW outcome \in Outcomes, Count(outcome)
  PROVE  faults' \in 0..MaxFaults
BY AuthAssumption DEF TypeOK, Outcomes, Count

LEMMA ReadFailsTyped ==
  ASSUME Typed, NEW r \in Requests, at[r] # "idle", ReadFails(r)
  PROVE  Typed'
<1>1. Moves(r)
  BY DEF ReadFails, Moves
<1>2. faults' \in 0..MaxFaults
  BY AuthAssumption DEF Typed, TypeOK, ReadFails
<1>. QED
  BY <1>1, <1>2, MovesTyped, WellSentKept DEF Typed, TypeOK, ReadFails, tables

LEMMA SendTyped ==
  ASSUME Typed, NEW r \in Requests, NEW q \in Plan[r], Client(r, q)
  PROVE  Typed'
<1>1. q \in Question
  BY AuthAssumption
<1>2. /\ jar[q.browser].refresh \in Maybe
      /\ jar[q.browser].access \in Maybe
      /\ NoToken \in Maybe
      /\ banned \in SUBSET Requests
  BY <1>1 DEF Typed, TypeOK, Question, Maybe
<1>3. \E access, refresh \in Maybe : \E place \in {"byName", "lookup", "access"} :
        Send(r, q, access, refresh, place)
  BY <1>2 DEF Client, SendSignup, SendLogin, SendRefresh, SendLogout, SendWS
<1>4. PICK access \in Maybe, refresh \in Maybe, place \in {"byName", "lookup", "access"} :
        Send(r, q, access, refresh, place)
  BY <1>3
<1>5. Moves(r)
  BY <1>4 DEF Send, Moves, Places
<1>6. /\ asked' = [asked EXCEPT ![r] = Sent(q, access, refresh, banned)]
      /\ Sent(q, access, refresh, banned) \in Request
  BY <1>2, <1>4, SentTyped DEF Send
<1>7. asked' \in [Requests -> Request]
  BY <1>6 DEF Typed, TypeOK
<1>8. /\ asked'[r].kind \in Kinds
      /\ asked'[r].browser \in Browsers
      /\ asked'[r].ctx \in Contexts
      /\ at'[r] # "revoke"
  BY <1>1, <1>2, <1>4, <1>6, SentTyped DEF Send, Goto, Typed, TypeOK, Question
<1>9. \A p \in Requests : p # r => asked'[p] = asked[p]
  BY <1>6 DEF Typed, TypeOK
<1>10. WellSent'
  BY <1>5, <1>8, <1>9, MovesTyped DEF Typed, WellSent
<1>. QED
  BY <1>4, <1>5, <1>7, <1>10, MovesTyped DEF Typed, TypeOK, Send, tables

LEMMA SignupTyped ==
  ASSUME Typed, NEW r \in Requests, SignupByName(r) \/ SignupByEmail(r) \/ SignupCreate(r)
  PROVE  Typed'
<1>1. CASE SignupByName(r)
  <2>1. CASE ReadFails(r)
    BY <1>1, <2>1, ReadFailsTyped DEF SignupByName
  <2>2. CASE ~ReadFails(r)
    <3>1. Moves(r) /\ at[r] # "idle"
      BY <1>1, <2>2 DEF SignupByName, Moves, Places
    <3>. QED
      BY <1>1, <2>2, <3>1, MovesTyped, WellSentKept DEF SignupByName, Typed, TypeOK, tables
  <2>. QED
    BY <2>1, <2>2
<1>2. CASE SignupByEmail(r)
  <2>1. CASE ReadFails(r)
    BY <1>2, <2>1, ReadFailsTyped DEF SignupByEmail
  <2>2. CASE ~ReadFails(r)
    <3>1. Moves(r) /\ at[r] # "idle"
      BY <1>2, <2>2 DEF SignupByEmail, Moves, Places
    <3>. QED
      BY <1>2, <2>2, <3>1, MovesTyped, WellSentKept DEF SignupByEmail, Typed, TypeOK, tables
  <2>. QED
    BY <2>1, <2>2
<1>3. CASE SignupCreate(r)
  <2>1. Moves(r) /\ at[r] # "idle"
    BY <1>3 DEF SignupCreate, Moves, Places
  <2>2. faults' \in 0..MaxFaults
    BY <1>3, CountTyped DEF SignupCreate, Typed
  <2>3. user' \in [Requests -> Maybe] /\ family' \in [Requests -> Maybe]
    BY <1>3 DEF SignupCreate, Typed, TypeOK, Maybe
  <2>4. users' \in SUBSET Requests /\ banned' \in SUBSET users'
    BY <1>3 DEF SignupCreate, Typed, TypeOK
  <2>. QED
    BY <1>3, <2>1, <2>2, <2>3, <2>4, MovesTyped, WellSentKept
    DEF SignupCreate, Typed, TypeOK
<1>. QED
  BY <1>1, <1>2, <1>3

LEMMA LoginTyped ==
  ASSUME Typed, NEW r \in Requests, LoginByName(r)
  PROVE  Typed'
<1>1. CASE ReadFails(r)
  BY <1>1, ReadFailsTyped DEF LoginByName
<1>2. CASE ~ReadFails(r)
  <2>1. Moves(r) /\ at[r] # "idle"
    BY <1>2 DEF LoginByName, Moves, Places
  <2>2. user' \in [Requests -> Maybe] /\ family' \in [Requests -> Maybe]
    BY <1>2 DEF LoginByName, Named, Typed, TypeOK, Maybe
  <2>. QED
    BY <1>2, <2>1, <2>2, MovesTyped, WellSentKept DEF LoginByName, Typed, TypeOK, tables
<1>. QED
  BY <1>1, <1>2

LEMMA RefreshLookupTyped ==
  ASSUME Typed, NEW r \in Requests, RefreshLookup(r)
  PROVE  Typed'
<1>1. CASE ReadFails(r)
  BY <1>1, ReadFailsTyped DEF RefreshLookup
<1>2. CASE ~ReadFails(r)
  <2>1. Moves(r) /\ at[r] # "idle"
    BY <1>2 DEF RefreshLookup, Moves, Places
  <2>2. asked[r].refresh \in Maybe
    BY DEF Typed, TypeOK, Request
  <2>3. user' \in [Requests -> Maybe]
    BY <1>2, <2>2 DEF RefreshLookup, Typed, TypeOK, Maybe
  <2>. QED
    BY <1>2, <2>1, <2>3, MovesTyped, WellSentKept DEF RefreshLookup, Typed, TypeOK, tables
<1>. QED
  BY <1>1, <1>2

LEMMA LogoutLookupTyped ==
  ASSUME Typed, NEW r \in Requests, LogoutLookup(r)
  PROVE  Typed'
<1>1. Moves(r) /\ at[r] # "idle"
  BY DEF LogoutLookup, Moves, Places
<1>2. faults' \in 0..MaxFaults
  BY AuthAssumption DEF LogoutLookup, Typed, TypeOK
<1>. QED
  BY <1>1, <1>2, MovesTyped, WellSentKept DEF LogoutLookup, Typed, TypeOK, tables

LEMMA RevokeTyped ==
  ASSUME Typed, NEW r \in Requests, RevokeToken(r)
  PROVE  Typed'
<1>1. Moves(r) /\ at[r] # "idle"
  BY DEF RevokeToken, Moves, Places
<1>2. faults' \in 0..MaxFaults
  BY CountTyped DEF RevokeToken, Typed
<1>3. refresh_tokens' \in [Requests -> {"absent", "valid", "revoked"}]
  <2>1. \/ refresh_tokens' = [refresh_tokens EXCEPT ![asked[r].refresh] = "revoked"]
        \/ UNCHANGED refresh_tokens
    BY DEF RevokeToken
  <2>. QED
    BY <2>1 DEF Typed, TypeOK
<1>4. asked[r].refresh \in Maybe
  BY DEF Typed, TypeOK, Request
<1>5. PICK outcome \in Outcomes :
        \/ /\ Revoked(asked[r].refresh, outcome)
           /\ family' = [family EXCEPT ![r] = family[asked[r].refresh]]
        \/ UNCHANGED family
  BY DEF RevokeToken
<1>6. family' \in [Requests -> Maybe]
  <2>1. CASE UNCHANGED family
    BY <2>1 DEF Typed, TypeOK
  <2>2. CASE family' = [family EXCEPT ![r] = family[asked[r].refresh]] /\ asked[r].refresh \in Requests
    BY <2>2 DEF Typed, TypeOK
  <2>3. asked[r].refresh # NoToken
    BY DEF RevokeToken, Typed, WellSent
  <2>. QED
    BY <1>4, <1>5, <2>1, <2>2, <2>3 DEF Maybe
<1>. QED
  BY <1>1, <1>2, <1>3, <1>6, MovesTyped, WellSentKept DEF RevokeToken, Typed, TypeOK

LEMMA SaveTyped ==
  ASSUME Typed, NEW r \in Requests, SaveRefreshToken(r)
  PROVE  Typed'
<1>1. Moves(r) /\ at[r] # "idle"
  BY DEF SaveRefreshToken, Moves
<1>2. faults' \in 0..MaxFaults
  BY CountTyped DEF SaveRefreshToken, Typed
<1>3. refresh_tokens' \in [Requests -> {"absent", "valid", "revoked"}]
  BY DEF SaveRefreshToken, Typed, TypeOK
<1>. QED
  BY <1>1, <1>2, <1>3, MovesTyped, WellSentKept DEF SaveRefreshToken, Typed, TypeOK

LEMMA AuthenticateTyped ==
  ASSUME Typed, NEW r \in Requests, Authenticate(r)
  PROVE  Typed'
<1>1. Moves(r) /\ at[r] # "idle"
  BY DEF Authenticate, Moves
<1>2. faults' \in 0..MaxFaults
  BY AuthAssumption DEF Authenticate, Typed, TypeOK
<1>3. asked[r].access \in Maybe
  BY DEF Typed, TypeOK, Request
<1>4. user' \in [Requests -> Maybe]
  BY <1>3 DEF Authenticate, Trusted, Admissible, Typed, TypeOK, Maybe
<1>. QED
  BY <1>1, <1>2, <1>4, MovesTyped, WellSentKept DEF Authenticate, Typed, TypeOK, tables

LEMMA ReceiveTyped ==
  ASSUME Typed, NEW r \in Requests, Receive(r)
  PROVE  Typed'
<1>1. asked[r].browser \in Browsers
  BY DEF Receive, Typed, WellSent
<1>2. Cookies(r) \in [access : Maybe, refresh : Maybe]
  BY <1>1 DEF Cookies, Typed, TypeOK, Maybe
<1>3. jar' \in [Browsers -> [access : Maybe, refresh : Maybe]]
  BY <1>2 DEF Receive, Typed, TypeOK
<1>4. at' \in [Requests -> Places] /\ \A q \in Requests : at'[q] = at[q] \/ (at[q] # "idle" /\ at'[q] = "done")
  BY DEF Receive, Typed, TypeOK, Places
<1>. QED
  BY <1>3, <1>4 DEF Receive, Typed, TypeOK, WellSent, tables

LEMMA LoseTyped ==
  ASSUME Typed, NEW r \in Requests, Lose(r)
  PROVE  Typed'
<1>1. at' \in [Requests -> Places] /\ \A q \in Requests : at'[q] = at[q] \/ (at[q] # "idle" /\ at'[q] = "done")
  BY DEF Lose, Typed, TypeOK, Places
<1>2. faults' \in 0..MaxFaults
  BY AuthAssumption DEF Lose, Typed, TypeOK
<1>. QED
  BY <1>1, <1>2 DEF Lose, Typed, TypeOK, WellSent, tables

LEMMA EnvironmentTyped ==
  ASSUME Typed, NEW t \in Requests, Purge \/ Age(t) \/ Ban(t)
  PROVE  Typed'
<1>1. CASE Purge
  BY <1>1 DEF Purge, Purged, Typed, TypeOK, WellSent, handlers
<1>2. CASE Age(t)
  BY <1>2 DEF Age, Typed, TypeOK, WellSent, handlers, tables
<1>3. CASE Ban(t)
  BY <1>3 DEF Ban, Typed, TypeOK, WellSent, handlers
<1>. QED
  BY <1>1, <1>2, <1>3

LEMMA StepTyped == Typed /\ [Next]_vars => Typed'
<1>. SUFFICES ASSUME Typed, [Next]_vars PROVE Typed'
  OBVIOUS
<1>1. ASSUME NEW r \in Requests, NEW q \in Plan[r], Client(r, q) PROVE Typed'
  BY <1>1, SendTyped
<1>2. ASSUME NEW r \in Requests, Handler(r) PROVE Typed'
  BY <1>2, SignupTyped, LoginTyped, RefreshLookupTyped, LogoutLookupTyped, RevokeTyped,
     SaveTyped, AuthenticateTyped DEF Handler
<1>3. ASSUME NEW r \in Requests, Receive(r) \/ Lose(r) \/ Age(r) \/ Ban(r) PROVE Typed'
  BY <1>3, ReceiveTyped, LoseTyped, EnvironmentTyped
<1>4. CASE Purge
  BY <1>4 DEF Purge, Purged, Typed, TypeOK, WellSent, handlers
<1>5. CASE UNCHANGED vars
  BY <1>5 DEF vars, tables, handlers, Typed, TypeOK, WellSent
<1>. QED
  BY <1>1, <1>2, <1>3, <1>4, <1>5 DEF Next

\* Accounts, tokens, requests and cookies are always well typed; every banned
\* user has a row, and a step of a handler never leaves its request half written.
THEOREM TypeCorrect == Spec => []TypeOK
<1>1. Init => Typed
  BY InitTyped
<1>2. Typed /\ [Next]_vars => Typed'
  BY StepTyped
<1>3. Typed => TypeOK
  BY DEF Typed
<1>. QED
  BY <1>1, <1>2, <1>3, PTL DEF Spec

-----------------------------------------------------------------------------
(***************************************************************************)
(* The inductive invariant behind rotation                                 *)
(***************************************************************************)

\* Where a handler is before it has made a pair of tokens, and after it is over.
Before == {"idle", "byName", "byEmail", "create", "lookup", "revoke", "access"}
After  == {"answer", "done"}

\* A request belongs to a session from the moment it has made a pair of tokens,
\* and rows exist only for pairs whose handler is over.
Begun ==
  \A r \in Requests :
    /\ at[r] \in Before => family[r] = NoToken
    /\ at[r] = "save" => family[r] # NoToken
    /\ refresh_tokens[r] # "absent" => at[r] \in After /\ family[r] # NoToken
    /\ at[r] = "idle" => status[r] = 0
    /\ at[r] \in {"byEmail", "create"} => asked[r].kind = "signup"

\* A session is named by its first token.
Rooted == \A t \in Requests : family[t] # NoToken => family[family[t]] = family[t]

\* What a handler is about to revoke is a token of some session.
Shown ==
  \A r \in Requests : at[r] = "revoke" =>
    at[asked[r].refresh] \in After /\ family[asked[r].refresh] # NoToken

\* A token that was exchanged is not valid, and nothing will make it valid.
Exchanged ==
  \A r \in Requests : asked[r].kind = "refresh" /\ family[r] # NoToken =>
    /\ asked[r].refresh # NoToken
    /\ at[asked[r].refresh] \in After
    /\ refresh_tokens[asked[r].refresh] # "valid"

\* One holder per session, be it a valid token or a handler about to save one.
OneHolder ==
  \A h, k \in Requests : Holds(h) /\ Holds(k) /\ family[h] = family[k] => h = k

OneExchange ==
  \A r, q \in Requests :
    /\ asked[r].kind = "refresh" /\ asked[q].kind = "refresh"
    /\ family[r] # NoToken /\ family[q] # NoToken
    /\ asked[r].refresh = asked[q].refresh
    => r = q

\* Only a refresh that has exchanged a token is answered with 200.
Renewed ==
  \A r \in Requests : asked[r].kind = "refresh" /\ status[r] = 200 => family[r] # NoToken

Rotation ==
  /\ Begun /\ Rooted /\ Shown /\ Exchanged /\ OneHolder /\ OneExchange /\ Renewed

-----------------------------------------------------------------------------
(***************************************************************************)
(* The five things a step can do to the sessions                           *)
(***************************************************************************)

\* Nobody but r moves.
Others(r) ==
  \A q \in Requests : q # r => at'[q] = at[q] /\ status'[q] = status[q]

\* A request is sent.
Sends(r) ==
  /\ Others(r) /\ at[r] = "idle" /\ at'[r] \in {"byName", "lookup", "access"}
  /\ \A q \in Requests : q # r => asked'[q] = asked[q]
  /\ UNCHANGED <<status, refresh_tokens, family>>

\* A handler moves on and rows may be revoked or deleted, but none becomes valid.
Lowers(r) ==
  /\ Others(r) /\ UNCHANGED <<asked, family>>
  /\ \/ at'[r] = at[r] /\ status'[r] = status[r]
     \/ /\ at[r] \in Before \ {"idle"}
        /\ at'[r] \in {"byEmail", "create"} /\ asked[r].kind = "signup"
     \/ /\ at[r] \in Before \ {"idle"} /\ at'[r] = "revoke"
        /\ asked[r].refresh \in Requests /\ refresh_tokens[asked[r].refresh] = "valid"
     \/ at[r] # "idle" /\ at'[r] \in After
  /\ asked[r].kind = "refresh" /\ status'[r] = 200 => status[r] = 200
  /\ \A t \in Requests :
       /\ refresh_tokens'[t] = "valid" => refresh_tokens[t] = "valid"
       /\ refresh_tokens'[t] # "absent" => refresh_tokens[t] # "absent"

\* A signup or a login makes the first pair of a session.
Opens(r) ==
  /\ Others(r) /\ UNCHANGED <<asked, refresh_tokens, status>>
  /\ at[r] \in Before /\ asked[r].kind \in {"signup", "login"}
  /\ at'[r] = "save" /\ family' = [family EXCEPT ![r] = r]

\* A token is exchanged.
Passes(r) ==
  /\ Others(r) /\ UNCHANGED <<asked, status>>
  /\ at[r] = "revoke" /\ asked[r].kind = "refresh"
  /\ refresh_tokens[asked[r].refresh] = "valid"
  /\ refresh_tokens' = [refresh_tokens EXCEPT ![asked[r].refresh] = "revoked"]
  /\ at'[r] = "save" /\ family' = [family EXCEPT ![r] = family[asked[r].refresh]]

\* A new token is saved.
Saves(r) ==
  /\ Others(r) /\ UNCHANGED <<asked, family>>
  /\ at[r] = "save" /\ at'[r] = "answer"
  /\ refresh_tokens' = [refresh_tokens EXCEPT ![r] = "valid"]

LEMMA GotoOthers ==
  ASSUME TypeOK, NEW r \in Requests, NEW place, Goto(r, place)
  PROVE  Others(r) /\ at'[r] = place /\ UNCHANGED status
BY DEF TypeOK, Goto, Others

LEMMA AnswerOthers ==
  ASSUME TypeOK, NEW r \in Requests, NEW code, Answer(r, code)
  PROVE  Others(r) /\ at'[r] = "answer" /\ status'[r] = code
BY DEF TypeOK, Answer, Others

LEMMA ReadFailsLowers ==
  ASSUME Typed, NEW r \in Requests, at[r] # "idle", ReadFails(r)
  PROVE  Lowers(r)
BY AnswerOthers DEF Typed, ReadFails, Lowers, After, tables

LEMMA ClientSends ==
  ASSUME Typed, NEW r \in Requests, NEW q \in Plan[r], Client(r, q)
  PROVE  Sends(r)
<1>1. PICK access, refresh, place :
        place \in {"byName", "lookup", "access"} /\ Send(r, q, access, refresh, place)
  BY DEF Client, SendSignup, SendLogin, SendRefresh, SendLogout, SendWS
<1>. QED
  BY <1>1, GotoOthers DEF Send, Sends, Typed, TypeOK, tables

LEMMA SignupSteps ==
  ASSUME Typed, Begun, NEW r \in Requests,
         SignupByName(r) \/ SignupByEmail(r) \/ SignupCreate(r)
  PROVE  Lowers(r) \/ Opens(r)
<1>1. CASE ReadFails(r) /\ at[r] # "idle"
  BY <1>1, ReadFailsLowers
<1>2. CASE SignupByName(r) /\ ~ReadFails(r)
  BY <1>2, GotoOthers, AnswerOthers DEF SignupByName, Lowers, Before, After, Typed, tables
<1>3. CASE SignupByEmail(r) /\ ~ReadFails(r)
  BY <1>3, GotoOthers, AnswerOthers
  DEF SignupByEmail, Lowers, Before, After, Typed, Begun, tables
<1>4. CASE SignupCreate(r)
  <2>1. CASE Goto(r, "save")
    BY <1>4, <2>1, GotoOthers, AnswerOthers DEF SignupCreate, Opens, Before, Typed, Begun
  <2>2. CASE ~Goto(r, "save")
    BY <1>4, <2>2, AnswerOthers DEF SignupCreate, Lowers, After, Typed
  <2>. QED
    BY <2>1, <2>2
<1>. QED
  BY <1>1, <1>2, <1>3, <1>4 DEF SignupByName, SignupByEmail

LEMMA LoginSteps ==
  ASSUME Typed, NEW r \in Requests, LoginByName(r)
  PROVE  Lowers(r) \/ Opens(r)
<1>1. CASE ReadFails(r)
  BY <1>1, ReadFailsLowers DEF LoginByName
<1>2. CASE ~ReadFails(r) /\ Goto(r, "save")
  BY <1>2, GotoOthers, AnswerOthers DEF LoginByName, Opens, Before, Typed, tables
<1>3. CASE ~ReadFails(r) /\ ~Goto(r, "save")
  BY <1>3, AnswerOthers DEF LoginByName, Lowers, After, Typed, tables
<1>. QED
  BY <1>1, <1>2, <1>3

LEMMA LookupSteps ==
  ASSUME Typed, NEW r \in Requests, RefreshLookup(r) \/ LogoutLookup(r)
  PROVE  Lowers(r)
<1>1. asked[r].refresh = NoToken \/ asked[r].refresh \in Requests
  BY DEF Typed, TypeOK, Request, Maybe
<1>2. CASE ReadFails(r) /\ at[r] # "idle"
  BY <1>2, ReadFailsLowers
<1>3. CASE RefreshLookup(r) /\ ~ReadFails(r)
  BY <1>1, <1>3, GotoOthers, AnswerOthers
  DEF RefreshLookup, Lowers, Before, After, Typed, tables
<1>4. CASE LogoutLookup(r)
  BY <1>1, <1>4, GotoOthers, AnswerOthers
  DEF LogoutLookup, Lowers, Before, After, Typed, tables
<1>. QED
  BY <1>2, <1>3, <1>4 DEF RefreshLookup

LEMMA RevokeSteps ==
  ASSUME Typed, NEW r \in Requests, RevokeToken(r)
  PROVE  Lowers(r) \/ Passes(r)
<1>1. asked[r].refresh \in Requests
  BY DEF RevokeToken, Typed, TypeOK, WellSent, Request, Maybe
<1>2. PICK outcome \in Outcomes :
        /\ refresh_tokens' = IF Updated(asked[r].refresh) /\ outcome # "error"
                             THEN [refresh_tokens EXCEPT ![asked[r].refresh] = "revoked"]
                             ELSE refresh_tokens
        /\ \/ /\ asked[r].kind = "refresh" /\ Revoked(asked[r].refresh, outcome)
              /\ Goto(r, "save")
              /\ family' = [family EXCEPT ![r] = family[asked[r].refresh]]
           \/ /\ asked[r].kind = "refresh" /\ ~Revoked(asked[r].refresh, outcome)
              /\ Answer(r, 500) /\ UNCHANGED family
           \/ /\ asked[r].kind = "logout"
              /\ Answer(r, 200) /\ UNCHANGED family
  BY DEF RevokeToken
<1>3. \A t \in Requests :
        /\ refresh_tokens'[t] = "valid" => refresh_tokens[t] = "valid"
        /\ refresh_tokens'[t] # "absent" => refresh_tokens[t] # "absent"
  BY <1>1, <1>2 DEF Typed, TypeOK, Updated
<1>4. at[r] = "revoke" /\ UNCHANGED asked
  BY DEF RevokeToken
<1>5. CASE Goto(r, "save") /\ Revoked(asked[r].refresh, outcome) /\ asked[r].kind = "refresh"
  BY <1>2, <1>4, <1>5, GotoOthers, AnswerOthers DEF Passes, Revoked, Updated, Typed
<1>6. CASE Answer(r, 500) /\ UNCHANGED family
  BY <1>3, <1>4, <1>6, AnswerOthers DEF Lowers, After, Typed
<1>7. CASE Answer(r, 200) /\ UNCHANGED family /\ asked[r].kind = "logout"
  BY <1>3, <1>4, <1>7, AnswerOthers DEF Lowers, After, Typed
<1>. QED
  BY <1>2, <1>5, <1>6, <1>7

LEMMA SaveSteps ==
  ASSUME Typed, Begun, NEW r \in Requests, SaveRefreshToken(r)
  PROVE  Lowers(r) \/ Saves(r)
<1>1. PICK outcome \in Outcomes, code \in {200, 201, 500} :
        /\ refresh_tokens' = (IF TokenModel(r).ip # None /\ outcome # "error"
                              THEN [refresh_tokens EXCEPT ![r] = "valid"]
                              ELSE refresh_tokens)
        /\ Answer(r, code)
        /\ code # 500 => TokenModel(r).ip # None /\ outcome = "ok"
  BY DEF SaveRefreshToken
<1>2. at[r] = "save" /\ UNCHANGED <<asked, family>>
  BY DEF SaveRefreshToken
<1>3. Others(r) /\ at'[r] = "answer" /\ status'[r] = code
  BY <1>1, AnswerOthers DEF Typed
<1>4. CASE UNCHANGED refresh_tokens
  <2>1. code = 500 \/ refresh_tokens[r] = "valid"
    BY <1>1, <1>4 DEF Typed, TypeOK
  <2>2. refresh_tokens[r] # "valid"
    BY <1>2 DEF Begun, After
  <2>. QED
    BY <1>2, <1>3, <1>4, <2>1, <2>2 DEF Lowers, After
<1>5. CASE refresh_tokens' = [refresh_tokens EXCEPT ![r] = "valid"]
  BY <1>2, <1>3, <1>5 DEF Saves
<1>. QED
  BY <1>1, <1>4, <1>5

LEMMA OtherSteps ==
  ASSUME Typed, NEW r \in Requests,
         \/ Authenticate(r) \/ Receive(r) \/ Lose(r) \/ Purge
         \/ Age(r) \/ Ban(r) \/ UNCHANGED vars
  PROVE  Lowers(r)
<1>1. CASE Authenticate(r)
  <2>1. \E code \in {101, 401, 403, 500, 503} : Answer(r, code)
    BY <1>1 DEF Authenticate
  <2>. QED
    BY <1>1, <2>1, AnswerOthers DEF Authenticate, Lowers, After, Typed, tables
<1>2. CASE Receive(r)
  BY <1>2 DEF Receive, Lowers, Others, After, Typed, TypeOK, tables
<1>3. CASE Lose(r)
  BY <1>3 DEF Lose, Lowers, Others, After, Typed, TypeOK, tables
<1>4. CASE Purge
  BY <1>4 DEF Purge, Purged, Lowers, Others, Typed, TypeOK, handlers
<1>5. CASE Age(r)
  BY <1>5 DEF Age, Lowers, Others, handlers, tables
<1>6. CASE Ban(r)
  BY <1>6 DEF Ban, Lowers, Others, handlers
<1>7. CASE UNCHANGED vars
  BY <1>7 DEF vars, Lowers, Others, handlers, tables
<1>. QED
  BY <1>1, <1>2, <1>3, <1>4, <1>5, <1>6, <1>7

LEMMA StepKinds ==
  ASSUME Typed, Begun, [Next]_vars
  PROVE  \/ UNCHANGED vars
         \/ Purge
         \/ \E r \in Requests : Sends(r) \/ Lowers(r) \/ Opens(r) \/ Passes(r) \/ Saves(r)
<1>1. ASSUME NEW r \in Requests, NEW q \in Plan[r], Client(r, q) PROVE Sends(r)
  BY <1>1, ClientSends
<1>2. ASSUME NEW r \in Requests, Handler(r)
      PROVE Lowers(r) \/ Opens(r) \/ Passes(r) \/ Saves(r)
  BY <1>2, SignupSteps, LoginSteps, LookupSteps, RevokeSteps, SaveSteps, OtherSteps
  DEF Handler
<1>3. ASSUME NEW r \in Requests, Receive(r) \/ Lose(r) \/ Age(r) \/ Ban(r) PROVE Lowers(r)
  BY <1>3, OtherSteps
<1>. QED
  BY <1>1, <1>2, <1>3 DEF Next

-----------------------------------------------------------------------------
(***************************************************************************)
(* The invariant is inductive                                              *)
(***************************************************************************)

LEMMA InitRotation == Init => Rotation
<1>. SUFFICES ASSUME Init PROVE Rotation
  OBVIOUS
<1>1. \A r \in Requests : asked[r].kind = "none"
  BY NoRequestTyped DEF Init
<1>. QED
  BY <1>1 DEF Init, Rotation, Begun, Rooted, Shown, Exchanged, OneHolder, OneExchange,
     Renewed, Holds, Before, After, Requests

\* Requests are never 0, so a token that is not NoToken is one.
LEMMA Tokens ==
  ASSUME Typed
  PROVE  /\ NoToken \notin Requests
         /\ \A r \in Requests :
              /\ asked[r].refresh # NoToken => asked[r].refresh \in Requests
              /\ family[r] # NoToken => family[r] \in Requests
BY DEF Typed, TypeOK, Request, Maybe, Requests, NoToken

LEMMA SendsKeep ==
  ASSUME Typed, Rotation, Typed', NEW r \in Requests, Sends(r)
  PROVE  Rotation'
<1>1. /\ \A q \in Requests : q # r => at'[q] = at[q] /\ asked'[q] = asked[q]
      /\ at[r] = "idle" /\ at'[r] \in {"byName", "lookup", "access"}
      /\ family[r] = NoToken /\ refresh_tokens[r] = "absent" /\ status[r] = 0
      /\ UNCHANGED <<status, refresh_tokens, family>>
  BY DEF Sends, Others, Rotation, Begun, Before, After, Typed, TypeOK
<1>2. Begun'
  BY <1>1 DEF Rotation, Begun, Before, After
<1>3. Rooted'
  BY <1>1 DEF Rotation, Rooted
<1>4. Shown'
  BY <1>1, Tokens DEF Rotation, Shown, Typed, WellSent, After
<1>5. Exchanged'
  BY <1>1, Tokens DEF Rotation, Exchanged, After
<1>6. OneHolder'
  BY <1>1 DEF Rotation, OneHolder, Holds
<1>7. OneExchange'
  BY <1>1 DEF Rotation, OneExchange
<1>8. Renewed'
  BY <1>1 DEF Rotation, Renewed
<1>. QED
  BY <1>2, <1>3, <1>4, <1>5, <1>6, <1>7, <1>8 DEF Rotation

LEMMA LowersKeep ==
  ASSUME Typed, Rotation, Typed', NEW r \in Requests, Lowers(r)
  PROVE  Rotation'
<1>1. /\ \A q \in Requests : q # r => at'[q] = at[q] /\ status'[q] = status[q]
      /\ UNCHANGED <<asked, family>>
      /\ \A t \in Requests :
           /\ refresh_tokens'[t] = "valid" => refresh_tokens[t] = "valid"
           /\ refresh_tokens'[t] # "absent" => refresh_tokens[t] # "absent"
  BY DEF Lowers, Others
<1>2. \A q \in Requests :
        /\ at[q] \in After => at'[q] \in After
        /\ at'[q] = "save" => at[q] = "save"
        /\ at'[q] \in Before => at[q] \in Before
        /\ at'[q] = "idle" => at[q] = "idle"
        /\ at'[q] \in {"byEmail", "create"} => asked[q].kind = "signup"
  BY <1>1 DEF Lowers, Before, After, Rotation, Begun
<1>3. \A q \in Requests : at'[q] = "idle" => status'[q] = status[q]
  BY <1>1 DEF Lowers, After
<1>4. Begun'
  BY <1>1, <1>2, <1>3 DEF Rotation, Begun
<1>5. Rooted'
  BY <1>1 DEF Rotation, Rooted
<1>6. Shown'
  <2>. SUFFICES ASSUME NEW q \in Requests, at'[q] = "revoke"
                PROVE  at'[asked[q].refresh] \in After /\ family[asked[q].refresh] # NoToken
    BY <1>1 DEF Shown
  <2>1. CASE at[q] = "revoke"
    BY <1>2, <2>1, Tokens DEF Rotation, Shown, Typed, WellSent
  <2>2. CASE at[q] # "revoke"
    <3>1. asked[q].refresh \in Requests /\ refresh_tokens[asked[q].refresh] = "valid"
      BY <1>1, <2>2 DEF Lowers, After
    <3>. QED
      BY <1>2, <3>1 DEF Rotation, Begun
  <2>. QED
    BY <2>1, <2>2
<1>7. Exchanged'
  BY <1>1, <1>2, Tokens DEF Rotation, Exchanged
<1>8. \A h \in Requests : Holds(h)' => Holds(h)
  BY <1>1, <1>2 DEF Holds
<1>9. OneHolder'
  BY <1>1, <1>8 DEF Rotation, OneHolder
<1>10. OneExchange'
  BY <1>1 DEF Rotation, OneExchange
<1>11. Renewed'
  BY <1>1 DEF Rotation, Renewed, Lowers
<1>. QED
  BY <1>4, <1>5, <1>6, <1>7, <1>9, <1>10, <1>11 DEF Rotation

LEMMA OpensKeep ==
  ASSUME Typed, Rotation, Typed', NEW r \in Requests, Opens(r)
  PROVE  Rotation'
<1>1. /\ \A q \in Requests : q # r => at'[q] = at[q]
      /\ UNCHANGED <<asked, refresh_tokens, status>>
      /\ at[r] \in Before /\ at'[r] = "save"
      /\ asked[r].kind \in {"signup", "login"}
      /\ family[r] = NoToken /\ family'[r] = r
      /\ \A q \in Requests : q # r => family'[q] = family[q]
      /\ r # NoToken
  BY Tokens DEF Opens, Others, Rotation, Begun, Typed, TypeOK
<1>2. \A h \in Requests : h # r => family[h] # r
  BY <1>1, Tokens DEF Rotation, Rooted
<1>3. refresh_tokens[r] = "absent"
  BY <1>1 DEF Rotation, Begun, Before, After
<1>4. Begun'
  BY <1>1, <1>3 DEF Rotation, Begun, Before, After
<1>5. Rooted'
  BY <1>1, Tokens DEF Rotation, Rooted
<1>6. Shown'
  BY <1>1, Tokens DEF Rotation, Shown, Typed, WellSent, Before, After
<1>7. Exchanged'
  BY <1>1, Tokens DEF Rotation, Exchanged, Before, After
<1>8. OneHolder'
  BY <1>1, <1>2 DEF Rotation, OneHolder, Holds
<1>9. OneExchange'
  BY <1>1 DEF Rotation, OneExchange
<1>10. Renewed'
  BY <1>1 DEF Rotation, Renewed
<1>. QED
  BY <1>4, <1>5, <1>6, <1>7, <1>8, <1>9, <1>10 DEF Rotation

LEMMA SavesKeep ==
  ASSUME Typed, Rotation, Typed', NEW r \in Requests, Saves(r)
  PROVE  Rotation'
<1>1. /\ \A q \in Requests : q # r =>
           /\ at'[q] = at[q] /\ status'[q] = status[q]
           /\ refresh_tokens'[q] = refresh_tokens[q]
      /\ UNCHANGED <<asked, family>>
      /\ at[r] = "save" /\ at'[r] = "answer"
      /\ refresh_tokens'[r] = "valid"
      /\ family[r] # NoToken
  BY DEF Saves, Others, Rotation, Begun, Typed, TypeOK
<1>2. Begun'
  BY <1>1 DEF Rotation, Begun, Before, After
<1>3. Rooted'
  BY <1>1 DEF Rotation, Rooted
<1>4. Shown'
  BY <1>1, Tokens DEF Rotation, Shown, Typed, WellSent, After
<1>5. Exchanged'
  BY <1>1, Tokens DEF Rotation, Exchanged, After
<1>6. OneHolder'
  BY <1>1 DEF Rotation, OneHolder, Holds
<1>7. OneExchange'
  BY <1>1 DEF Rotation, OneExchange
<1>8. Renewed'
  BY <1>1 DEF Rotation, Renewed
<1>. QED
  BY <1>2, <1>3, <1>4, <1>5, <1>6, <1>7, <1>8 DEF Rotation

LEMMA PassesKeep ==
  ASSUME Typed, Rotation, Typed', NEW r \in Requests, Passes(r)
  PROVE  Rotation'
<1>. DEFINE t == asked[r].refresh
<1>1. t \in Requests /\ at[t] \in After /\ family[t] # NoToken /\ t # r
  BY Tokens DEF Passes, Rotation, Shown, Typed, WellSent, After
<1>2. /\ \A q \in Requests : q # r => at'[q] = at[q] /\ family'[q] = family[q]
      /\ \A q \in Requests : q # t => refresh_tokens'[q] = refresh_tokens[q]
      /\ UNCHANGED <<asked, status>>
      /\ at[r] = "revoke" /\ at'[r] = "save" /\ asked[r].kind = "refresh"
      /\ refresh_tokens[t] = "valid" /\ refresh_tokens'[t] = "revoked"
      /\ family[r] = NoToken /\ family'[r] = family[t]
  BY <1>1 DEF Passes, Others, Rotation, Begun, Before, Typed, TypeOK
<1>3. refresh_tokens[r] = "absent"
  BY <1>2 DEF Rotation, Begun, After, Typed, TypeOK
<1>. HIDE DEF t
<1>4. Begun'
  BY <1>1, <1>2, <1>3 DEF Rotation, Begun, Before, After
<1>5. Rooted'
  BY <1>1, <1>2, Tokens DEF Rotation, Rooted
<1>6. Shown'
  BY <1>2, Tokens DEF Rotation, Shown, Typed, WellSent, After
<1>7. Exchanged'
  BY <1>1, <1>2, Tokens DEF Rotation, Exchanged, After, t
<1>8. Holds(t)
  BY <1>2 DEF Holds
<1>9. ASSUME NEW h \in Requests, h # r, Holds(h)' PROVE Holds(h) /\ h # t
  <2>1. at'[h] = at[h] /\ (at'[h] = "save" \/ refresh_tokens'[h] = "valid")
    BY <1>2, <1>9 DEF Holds
  <2>. QED
    BY <1>1, <1>2, <2>1 DEF Holds, After
<1>10. OneHolder'
  BY <1>1, <1>2, <1>8, <1>9 DEF Rotation, OneHolder
<1>11. OneExchange'
  <2>1. \A q \in Requests :
          asked[q].kind = "refresh" /\ family[q] # NoToken => asked[q].refresh # t
    BY <1>2 DEF Rotation, Exchanged
  <2>. QED
    BY <1>1, <1>2, <2>1 DEF Rotation, OneExchange, t
<1>12. Renewed'
  BY <1>1, <1>2 DEF Rotation, Renewed
<1>. QED
  BY <1>4, <1>5, <1>6, <1>7, <1>10, <1>11, <1>12 DEF Rotation

LEMMA PurgeKeeps ==
  ASSUME Typed, Rotation, Typed', Purge
  PROVE  Rotation'
<1>1. CASE Requests = {}
  BY <1>1 DEF Rotation, Begun, Rooted, Shown, Exchanged, OneHolder, OneExchange, Renewed
<1>2. CASE \E r \in Requests : TRUE
  BY <1>2, OtherSteps, LowersKeep
<1>. QED
  BY <1>1, <1>2

LEMMA StepRotation == Typed /\ Rotation /\ [Next]_vars => Rotation'
<1>. SUFFICES ASSUME Typed, Rotation, [Next]_vars PROVE Rotation'
  OBVIOUS
<1>1. Typed' /\ Begun
  BY StepTyped DEF Rotation
<1>2. CASE UNCHANGED vars
  BY <1>2 DEF vars, handlers, tables, Rotation, Begun, Rooted, Shown, Exchanged, OneHolder,
     OneExchange, Renewed, Holds
<1>3. CASE Purge
  BY <1>1, <1>3, PurgeKeeps
<1>4. ASSUME NEW r \in Requests,
             Sends(r) \/ Lowers(r) \/ Opens(r) \/ Passes(r) \/ Saves(r)
      PROVE Rotation'
  BY <1>1, <1>4, SendsKeep, LowersKeep, OpensKeep, PassesKeep, SavesKeep
<1>. QED
  BY <1>1, <1>2, <1>3, <1>4, StepKinds

LEMMA RotationInvariant == Spec => [](Typed /\ Rotation)
<1>1. Init => Typed /\ Rotation
  BY InitTyped, InitRotation
<1>2. Typed /\ Rotation /\ [Next]_vars => (Typed /\ Rotation)'
  BY StepTyped, StepRotation
<1>. QED
  BY <1>1, <1>2, PTL DEF Spec

\* However many tabs, servers and failing statements race for it, a session has
\* at most one refresh token that RefreshHandler would accept.
THEOREM OneLivePerSessionHolds == Spec => []OneLivePerSession
<1>1. Typed /\ Rotation => OneLivePerSession
  BY DEF Rotation, OneHolder, Holds, OneLivePerSession
<1>. QED
  BY <1>1, RotationInvariant, PTL

\* Any number of requests may read a token before one of them revokes it;
\* RowsAffected of RevokeToken lets one of them answer 200.
THEOREM SingleExchangeHolds == Spec => []SingleExchange
<1>1. Typed /\ Rotation => SingleExchange
  BY DEF Rotation, OneExchange, Renewed, SingleExchange
<1>. QED
  BY <1>1, RotationInvariant, PTL

-----------------------------------------------------------------------------
(***************************************************************************)
(* The handlers implement SessionBaton                                     *)
(***************************************************************************)

LEMMA BatonHeld ==
  ASSUME OneHolder, NEW f \in Requests, family[f] = f,
         NEW h \in Requests, family[h] = f, Holds(h)
  PROVE  BatonOf(f) = h
<1>1. Holding(f) = {h}
  BY DEF Holding, OneHolder
<1>. QED
  BY <1>1 DEF BatonOf

LEMMA BatonFree ==
  ASSUME NEW f \in Requests, family[f] = f, \A h \in Requests : family[h] = f => ~Holds(h)
  PROVE  BatonOf(f) = 0
<1>1. Holding(f) = {}
  BY DEF Holding
<1>. QED
  BY <1>1 DEF BatonOf

LEMMA BatonHeldNext ==
  ASSUME OneHolder', NEW f \in Requests, family'[f] = f,
         NEW h \in Requests, family'[h] = f, Holds(h)'
  PROVE  BatonOf(f)' = h
<1>1. Holding(f)' = {h}
  BY DEF Holding, OneHolder
<1>. QED
  BY <1>1 DEF BatonOf

LEMMA BatonFreeNext ==
  ASSUME NEW f \in Requests, family'[f] = f,
         \A h \in Requests : family'[h] = f => ~(Holds(h)')
  PROVE  BatonOf(f)' = 0
<1>1. Holding(f)' = {}
  BY DEF Holding
<1>. QED
  BY <1>1 DEF BatonOf

LEMMA InitBaton == Init => Baton!Init
<1>. SUFFICES ASSUME Init PROVE Baton!Init
  OBVIOUS
<1>1. \A f \in Requests : family[f] = NoToken /\ family[f] # f
  BY DEF Init, Requests, NoToken
<1>2. \A f \in Requests : BatonOf(f) = -1
  BY <1>1 DEF BatonOf
<1>. QED
  BY <1>1, <1>2 DEF Baton!Init, Baton!Unborn

\* A step that leaves the families alone and makes nobody a holder ends sessions.
LEMMA LowersDrop ==
  ASSUME Typed, Rotation, Rotation', UNCHANGED family,
         \A h \in Requests : Holds(h)' => Holds(h)
  PROVE  Baton!Drop
<1>. DEFINE ended == {f \in Requests : BatonOf(f) \in Requests /\ BatonOf(f)' = 0}
<1>1. ASSUME NEW f \in Requests
      PROVE BatonOf(f)' = IF f \in ended THEN 0 ELSE BatonOf(f)
  <2>1. CASE family[f] # f
    BY <2>1, Tokens DEF BatonOf
  <2>2. CASE family[f] = f /\ \E h \in Requests : family[h] = f /\ Holds(h)'
    <3>1. PICK h \in Requests : family[h] = f /\ Holds(h)'
      BY <2>2
    <3>2. BatonOf(f)' = h
      BY <2>2, <3>1, BatonHeldNext DEF Rotation
    <3>3. BatonOf(f) = h
      BY <2>2, <3>1, BatonHeld DEF Rotation
    <3>. QED
      BY <3>2, <3>3
  <2>3. CASE family[f] = f /\ \A h \in Requests : family[h] = f => ~(Holds(h)')
    <3>1. BatonOf(f)' = 0
      BY <2>3, BatonFreeNext
    <3>2. CASE \E h \in Requests : family[h] = f /\ Holds(h)
      <4>1. BatonOf(f) \in Requests
        BY <2>3, <3>2, BatonHeld DEF Rotation
      <4>. QED
        BY <3>1, <4>1
    <3>3. CASE \A h \in Requests : family[h] = f => ~Holds(h)
      BY <2>3, <3>1, <3>3, BatonFree
    <3>. QED
      BY <3>2, <3>3
  <2>. QED
    BY <2>1, <2>2, <2>3
<1>2. ended \in SUBSET {f \in Requests : [g \in Requests |-> BatonOf(g)][f] \in Requests}
  OBVIOUS
<1>3. [f \in Requests |-> BatonOf(f)]' =
        [f \in Requests |-> IF f \in ended THEN 0
                            ELSE [g \in Requests |-> BatonOf(g)][f]]
  BY <1>1
<1>. HIDE DEF ended
<1>. QED
  BY <1>2, <1>3 DEF Baton!Drop, Baton!Dropped

LEMMA OpensOpen ==
  ASSUME Typed, Rotation, Rotation', NEW r \in Requests, Opens(r)
  PROVE  Baton!Open(r)
<1>1. /\ \A q \in Requests : q # r => at'[q] = at[q] /\ family'[q] = family[q]
      /\ UNCHANGED refresh_tokens
      /\ at'[r] = "save"
      /\ family[r] = NoToken /\ family'[r] = r /\ r # NoToken
  BY Tokens DEF Opens, Others, Rotation, Begun, Typed, TypeOK
<1>2. BatonOf(r) = -1
  BY <1>1 DEF BatonOf
<1>3. BatonOf(r)' = r
  BY <1>1, BatonHeldNext DEF Rotation, Holds
<1>4. ASSUME NEW f \in Requests, f # r PROVE BatonOf(f)' = BatonOf(f)
  <2>1. Holding(f)' = Holding(f)
    BY <1>1, <1>4, Tokens DEF Holding, Holds
  <2>. QED
    BY <1>1, <1>4, <2>1 DEF BatonOf
<1>5. [f \in Requests |-> BatonOf(f)]' = [[f \in Requests |-> BatonOf(f)] EXCEPT ![r] = r]
  BY <1>3, <1>4
<1>6. {h \in Requests : family[h] # NoToken}' = {h \in Requests : family[h] # NoToken} \cup {r}
  BY <1>1
<1>. QED
  BY <1>1, <1>2, <1>5, <1>6 DEF Baton!Open, Baton!Unborn

LEMMA PassesPass ==
  ASSUME Typed, Rotation, Rotation', NEW r \in Requests, Passes(r)
  PROVE  \E f \in Requests : Baton!Pass(f, r)
<1>. DEFINE t == asked[r].refresh
            f == family[t]
<1>1. t \in Requests /\ at[t] \in After /\ f \in Requests /\ t # r
  BY Tokens DEF Passes, Rotation, Shown, Typed, WellSent, After
<1>2. /\ \A q \in Requests : q # r => at'[q] = at[q] /\ family'[q] = family[q]
      /\ \A q \in Requests : q # t => refresh_tokens'[q] = refresh_tokens[q]
      /\ at'[r] = "save" /\ refresh_tokens[t] = "valid" /\ refresh_tokens'[t] = "revoked"
      /\ family[r] = NoToken /\ family'[r] = f
  BY <1>1 DEF Passes, Others, Rotation, Begun, Before, Typed, TypeOK
<1>3. f # r /\ family[f] = f /\ family'[f] = f /\ f # NoToken
  BY <1>1, <1>2, Tokens DEF Rotation, Rooted
<1>4. BatonOf(f) = t
  BY <1>1, <1>2, <1>3, BatonHeld DEF Rotation, Holds
<1>5. BatonOf(f)' = r
  <2>1. Holds(r)'
    BY <1>2 DEF Holds
  <2>2. PICK g \in Requests : g = f
    BY <1>1
  <2>3. BatonOf(g)' = r
    BY <1>2, <1>3, <2>1, <2>2, BatonHeldNext DEF Rotation
  <2>4. UNCHANGED f
    BY <1>1, <1>2 DEF Passes
  <2>. QED
    BY <2>2, <2>3, <2>4
<1>6. ASSUME NEW g \in Requests, g # f PROVE BatonOf(g)' = BatonOf(g)
  <2>1. CASE g = r
    <3>1. family[g] # g /\ family'[g] # g
      BY <1>2, <1>3, <2>1, Tokens
    <3>. QED
      BY <3>1 DEF BatonOf
  <2>2. CASE g # r
    <3>1. Holding(g)' = Holding(g)
      <4>1. ASSUME NEW h \in Requests
            PROVE (family'[h] = g /\ (at'[h] = "save" \/ refresh_tokens'[h] = "valid"))
                    <=> (family[h] = g /\ (at[h] = "save" \/ refresh_tokens[h] = "valid"))
        <5>1. CASE h = r
          BY <1>2, <1>6, <5>1, Tokens
        <5>2. CASE h = t
          BY <1>1, <1>2, <1>6, <5>2
        <5>3. CASE h # r /\ h # t
          BY <1>2, <5>3
        <5>. QED
          BY <5>1, <5>2, <5>3
      <4>. QED
        BY <4>1 DEF Holding, Holds
    <3>. QED
      BY <1>2, <2>2, <3>1 DEF BatonOf
  <2>. QED
    BY <2>1, <2>2
<1>7. [g \in Requests |-> BatonOf(g)]' = [[g \in Requests |-> BatonOf(g)] EXCEPT ![f] = r]
  <2>1. PICK e \in Requests : e = f
    BY <1>1
  <2>2. BatonOf(e)' = r /\ \A g \in Requests : g # e => BatonOf(g)' = BatonOf(g)
    <3>1. UNCHANGED f
      BY <1>1, <1>2 DEF Passes
    <3>. QED
      BY <1>5, <1>6, <2>1, <3>1
  <2>. HIDE DEF f
  <2>. QED
    BY <2>1, <2>2
<1>8. {h \in Requests : family[h] # NoToken}' = {h \in Requests : family[h] # NoToken} \cup {r}
  BY <1>2, <1>3
<1>9. Baton!Pass(f, r)
  BY <1>1, <1>2, <1>4, <1>7, <1>8 DEF Baton!Pass
<1>. QED
  BY <1>1, <1>9

LEMMA StepBaton ==
  ASSUME Typed, Rotation, Rotation', [Next]_vars
  PROVE  [Baton!Next]_<<[f \in Requests |-> BatonOf(f)],
                        {h \in Requests : family[h] # NoToken}>>
<1>1. ASSUME NEW r \in Requests, Lowers(r) \/ Sends(r) \/ Saves(r)
      PROVE Baton!Drop
  <2>1. UNCHANGED family
    BY <1>1 DEF Lowers, Sends, Saves
  <2>2. ASSUME NEW h \in Requests PROVE Holds(h)' => Holds(h)
    BY <1>1 DEF Lowers, Sends, Saves, Others, Holds, Typed, TypeOK, Before, After
  <2>. QED
    BY <2>1, <2>2, LowersDrop
<1>2. CASE Purge
  <2>1. UNCHANGED family /\ \A h \in Requests : Holds(h)' => Holds(h)
    BY <1>2 DEF Purge, Purged, handlers, Holds, Typed, TypeOK
  <2>. QED
    BY <2>1, LowersDrop DEF Baton!Next
<1>3. CASE UNCHANGED vars
  <2>1. UNCHANGED family /\ \A h \in Requests : Holds(h)' => Holds(h)
    BY <1>3 DEF vars, handlers, tables, Holds
  <2>. QED
    BY <2>1, LowersDrop DEF Baton!Next
<1>4. ASSUME NEW r \in Requests, Opens(r) PROVE \E h \in Requests : Baton!Open(h)
  BY <1>4, OpensOpen
<1>5. ASSUME NEW r \in Requests, Passes(r) PROVE \E f, h \in Requests : Baton!Pass(f, h)
  BY <1>5, PassesPass
<1>. QED
  BY <1>1, <1>2, <1>3, <1>4, <1>5, StepKinds DEF Rotation, Baton!Next

\* Signup, login, refresh, logout and the purge, with all their interleavings,
\* errors, late effects and crashes, implement SessionBaton: every step opens a
\* session, passes its baton on, drops batons or leaves them alone.
THEOREM BatonImplemented == Spec => ImplementsBaton
<1>1. Init => Baton!Init
  BY InitBaton
<1>2. (Typed /\ Rotation) /\ (Typed /\ Rotation)' /\ [Next]_vars =>
        [Baton!Next]_<<[f \in Requests |-> BatonOf(f)],
                       {h \in Requests : family[h] # NoToken}>>
  BY StepBaton
<1>. QED
  BY <1>1, <1>2, RotationInvariant, PTL DEF Spec, ImplementsBaton, Baton!Spec

=============================================================================
