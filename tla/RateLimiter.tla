---------------------------- MODULE RateLimiter ----------------------------
(***************************************************************************)
(* The token bucket of internal/middleware/rateLimiter.go.  One goroutine  *)
(* uses a limiter, the ReadPump of its client, so Allow is one step.  The  *)
(* clock of the model counts periods of half a second, the refill rate     *)
(* that serveWS asks for.                                                  *)
(***************************************************************************)
EXTENDS Integers

CONSTANTS
  token,      \* tokens of a new limiter, 5 in serveWS
  burst,      \* burstLimit
  rate,       \* the refill rate as time.Duration counts it, in nanoseconds
  PerSecond,  \* periods of the model's clock in a second
  MaxPeriod   \* bound: how long the clock runs

VARIABLES
  clock,     \* periods since the limiter was made
  tokens,    \* l.token
  lastTick,  \* l.lastTick
  called,    \* history: when Allow was called last
  waited,    \* history: how many periods after the call before it
  allowed    \* history: what it returned

vars == <<clock, tokens, lastTick, called, waited, allowed>>

\* time.Now().Unix()
Unix == clock \div PerSecond

Init ==
  /\ clock = 0 /\ called = 0 /\ waited = 0
  /\ tokens = token
  /\ lastTick = Unix
  /\ allowed = TRUE

\* elapsed / int64(l.rate): seconds divided by nanoseconds.
generated == (Unix - lastTick) \div rate

Balance ==
  IF generated = 0 THEN tokens
  ELSE IF tokens + generated > burst THEN burst ELSE tokens + generated

Allow ==
  /\ lastTick' = IF generated > 0 THEN Unix ELSE lastTick
  /\ allowed' = (Balance > 0)
  /\ tokens' = IF Balance > 0 THEN Balance - 1 ELSE Balance
  /\ called' = clock
  /\ waited' = clock - called
  /\ UNCHANGED clock

Pass ==
  /\ clock < MaxPeriod
  /\ clock' = clock + 1
  /\ UNCHANGED <<tokens, lastTick, called, waited, allowed>>

Next == Allow \/ Pass

Spec == Init /\ [][Next]_vars

\* Allow refills the bucket when it is called: a client that was silent for a
\* second, the time of two tokens, is let through.
RefilledOnDemand == waited >= PerSecond => allowed
=============================================================================
