---------------------------- MODULE SessionBaton ----------------------------
(***************************************************************************)
(* What rotating refresh tokens promises.  A session is one baton.  It is  *)
(* in the hands of one holder at a time: a token that may still be         *)
(* exchanged, or the request that is exchanging it.  It goes from holder   *)
(* to holder, never to one that has held a baton before, and a baton that  *)
(* was dropped (logout, expiry, a failed exchange) is never seen again.    *)
(***************************************************************************)
EXTENDS Integers

CONSTANT Holders  \* a set of positive numbers; a session is named by its first holder

Unborn == -1
Dropped == 0

VARIABLES
  baton,  \* session -> its holder, Unborn or Dropped
  used    \* everybody who has held a baton

TypeOK ==
  /\ baton \in [Holders -> Holders \cup {Unborn, Dropped}]
  /\ used \in SUBSET Holders

Init ==
  /\ baton = [f \in Holders |-> Unborn]
  /\ used = {}

\* A signup or login begins a session.
Open(h) ==
  /\ h \notin used
  /\ baton[h] = Unborn
  /\ baton' = [baton EXCEPT ![h] = h]
  /\ used' = used \cup {h}

\* A token is exchanged.
Pass(f, h) ==
  /\ h \notin used
  /\ baton[f] \in Holders
  /\ baton' = [baton EXCEPT ![f] = h]
  /\ used' = used \cup {h}

\* Sessions end.
Drop ==
  /\ \E ended \in SUBSET {f \in Holders : baton[f] \in Holders} :
       baton' = [f \in Holders |-> IF f \in ended THEN Dropped ELSE baton[f]]
  /\ UNCHANGED used

Next ==
  \/ \E h \in Holders : Open(h)
  \/ \E f, h \in Holders : Pass(f, h)
  \/ Drop

Spec == Init /\ [][Next]_<<baton, used>>
=============================================================================
