----------------------------- MODULE MCPipeline -----------------------------
(***************************************************************************)
(* Instances of Pipeline for TLC: alice on s1 and bob on s2, in one room.  *)
(***************************************************************************)
EXTENDS Pipeline, TLC

CONSTANTS s1, s2, alice, bob, r1, m1, m2

HomeFn == alice :> s1 @@ bob :> s2
RoomFn == [c \in Clients |-> r1]

\* m1 is chat from alice, m2 a private note of bob to himself.
KindFn   == [i \in IDs |-> IF i = m1 THEN "chat" ELSE "private"]
SenderFn == [i \in IDs |-> IF i = m1 THEN alice ELSE bob]
TargetFn == SenderFn

\* Each message once; or two sendings in all, which may be of one chat message.
Once == {[i \in IDs |-> 1]}
Two  == {[i \in IDs |-> 1], [i \in IDs |-> IF i = m1 THEN 2 ELSE 0]}
=============================================================================
