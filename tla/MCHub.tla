------------------------------- MODULE MCHub -------------------------------
(***************************************************************************)
(* Instances of Hub for TLC.                                               *)
(***************************************************************************)
EXTENDS Hub, TLC

CONSTANTS c1, c2, u1, u2, r1

\* Connections of one user to the same room.
SameUser == [c \in Clients |-> u1]
SameRoom == [c \in Clients |-> r1]

\* Two users in one room.
TwoUsers == c1 :> u1 @@ c2 :> u2

RoomMessage    == [kind |-> "room", room |-> r1]
PrivateMessage == [kind |-> "private", room |-> r1, target |-> u1, sender |-> u2]
KickMessage    == [kind |-> "kick", user |-> u1]

NoRemote == {}
RoomOnly == {RoomMessage}
Anything == {RoomMessage, PrivateMessage, KickMessage}
=============================================================================
