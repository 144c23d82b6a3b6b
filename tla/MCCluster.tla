----------------------------- MODULE MCCluster -----------------------------
(***************************************************************************)
(* Instances of Cluster for TLC.                                           *)
(***************************************************************************)
EXTENDS Cluster

CONSTANTS s1, s2, s3, u1

\* From the hash of u1 the circle meets s1, then s2, then s3.
TwoOnCircle   == [u \in Users |-> <<s1, s2>>]
ThreeOnCircle == [u \in Users |-> <<s1, s2, s3>>]
=============================================================================
