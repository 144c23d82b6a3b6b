----------------------------- MODULE MCHashRing -----------------------------
(***************************************************************************)
(* An instance of HashRing for TLC.                                        *)
(***************************************************************************)
EXTENDS HashRing

CONSTANTS s1, s2, s3

\* All placements of the virtual nodes, with and without common hashes, but for
\* a rotation of the circle.
AllHashings == {f \in [Identities -> Hashes] : f[<<s1, 0>>] = 0}
=============================================================================
