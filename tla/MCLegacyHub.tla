---------------------------- MODULE MCLegacyHub ----------------------------
(***************************************************************************)
(* Two connections: the second one may come up with the name of the first. *)
(***************************************************************************)
EXTENDS LegacyHub

CONSTANTS c1, c2

MCConns    == {c1, c2}
MCNames    == {"a", "b"}
MCNamesFor == [c \in MCConns |-> IF c = c1 THEN {"a"} ELSE MCNames]
=============================================================================
