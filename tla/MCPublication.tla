---------------------------- MODULE MCPublication ----------------------------
(* Two runs of each command; a schema that supports the extensions, one that *)
(* lacks what they use and one that is not schema-only LDIF.                 *)
EXTENDS Publication, TLC

CONSTANTS i1, i2, g1, g2, old, lacking, broken

RunSymmetry == Permutations({i1, i2}) \cup Permutations({g1, g2})
=============================================================================
