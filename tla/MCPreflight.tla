------------------------------ MODULE MCPreflight ------------------------------
(* Three preflights beside a service.  All that they notice of the service is *)
(* whether there is one, so that it stands still while they run: it has not   *)
(* begun, or serves.  All three run if all have custom LDIF, and otherwise    *)
(* two: one of users and groups meets the others by its workspace only.       *)
EXTENDS Preflight, TLC

CONSTANTS p1, p2, p3

AtRest ==
  /\ ~admin /\ ~native /\ cut = "none"
  /\ \/ pc = "serving" /\ held \subseteq {"verification-keys"}
     \/ pc = "gone" /\ held = {} /\ ~entered

Begun == {p \in Preflights : at[p] # "start"}
Few == (\A p \in Preflights : custom[p]) \/ Cardinality(Begun) <= 2

MCNext ==
  \/ ServiceStep /\ \A p \in Preflights : at[p] = "start"
  \/ AtRest /\ \E p \in Preflights : PreflightStep(p) /\ UNCHANGED vars /\ Few'
MCSpec == SharedInit /\ [][MCNext]_<<vars, preflight_vars>>

Alike == Permutations(Preflights)
=============================================================================
