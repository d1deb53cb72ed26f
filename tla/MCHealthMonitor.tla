---------------------------- MODULE MCHealthMonitor ----------------------------
(* Two snapshots: the first expires while the second is good, and the second  *)
(* outlives the modelled time.                                                *)
EXTENDS HealthMonitor

MCSoft == <<1, 1>>
MCHard == <<2, 4>>
=============================================================================
