---------------------------- MODULE MCEntrypoint ----------------------------
(***************************************************************************)
(* Instances of Entrypoint: an old snapshot, two that claim the same newer *)
(* revision, and one no key has signed.                                    *)
(***************************************************************************)
EXTENDS Entrypoint

CONSTANTS old, new, twin, forged

MCRevision  == [s \in Snapshots |-> IF s = old THEN 1 ELSE 2]
MCTrusted   == Snapshots \ {forged}
MCExpiresAt == [s \in Snapshots |-> IF s = old THEN 1 ELSE 2]
=============================================================================
