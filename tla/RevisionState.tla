---------------------------- MODULE RevisionState ----------------------------
(***************************************************************************)
(* scripts/revision-state.sh: the file /state/highest-revision, the test   *)
(* of a verified manifest against it and the record that replaces it.  A   *)
(* snapshot stands for the bytes of its signed manifest, so a snapshot is  *)
(* its own SHA-256 digest.                                                 *)
(***************************************************************************)
EXTENDS Naturals

CONSTANTS Snapshots,   \* every manifest that can be met
          Revision,    \* the revision field of a manifest
          None         \* no snapshot, no digest

ASSUME SnapshotsAssumption ==
  /\ Revision \in [Snapshots -> Nat \ {0}]
  /\ None \notin Snapshots

\* The exit statuses of scripts/common.sh.
EXIT_USAGE    == 64
EXIT_SNAPSHOT == 65
EXIT_INPUT    == 66
EXIT_INTERNAL == 70
EXIT_RUNTIME  == 75
EXIT_EXPIRED  == 78

\* What the state file can hold: nothing (no file), something that is not a
\* record, or a revision with the digest of its manifest.  Earlier releases
\* recorded a revision only, so the digest of a legacy record is None.
NoRecord  == [form |-> "absent", revision |-> 0, digest |-> None]
BadRecord == [form |-> "malformed", revision |-> 0, digest |-> None]
LegacyRecord(revision) == [form |-> "record", revision |-> revision, digest |-> None]
Accepted(s) == [form |-> "record", revision |-> Revision[s], digest |-> s]

Records == {NoRecord, BadRecord}
           \cup [form : {"record"}, revision : Nat \ {0}, digest : Snapshots \cup {None}]

-----------------------------------------------------------------------------
Older(s, record) == Revision[s] < record.revision

\* The same revision was accepted before with different content.
Conflicts(s, record) ==
  /\ Revision[s] = record.revision
  /\ record.digest # None
  /\ record.digest # s

\* Variant: the digest comparison is lost.
ValidateRevisionOnly(s, record) ==
  CASE record.form = "malformed" -> EXIT_INPUT
    [] record.form = "record" /\ Older(s, record) -> EXIT_SNAPSHOT
    [] OTHER -> 0

\* validate_snapshot_revision: the exit status for snapshot s.
Validate(s, record) ==
  CASE record.form = "malformed" -> EXIT_INPUT
    [] record.form = "record" /\ (Older(s, record) \/ Conflicts(s, record)) -> EXIT_SNAPSHOT
    [] OTHER -> 0
=============================================================================
