--------------------------- MODULE DirectoryService ---------------------------
(***************************************************************************)
(* What the runtime promises its host: the accepted baseline only moves    *)
(* forward, a revision is never given a second meaning, and the directory  *)
(* that answers LDAP is the one the baseline names.                        *)
(***************************************************************************)
EXTENDS RevisionState

VARIABLES baseline,   \* the accepted revision and the digest of its manifest
          serving     \* the snapshot LDAP answers from, or None

vars == <<baseline, serving>>

\* A snapshot may follow a baseline when it is newer, or is the very snapshot
\* the baseline names, or completes a baseline that never named one.
MayFollow(s, record) ==
  /\ record.form # "malformed"
  /\ \/ record.revision < Revision[s]
     \/ record.revision = Revision[s] /\ record.digest \in {s, None}

Init == baseline \in Records /\ serving = None

Accept(s) ==
  /\ serving = None
  /\ MayFollow(s, baseline)
  /\ baseline' = Accepted(s)
  /\ UNCHANGED serving

Serve ==
  /\ serving = None
  /\ baseline.digest \in Snapshots
  /\ serving' = baseline.digest
  /\ UNCHANGED baseline

Withdraw ==
  /\ serving # None
  /\ serving' = None
  /\ UNCHANGED baseline

Next == Serve \/ Withdraw \/ \E s \in Snapshots : Accept(s)

Spec == Init /\ [][Next]_vars
=============================================================================
