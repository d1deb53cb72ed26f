--------------------------- MODULE SnapshotVerifier ---------------------------
(***************************************************************************)
(* scripts/verify-snapshot.sh: the stage "verify" of Entrypoint in full.   *)
(* The host's snapshot directory is not locked, so the host may edit one   *)
(* file of it between any two commands.  The loop that copies the files is *)
(* the right-hand side of a pipe: a process of its own (copier), which     *)
(* TERM to the verifying shell does not reach.  The removal of the private *)
(* copies by entrypoint.sh is stepped too, as the copier may still run.    *)
(* The model ends where the build of the database begins.                  *)
(***************************************************************************)
EXTENDS Integers, FiniteSets

CONSTANTS Names,       \* names of LDIF files
          Contents,    \* contents of LDIF files
          Size,        \* their sizes in bytes
          Torn,        \* any content that no manifest lists
          Manifests,   \* contents of manifest.json
          Lists,       \* the digests a manifest gives, by file name
          Signed,      \* manifests that a configured key has signed
          WellFormed,  \* schema and directory ID are as required
          Generated,   \* when a manifest was generated
          Expires,     \* when it expires
          Tolerance,   \* by how far its generation may be ahead of the clock
          Times,       \* what date may read
          MaxBytes,    \* MAX_SNAPSHOT_BYTES
          None         \* no such file; not read yet

ASSUME SnapshotVerifierAssumption ==
  /\ Size \in [Contents -> Nat \ {0}] /\ MaxBytes \in Nat
  /\ Signed \subseteq Manifests /\ WellFormed \subseteq Manifests
  /\ Generated \in [WellFormed -> Nat] /\ Expires \in [WellFormed -> Nat]
  /\ Times \subseteq Nat /\ Tolerance \in Nat /\ None \notin Times
  /\ \A m \in Manifests :
       DOMAIN Lists[m] \subseteq Names /\ IsFiniteSet(DOMAIN Lists[m])
  /\ None \notin Contents \cup Manifests /\ Torn \notin Contents \cup {None}
  /\ \A names \in SUBSET Names : names # None

EXIT_SNAPSHOT == 65
EXIT_INPUT    == 66
EXIT_INTERNAL == 70
EXIT_EXPIRED  == 78
KILLED        == 137

VARIABLES
  manifest, signature,  \* manifest.json and what manifest.json.minisig signs
  files,                \* the LDIF files of the snapshot directory
  edited,               \* the host has changed something during this run
  pc,                   \* next command of verify-snapshot.sh, then entrypoint.sh
  status,               \* exit status of the run
  failed,               \* a tool has failed during this run
  current_epoch,        \* the time that was read, by the wall clock
  temporary_manifest, verified_manifest,
  verified_snapshot,    \* the private copies; None if there is no directory
  verified_files,       \* the list of copied names; None if there is no file
  copier,               \* next command of the loop over the files
  copier_status,
  relative_path,        \* the file the loop is at
  pending,              \* names the loop has not reached
  total_snapshot_bytes

host    == <<manifest, signature, files, edited>>
run     == <<pc, status, failed, current_epoch>>
copies  == <<verified_snapshot, verified_files>>
loop    == <<copier, copier_status, relative_path, pending, total_snapshot_bytes>>
vars    == <<host, run, temporary_manifest, verified_manifest, copies, loop>>

Verifying == {"inputs", "copy", "signature", "fields", "times", "mkdir", "wait", "compare"}
Removing  == {"find", "rmdir", "unlink", "exit"}

\* The script takes the failure of minisign, jq and sha256sum for a verdict on
\* the snapshot.
Failures == {EXIT_SNAPSHOT, EXIT_INTERNAL}

NoCopies  == << >>
CopyTypes == [content : Contents \cup {Torn}, size : 0..MaxBytes + 1]

ASSUME NoDirectoryAssumption ==
  \A names \in SUBSET Names : \A directory \in [names -> CopyTypes] : directory # None

\* The loop is past a name and not yet at the next.
AtFile == copier \in {"open", "read", "measure", "digest", "append"}

TypeOK ==
  /\ manifest \in Manifests \cup {None} /\ signature \in Manifests \cup {None}
  /\ files \in [Names -> Contents \cup {None}] /\ edited \in BOOLEAN
  /\ pc \in Verifying \cup Removing \cup {"accepted", "gone"} /\ status \in Nat /\ failed \in BOOLEAN
  /\ current_epoch \in Times \cup {None}
  /\ temporary_manifest \in Manifests \cup {None}
  /\ verified_manifest \in Manifests \cup {None}
  /\ verified_snapshot # None =>
       /\ DOMAIN verified_snapshot \subseteq Names
       /\ \A name \in DOMAIN verified_snapshot : verified_snapshot[name] \in CopyTypes
  /\ verified_files = None \/ verified_files \subseteq Names
  /\ copier \in {"none", "next", "open", "read", "measure", "digest", "append", "done"}
  /\ copier_status \in {0} \cup Failures /\ relative_path \in Names \cup {None}
  /\ AtFile => relative_path \in Names
  /\ pending \subseteq Names /\ total_snapshot_bytes \in 0..MaxBytes + 1

Init ==
  /\ manifest \in Manifests \cup {None} /\ signature \in Manifests \cup {None}
  /\ files \in [Names -> Contents \cup {None}] /\ edited = FALSE
  /\ pc = "gone" /\ status = KILLED /\ failed = FALSE /\ current_epoch = None
  /\ temporary_manifest = None /\ verified_manifest = None
  /\ verified_snapshot = None /\ verified_files = None
  /\ copier = "none" /\ copier_status = 0 /\ relative_path = None
  /\ pending = {} /\ total_snapshot_bytes = 0

-----------------------------------------------------------------------------
(* verify-snapshot.sh.                                                     *)

Present == {name \in Names : files[name] # None}

Goto(label) == pc' = label /\ UNCHANGED <<status, failed, current_epoch>>

\* The verifying shell exits, and entrypoint.sh removes the private copies.
Reject(code) == pc' = "find" /\ status' = code /\ UNCHANGED <<failed, current_epoch>>

\* entrypoint.sh removes leftovers of an earlier run before it verifies.
Start ==
  /\ pc = "gone"
  /\ pc' = "inputs" /\ status' = 0 /\ edited' = FALSE /\ failed' = FALSE
  /\ verified_snapshot' = None /\ verified_files' = None
  /\ UNCHANGED <<manifest, signature, files, current_epoch, temporary_manifest, verified_manifest, loop>>

validate_input_files ==
  /\ pc = "inputs"
  /\ IF None \in {manifest, signature} THEN Reject(EXIT_INPUT) ELSE Goto("copy")
  /\ UNCHANGED <<host, temporary_manifest, verified_manifest, copies, loop>>

CopyManifest ==
  /\ pc = "copy"
  /\ temporary_manifest' = manifest
  /\ IF manifest = None THEN Reject(EXIT_INTERNAL) ELSE Goto("signature")
  /\ UNCHANGED <<host, verified_manifest, copies, loop>>

\* Variant: minisign reads the file of the host instead of the copy.
VerifySignatureInPlace ==
  /\ pc = "signature"
  /\ IF manifest \in Signed /\ signature = manifest
       THEN Goto("fields") /\ verified_manifest' = temporary_manifest
       ELSE Reject(EXIT_SNAPSHOT) /\ UNCHANGED verified_manifest
  /\ UNCHANGED <<host, temporary_manifest, copies, loop>>

\* The signature of the host is read now, the manifest was read before.
verify_signature ==
  /\ pc = "signature"
  /\ IF temporary_manifest \in Signed /\ signature = temporary_manifest
       THEN Goto("fields") /\ verified_manifest' = temporary_manifest
       ELSE Reject(EXIT_SNAPSHOT) /\ UNCHANGED verified_manifest
  /\ UNCHANGED <<host, temporary_manifest, copies, loop>>

\* Schema and directory ID of the manifest.
ValidateFields ==
  /\ pc = "fields"
  /\ IF verified_manifest \in WellFormed THEN Goto("times") ELSE Reject(EXIT_SNAPSHOT)
  /\ UNCHANGED <<host, temporary_manifest, verified_manifest, copies, loop>>

Ahead(m, time) == Generated[m] > time + Tolerance
Late(m, time)  == time >= Expires[m]

\* A manifest of the future is refused before one that has expired.
validate_manifest_times ==
  /\ pc = "times"
  /\ \E time \in Times :
       /\ current_epoch' = time
       /\ \/ Ahead(verified_manifest, time) /\ pc' = "find" /\ status' = EXIT_SNAPSHOT
          \/ /\ ~Ahead(verified_manifest, time) /\ Late(verified_manifest, time)
             /\ pc' = "find" /\ status' = EXIT_EXPIRED
          \/ /\ ~Ahead(verified_manifest, time) /\ ~Late(verified_manifest, time)
             /\ pc' = "mkdir" /\ UNCHANGED status
  /\ UNCHANGED <<host, failed, temporary_manifest, verified_manifest, copies, loop>>

\* An empty directory, an empty list, and the pipe is started.
PrepareCopies ==
  /\ pc = "mkdir"
  /\ verified_snapshot' = NoCopies /\ verified_files' = {}
  /\ copier' = "next" /\ copier_status' = 0 /\ relative_path' = None
  /\ pending' = DOMAIN Lists[verified_manifest]
  /\ total_snapshot_bytes' = 0
  /\ Goto("wait")
  /\ UNCHANGED <<host, temporary_manifest, verified_manifest>>

PipeEnds ==
  /\ pc = "wait" /\ copier = "done"
  /\ copier' = "none"
  /\ IF copier_status = 0 THEN Goto("compare") ELSE Reject(copier_status)
  /\ UNCHANGED <<host, temporary_manifest, verified_manifest, copies,
                 copier_status, relative_path, pending, total_snapshot_bytes>>

\* The names that were copied against the names that are there now.
CompareNames ==
  /\ pc = "compare"
  /\ IF verified_files = Present THEN Goto("accepted") ELSE Reject(EXIT_SNAPSHOT)
  /\ UNCHANGED <<host, temporary_manifest, verified_manifest, copies, loop>>

\* A tool fails, a temporary file cannot be made or renamed.
CommandFails ==
  /\ pc \in Verifying \ {"wait"}
  /\ pc' = "find" /\ status' \in Failures /\ failed' = TRUE
  /\ UNCHANGED <<host, current_epoch, temporary_manifest, verified_manifest, copies, loop>>

\* The forwarded TERM ends the verifying shell where it is.
Terminated ==
  /\ pc \in Verifying
  /\ Reject(0)
  /\ UNCHANGED <<host, temporary_manifest, verified_manifest, copies, loop>>

-----------------------------------------------------------------------------
(* The loop over the listed files.                                         *)

CopierGoto(label) ==
  /\ copier' = label
  /\ UNCHANGED <<copier_status, relative_path, pending, total_snapshot_bytes>>

CopierExit(code) ==
  /\ copier' = "done" /\ copier_status' = code
  /\ UNCHANGED <<relative_path, pending, total_snapshot_bytes>>

CopyExists == verified_snapshot # None /\ relative_path \in DOMAIN verified_snapshot

PutCopy(copy) ==
  verified_snapshot' =
    [name \in DOMAIN verified_snapshot \cup {relative_path} |->
       IF name = relative_path THEN copy ELSE verified_snapshot[name]]

\* Regular, no link, readable.
CopierNext ==
  /\ copier = "next"
  /\ \E name \in pending :
       /\ pending' = pending \ {name} /\ relative_path' = name
       /\ \/ files[name] # None /\ copier' = "open" /\ UNCHANGED copier_status
          \/ files[name] = None /\ copier' = "done" /\ copier_status' = EXIT_SNAPSHOT
  /\ UNCHANGED <<host, run, temporary_manifest, verified_manifest, copies, total_snapshot_bytes>>

\* The redirection creates the copy before head reads anything.
CopierOpens ==
  /\ copier = "open"
  /\ IF verified_snapshot # None
       THEN PutCopy([content |-> Torn, size |-> 0]) /\ CopierGoto("read")
       ELSE CopierExit(EXIT_INTERNAL) /\ UNCHANGED verified_snapshot
  /\ UNCHANGED <<host, run, temporary_manifest, verified_manifest, verified_files>>

Limit == MaxBytes - total_snapshot_bytes + 1

\* Variant: head is given no limit.
CopierReadsAll ==
  /\ copier = "read"
  /\ IF files[relative_path] = None
       THEN CopierExit(EXIT_INTERNAL) /\ UNCHANGED verified_snapshot
       ELSE /\ CopierGoto("measure")
            /\ IF CopyExists
                 THEN PutCopy([content |-> files[relative_path], size |-> Size[files[relative_path]]])
                 ELSE UNCHANGED verified_snapshot
  /\ UNCHANGED <<host, run, temporary_manifest, verified_manifest, verified_files>>

\* head -c copies at most one byte more than the budget has left.  A file that
\* the host is rewriting can give anything.
ReadOutcomes ==
  LET content == files[relative_path]
      whole   == IF Size[content] <= Limit THEN [content |-> content, size |-> Size[content]]
                                           ELSE [content |-> Torn, size |-> Limit]
  IN {whole} \cup (IF edited THEN [content : {Torn}, size : 0..Limit] ELSE {})

\* A copy that was removed meanwhile takes the bytes with it.
CopierReads ==
  /\ copier = "read"
  /\ IF files[relative_path] = None
       THEN CopierExit(EXIT_INTERNAL) /\ UNCHANGED verified_snapshot
       ELSE /\ CopierGoto("measure")
            /\ IF CopyExists THEN \E copy \in ReadOutcomes : PutCopy(copy)
                             ELSE UNCHANGED verified_snapshot
  /\ UNCHANGED <<host, run, temporary_manifest, verified_manifest, verified_files>>

\* Variant: a snapshot that fills the budget is refused.
CopierMeasuresStrictly ==
  /\ copier = "measure"
  /\ IF ~CopyExists
       THEN CopierExit(EXIT_INTERNAL)
       ELSE LET total == total_snapshot_bytes + verified_snapshot[relative_path].size IN
            /\ total_snapshot_bytes' = total
            /\ IF total >= MaxBytes
                 THEN copier' = "done" /\ copier_status' = EXIT_SNAPSHOT
                 ELSE copier' = "digest" /\ UNCHANGED copier_status
            /\ UNCHANGED <<relative_path, pending>>
  /\ UNCHANGED <<host, run, temporary_manifest, verified_manifest, copies>>

\* chmod and wc fail when the copy is gone; then the budget.
CopierMeasures ==
  /\ copier = "measure"
  /\ IF ~CopyExists
       THEN CopierExit(EXIT_INTERNAL)
       ELSE LET total == total_snapshot_bytes + verified_snapshot[relative_path].size IN
            /\ total_snapshot_bytes' = total
            /\ IF total > MaxBytes
                 THEN copier' = "done" /\ copier_status' = EXIT_SNAPSHOT
                 ELSE copier' = "digest" /\ UNCHANGED copier_status
            /\ UNCHANGED <<relative_path, pending>>
  /\ UNCHANGED <<host, run, temporary_manifest, verified_manifest, copies>>

\* Variant: the digest is taken of the file of the host.
CopierComparesSource ==
  /\ copier = "digest"
  /\ IF files[relative_path] = Lists[verified_manifest][relative_path]
       THEN CopierGoto("append") ELSE CopierExit(EXIT_SNAPSHOT)
  /\ UNCHANGED <<host, run, temporary_manifest, verified_manifest, copies>>

\* sha256sum of the private copy; a copy that is gone has no digest.
CopierCompares ==
  /\ copier = "digest"
  /\ IF CopyExists
        /\ verified_snapshot[relative_path].content = Lists[verified_manifest][relative_path]
       THEN CopierGoto("append") ELSE CopierExit(EXIT_SNAPSHOT)
  /\ UNCHANGED <<host, run, temporary_manifest, verified_manifest, copies>>

\* >> creates the list when there is none.
CopierAppends ==
  /\ copier = "append"
  /\ verified_files' = {relative_path} \cup (IF verified_files = None THEN {} ELSE verified_files)
  /\ CopierGoto("next")
  /\ UNCHANGED <<host, run, temporary_manifest, verified_manifest, verified_snapshot>>

CopierEnds ==
  /\ copier = "next" /\ pending = {}
  /\ CopierExit(0)
  /\ UNCHANGED <<host, run, temporary_manifest, verified_manifest, copies>>

\* jq fails before it has printed every name.  The status of a pipe is that of
\* its last command, so the loop just ends early.
ListingCutShort ==
  /\ copier = "next" /\ pending # {}
  /\ CopierExit(0) /\ failed' = TRUE
  /\ UNCHANGED <<host, pc, status, current_epoch, temporary_manifest, verified_manifest, copies>>

CopierFails ==
  /\ AtFile
  /\ (\E code \in Failures : CopierExit(code)) /\ failed' = TRUE
  /\ UNCHANGED <<host, pc, status, current_epoch, temporary_manifest, verified_manifest, copies>>

-----------------------------------------------------------------------------
(* entrypoint.sh once the phase is over: remove_verified_snapshot || true. *)

\* What happens to an accepted snapshot is the business of Entrypoint; sooner
\* or later its private copies are removed by the same function.
Used ==
  /\ pc = "accepted"
  /\ Goto("find")
  /\ UNCHANGED <<host, temporary_manifest, verified_manifest, copies, loop>>

FindDelete ==
  /\ pc = "find"
  /\ IF verified_snapshot = None
       THEN Goto("unlink") /\ UNCHANGED verified_snapshot
       ELSE Goto("rmdir") /\ verified_snapshot' = NoCopies
  /\ UNCHANGED <<host, temporary_manifest, verified_manifest, verified_files, loop>>

\* rmdir refuses a directory that is not empty, and the function returns.
RemoveDirectory ==
  /\ pc = "rmdir"
  /\ IF verified_snapshot = NoCopies
       THEN Goto("unlink") /\ verified_snapshot' = None
       ELSE Goto("exit") /\ UNCHANGED verified_snapshot
  /\ UNCHANGED <<host, temporary_manifest, verified_manifest, verified_files, loop>>

RemoveList ==
  /\ pc = "unlink"
  /\ verified_files' = None
  /\ Goto("exit")
  /\ UNCHANGED <<host, temporary_manifest, verified_manifest, verified_snapshot, loop>>

\* The first process of the container exits; the kernel kills the others.
ContainerEnds(code) ==
  /\ pc' = "gone" /\ status' = code /\ UNCHANGED failed /\ current_epoch' = None
  /\ copier' = "none" /\ copier_status' = 0 /\ relative_path' = None
  /\ pending' = {} /\ total_snapshot_bytes' = 0
  /\ UNCHANGED <<host, temporary_manifest, verified_manifest, copies>>

ShellExits == pc = "exit" /\ ContainerEnds(status)

Killed == pc # "gone" /\ ContainerEnds(KILLED)

-----------------------------------------------------------------------------
(* The host publishes, in any order and at any time.                       *)

EditManifest ==
  /\ manifest' \in (Manifests \cup {None}) \ {manifest}
  /\ UNCHANGED <<signature, files>>

EditSignature ==
  /\ signature' \in (Manifests \cup {None}) \ {signature}
  /\ UNCHANGED <<manifest, files>>

EditFile ==
  /\ \E name \in Names : \E content \in (Contents \cup {None}) \ {files[name]} :
       files' = [files EXCEPT ![name] = content]
  /\ UNCHANGED <<manifest, signature>>

Edit ==
  /\ pc \in Verifying
  /\ EditManifest \/ EditSignature \/ EditFile
  /\ edited' = TRUE
  /\ UNCHANGED <<run, temporary_manifest, verified_manifest, copies, loop>>

-----------------------------------------------------------------------------
Verifier ==
  \/ validate_input_files \/ CopyManifest \/ verify_signature \/ ValidateFields
  \/ validate_manifest_times \/ PrepareCopies \/ PipeEnds \/ CompareNames \/ CommandFails

Copier ==
  \/ CopierNext \/ CopierOpens \/ CopierReads \/ CopierMeasures
  \/ CopierCompares \/ CopierAppends \/ CopierEnds \/ ListingCutShort \/ CopierFails

Removal == Used \/ FindDelete \/ RemoveDirectory \/ RemoveList \/ ShellExits

Next == Start \/ Verifier \/ Copier \/ Terminated \/ Removal \/ Killed \/ Edit

Spec == Init /\ [][Next]_vars

-----------------------------------------------------------------------------
(* Properties.                                                             *)

\* The bytes of files of these sizes, each with the name of its file.
Bytes(sizes) == UNION {{name} \X (1..sizes[name]) : name \in DOMAIN sizes}
Total(sizes) == Cardinality(Bytes(sizes))

CopySizes ==
  IF verified_snapshot = None THEN NoCopies
  ELSE [name \in DOMAIN verified_snapshot |-> verified_snapshot[name].size]
CopiedBytes == Total(CopySizes)

\* What the reading of the clock says of a manifest, once there is one.
TooEarly(m) == current_epoch # None /\ Ahead(m, current_epoch)
Expired(m)  == current_epoch # None /\ ~Ahead(m, current_epoch) /\ Late(m, current_epoch)
Timely(m)   == current_epoch # None /\ ~Ahead(m, current_epoch) /\ ~Late(m, current_epoch)

\* Whatever the host edits while the shell verifies, an accepted manifest is a
\* signed one and the private copies are files that it lists, with the listed
\* contents (IP0001): every check was made on the bytes that the build is going
\* to read, also after a run that left copies behind.
AcceptedIsSigned ==
  pc = "accepted" =>
    /\ verified_manifest \in Signed \cap WellFormed /\ Timely(verified_manifest)
    /\ verified_files = DOMAIN Lists[verified_manifest] \ pending
    /\ DOMAIN verified_snapshot = verified_files
    /\ \A name \in verified_files :
         verified_snapshot[name].content = Lists[verified_manifest][name]

\* verify-snapshot.sh says of the comparison of names that it finds a snapshot
\* that "omits a listed LDIF file"; so an accepted one has every listed file.
ListedFilesAccepted ==
  pc = "accepted" => verified_files = DOMAIN Lists[verified_manifest]

\* However large the files are, or grow, the copies never take more than the
\* budget and one byte (ARCHITECTURE.md, snapshot contract), orphaned copier
\* included; those of an accepted snapshot are within the budget.
CopiesBounded ==
  /\ CopiedBytes <= MaxBytes + 1
  /\ pc = "accepted" => CopiedBytes <= MaxBytes

\* The snapshot directory as a whole is what its manifest promises.
AsPromised ==
  /\ manifest \in Signed \cap WellFormed /\ signature = manifest
  /\ Present = DOMAIN Lists[manifest]
  /\ \A name \in Present : files[name] = Lists[manifest][name]
  /\ Total([name \in Present |-> Size[files[name]]]) <= MaxBytes

\* For a snapshot that the host leaves alone, and tools that do not fail, the
\* checks spread over the run amount to one definition: acceptance means that
\* the directory is what its manifest promises, at a time for which it was made;
\* status 65 that it is not, or that the manifest is too far ahead of the clock;
\* and status 78 that a genuine manifest has expired.
VerdictOfStillSnapshot ==
  ~edited /\ ~failed =>
    /\ pc = "accepted" => AsPromised /\ Timely(manifest)
    /\ pc \in Removing /\ status = EXIT_SNAPSHOT => ~AsPromised \/ TooEarly(manifest)
    /\ pc \in Removing /\ status = EXIT_EXPIRED =>
         manifest \in Signed \cap WellFormed /\ signature = manifest /\ Expired(manifest)

\* "Verified plaintext and initialization temp files must not outlive a run"
\* (tests/integration/lifecycle.py): after a run that could clean up, the
\* copies and their list are gone.
ArtifactsGone ==
  (pc = "gone" /\ status # KILLED) => verified_snapshot = None /\ verified_files = None

-----------------------------------------------------------------------------
(* Why it holds.                                                           *)

Listed  == DOMAIN Lists[verified_manifest]
Reached == Listed \ pending

\* What the loop has done so far, unless it has failed.
Looped ==
  /\ pending \subseteq Listed
  /\ AtFile => relative_path \in Reached
  /\ verified_files = IF AtFile THEN Reached \ {relative_path} ELSE Reached
  /\ DOMAIN verified_snapshot = IF copier = "open" THEN verified_files ELSE Reached
  /\ \A name \in verified_files :
       verified_snapshot[name].content = Lists[verified_manifest][name]
  /\ copier = "append" =>
       verified_snapshot[relative_path].content = Lists[verified_manifest][relative_path]

\* A loop runs only while the shell waits for it, or after the shell.
OneLoop == pc \notin Removing \cup {"wait"} => copier = "none"

Checked ==
  /\ pc = "fields" => verified_manifest \in Signed
  /\ pc = "times" => verified_manifest \in Signed \cap WellFormed
  /\ pc \in {"mkdir", "wait", "compare", "accepted"} =>
       verified_manifest \in Signed \cap WellFormed /\ Timely(verified_manifest)
  /\ pc \in {"wait", "compare", "accepted"} /\ (copier = "done" => copier_status = 0) => Looped

\* A copy takes no more than the budget had left when it was made.
Measured ==
  copier = "measure" /\ CopyExists => verified_snapshot[relative_path].size <= Limit

CheckInv == TypeOK /\ OneLoop /\ Checked /\ Measured

\* What wc has counted, or was there before the loop came to the present file.
Uncounted == copier \in {"open", "read", "measure"}
Counted   == {byte \in Bytes(CopySizes) : Uncounted => byte[1] # relative_path}

\* The total is never less than what there is, and a copy fits what is left.
Succeeding == copier \notin {"none", "done"} \/ (copier = "done" /\ copier_status = 0)
Within ==
  /\ IsFiniteSet(DOMAIN CopySizes)
  /\ CopiedBytes <= MaxBytes + 1
  /\ Succeeding => Cardinality(Counted) <= total_snapshot_bytes /\ total_snapshot_bytes <= MaxBytes
  /\ pc \in {"compare", "accepted"} => CopiedBytes <= MaxBytes

Whole(name) ==
  /\ verified_snapshot[name].content = files[name]
  /\ verified_snapshot[name].size = Size[files[name]]

\* The copies are what the directory holds, and the total is their size; of a
\* file that exceeds the limit there is a part, and only until it is measured.
AsFiles ==
  /\ verified_snapshot # None
  /\ copier \in {"none", "done"} => pending = {}
  /\ AtFile => relative_path \in Present
  /\ total_snapshot_bytes <= Cardinality(Counted)
  /\ \A name \in DOMAIN verified_snapshot :
       name \in Present /\ (Whole(name) \/ (Uncounted /\ name = relative_path))
  /\ copier = "measure" =>
       \/ Whole(relative_path)
       \/ /\ verified_snapshot[relative_path].size = Limit
          /\ Limit <= Size[files[relative_path]]

\* In a run that nobody disturbs the verdict is about the directory.
Undisturbed ==
  ~edited /\ ~failed =>
    /\ pc \in Verifying \cup {"accepted"} => status = 0
    /\ pc = "signature" => temporary_manifest = manifest
    /\ pc \in {"fields", "times", "mkdir", "wait", "compare", "accepted"} =>
         verified_manifest = manifest /\ signature = manifest
    /\ pc \in {"wait", "compare", "accepted"} /\ (copier = "done" => copier_status = 0) => AsFiles
    /\ pc = "wait" /\ copier = "done" /\ copier_status = EXIT_SNAPSHOT => ~AsPromised

Inv == CheckInv /\ Within /\ Undisturbed /\ VerdictOfStillSnapshot
=============================================================================
