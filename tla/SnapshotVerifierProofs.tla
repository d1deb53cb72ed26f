------------------------ MODULE SnapshotVerifierProofs ------------------------
(* Proofs about SnapshotVerifier: what is accepted is signed and was copied   *)
(* as listed, for every set of manifests, names and contents, every budget    *)
(* and every interleaving of the shell, its loop and the host.                *)
EXTENDS SnapshotVerifier, FiniteSetTheorems, FunctionTheorems, TLAPS

(***************************************************************************)
(* Types.                                                                  *)
(***************************************************************************)

InputTypes ==
  /\ manifest \in Manifests \cup {None} /\ signature \in Manifests \cup {None}
  /\ files \in [Names -> Contents \cup {None}] /\ edited \in BOOLEAN
RunTypes ==
  /\ pc \in Verifying \cup Removing \cup {"accepted", "gone"} /\ status \in Nat /\ failed \in BOOLEAN
  /\ current_epoch \in Times \cup {None}
  /\ temporary_manifest \in Manifests \cup {None}
  /\ verified_manifest \in Manifests \cup {None}
SnapshotType ==
  verified_snapshot # None =>
    /\ DOMAIN verified_snapshot \subseteq Names
    /\ \A name \in DOMAIN verified_snapshot : verified_snapshot[name] \in CopyTypes
FilesType == verified_files = None \/ verified_files \subseteq Names
LoopTypes ==
  /\ copier \in {"none", "next", "open", "read", "measure", "digest", "append", "done"}
  /\ copier_status \in {0} \cup Failures /\ relative_path \in Names \cup {None}
  /\ AtFile => relative_path \in Names
  /\ pending \subseteq Names /\ total_snapshot_bytes \in 0..MaxBytes + 1

LEMMA TypeParts ==
  TypeOK <=> InputTypes /\ RunTypes /\ SnapshotType /\ FilesType /\ LoopTypes
BY DEF TypeOK, InputTypes, RunTypes, SnapshotType, FilesType, LoopTypes

LEMMA NextTypes ==
  ASSUME InputTypes', RunTypes', SnapshotType', FilesType', LoopTypes'
  PROVE  TypeOK'
BY DEF TypeOK, InputTypes, RunTypes, SnapshotType, FilesType, LoopTypes

\* The limit of head.
LEMMA LimitBounds ==
  LoopTypes => Limit \in 0..MaxBytes + 1 /\ Limit + total_snapshot_bytes = MaxBytes + 1
BY SnapshotVerifierAssumption DEF LoopTypes, Limit

\* A copy is put in place, the others stay.
LEMMA PutCopyPuts ==
  ASSUME NEW copy, PutCopy(copy)
  PROVE  /\ DOMAIN verified_snapshot' = DOMAIN verified_snapshot \cup {relative_path}
         /\ verified_snapshot'[relative_path] = copy
         /\ \A name \in DOMAIN verified_snapshot :
              name # relative_path => verified_snapshot'[name] = verified_snapshot[name]
BY DEF PutCopy

LEMMA PutCopyTyped ==
  ASSUME NEW copy \in CopyTypes, SnapshotType, verified_snapshot # None,
         relative_path \in Names, PutCopy(copy)
  PROVE  SnapshotType'
<1>1. \A name \in DOMAIN verified_snapshot' : verified_snapshot'[name] \in CopyTypes
  BY PutCopyPuts DEF SnapshotType
<1>2. DOMAIN verified_snapshot' \subseteq Names
  BY PutCopyPuts DEF SnapshotType
<1>3. QED
  BY <1>1, <1>2 DEF SnapshotType

LEMMA OpenedTyped == [content |-> Torn, size |-> 0] \in CopyTypes
<1>1. 0 \in 0..MaxBytes + 1
  BY SnapshotVerifierAssumption
<1>2. QED
  BY <1>1 DEF CopyTypes

\* Whatever head makes of a file fits the budget and one byte.
LEMMA ReadTyped ==
  ASSUME TypeOK, AtFile, files[relative_path] # None, NEW copy \in ReadOutcomes
  PROVE  copy \in CopyTypes /\ copy.size <= Limit
<1>. DEFINE content == files[relative_path]
<1>1. content \in Contents /\ Size[content] \in Nat
  BY SnapshotVerifierAssumption DEF TypeOK
<1>2. Limit \in 0..MaxBytes + 1 /\ MaxBytes \in Nat
  BY LimitBounds, TypeParts, SnapshotVerifierAssumption
<1>. HIDE DEF content
<1>3. \E c \in Contents \cup {Torn}, s \in Nat :
        s <= Limit /\ copy = [content |-> c, size |-> s]
  <2>1. CASE copy = [content |-> content, size |-> Size[content]] /\ Size[content] <= Limit
    BY <2>1, <1>1
  <2>2. CASE copy = [content |-> Torn, size |-> Limit]
    BY <2>2, <1>2
  <2>3. CASE copy \in [content : {Torn}, size : 0..Limit]
    BY <2>3, <1>2
  <2>4. QED
    BY <2>1, <2>2, <2>3 DEF ReadOutcomes, content
<1>4. PICK c \in Contents \cup {Torn}, s \in Nat :
        s <= Limit /\ copy = [content |-> c, size |-> s]
  BY <1>3
<1>5. s \in 0..MaxBytes + 1
  BY <1>2, <1>4
<1>6. QED
  BY <1>4, <1>5 DEF CopyTypes

LEMMA Codes ==
  /\ EXIT_SNAPSHOT \in Nat \ {0} /\ EXIT_INPUT \in Nat /\ EXIT_INTERNAL \in Nat \ {0}
  /\ EXIT_EXPIRED \in Nat /\ KILLED \in Nat
  /\ Failures = {EXIT_SNAPSHOT, EXIT_INTERNAL} /\ EXIT_EXPIRED \notin {0} \cup Failures
BY DEF Failures, EXIT_SNAPSHOT, EXIT_INPUT, EXIT_INTERNAL, EXIT_EXPIRED, KILLED

\* Rejecting and going on leave a known command.
LEMMA GotoTyped ==
  ASSUME RunTypes, temporary_manifest' \in Manifests \cup {None},
         verified_manifest' \in Manifests \cup {None},
         \/ \E label \in Verifying \cup Removing \cup {"accepted", "gone"} : Goto(label)
         \/ \E code \in Nat : Reject(code)
  PROVE  RunTypes'
BY DEF RunTypes, Goto, Reject, Removing

LEMMA CopierGotoTyped ==
  ASSUME LoopTypes, AtFile, NEW label \in {"next", "read", "measure", "digest", "append"},
         CopierGoto(label)
  PROVE  LoopTypes'
BY DEF LoopTypes, CopierGoto, AtFile

LEMMA CopierExitTyped ==
  ASSUME LoopTypes, NEW code \in {0} \cup Failures, CopierExit(code)
  PROVE  LoopTypes'
BY DEF LoopTypes, CopierExit, AtFile

LEMMA SameTypes ==
  /\ InputTypes /\ UNCHANGED host => InputTypes'
  /\ RunTypes /\ UNCHANGED <<run, temporary_manifest, verified_manifest>> => RunTypes'
  /\ SnapshotType /\ UNCHANGED verified_snapshot => SnapshotType'
  /\ FilesType /\ UNCHANGED verified_files => FilesType'
  /\ LoopTypes /\ UNCHANGED loop => LoopTypes'
BY DEF InputTypes, host, RunTypes, run, SnapshotType, FilesType, LoopTypes, AtFile, loop

\* The commands of the shell before and after the loop.
LEMMA ShellTyped ==
  ASSUME TypeOK, Checked, Verifier \/ Terminated \/ Removal \/ Killed \/ Start
  PROVE  TypeOK'
<1>. InputTypes /\ RunTypes /\ SnapshotType /\ FilesType /\ LoopTypes
  BY TypeParts
<1>. USE DEF copies
<1>1. CASE Start
  <2>1. InputTypes' /\ RunTypes' /\ LoopTypes'
    BY <1>1, SameTypes DEF Start, InputTypes, RunTypes, Verifying
  <2>2. SnapshotType' /\ FilesType'
    BY <1>1 DEF Start, SnapshotType, FilesType
  <2>3. QED
    BY <2>1, <2>2, NextTypes
<1>2. CASE validate_input_files \/ CompareNames \/ CommandFails \/ Terminated \/ Used
  <2>1. RunTypes'
    <3>1. CASE CommandFails
      BY <3>1, Codes DEF RunTypes, CommandFails, Failures, Removing
    <3>2. CASE ~CommandFails
      BY <1>2, <3>2, Codes, GotoTyped DEF RunTypes, validate_input_files, CompareNames,
         Terminated, Used, Verifying, Removing
    <3>3. QED
      BY <3>1, <3>2
  <2>2. InputTypes' /\ SnapshotType' /\ FilesType' /\ LoopTypes'
    BY <1>2, SameTypes DEF validate_input_files, CompareNames, CommandFails, Terminated, Used
  <2>3. QED
    BY <2>1, <2>2, NextTypes
<1>3. CASE CopyManifest \/ verify_signature \/ ValidateFields \/ validate_manifest_times
  <2>1. RunTypes'
    <3>1. CASE validate_manifest_times
      BY <3>1, Codes DEF RunTypes, validate_manifest_times, Verifying, Removing
    <3>2. CASE ~validate_manifest_times
      BY <1>3, <3>2, Codes, GotoTyped DEF InputTypes, RunTypes, CopyManifest, verify_signature,
         ValidateFields, Verifying
    <3>3. QED
      BY <3>1, <3>2
  <2>2. InputTypes' /\ SnapshotType' /\ FilesType' /\ LoopTypes'
    BY <1>3, SameTypes DEF CopyManifest, verify_signature, ValidateFields, validate_manifest_times
  <2>3. QED
    BY <2>1, <2>2, NextTypes
<1>4. CASE PrepareCopies
  <2>1. RunTypes'
    BY <1>4, GotoTyped DEF RunTypes, PrepareCopies, Verifying
  <2>2. SnapshotType' /\ FilesType'
    BY <1>4 DEF PrepareCopies, SnapshotType, FilesType, NoCopies
  <2>3. LoopTypes'
    <3>1. DOMAIN Lists[verified_manifest] \subseteq Names
      BY <1>4, SnapshotVerifierAssumption DEF PrepareCopies, Checked
    <3>2. 0 \in 0..MaxBytes + 1
      BY SnapshotVerifierAssumption
    <3>3. QED
      BY <1>4, <3>1, <3>2 DEF PrepareCopies, LoopTypes, AtFile
  <2>4. InputTypes'
    BY <1>4, SameTypes DEF PrepareCopies
  <2>5. QED
    BY <2>1, <2>2, <2>3, <2>4, NextTypes
<1>5. CASE PipeEnds
  <2>1. RunTypes'
    BY <1>5, GotoTyped, Codes DEF RunTypes, LoopTypes, PipeEnds, Verifying
  <2>2. LoopTypes'
    BY <1>5 DEF PipeEnds, LoopTypes, AtFile
  <2>3. InputTypes' /\ SnapshotType' /\ FilesType'
    BY <1>5, SameTypes DEF PipeEnds
  <2>4. QED
    BY <2>1, <2>2, <2>3, NextTypes
<1>6. CASE FindDelete \/ RemoveDirectory \/ RemoveList
  <2>1. RunTypes'
    BY <1>6, GotoTyped DEF RunTypes, FindDelete, RemoveDirectory, RemoveList, Removing
  <2>2. SnapshotType'
    BY <1>6, SameTypes DEF FindDelete, RemoveDirectory, RemoveList, SnapshotType, NoCopies
  <2>3. FilesType'
    BY <1>6, SameTypes DEF FindDelete, RemoveDirectory, RemoveList, FilesType
  <2>4. InputTypes' /\ LoopTypes'
    BY <1>6, SameTypes DEF FindDelete, RemoveDirectory, RemoveList
  <2>5. QED
    BY <2>1, <2>2, <2>3, <2>4, NextTypes
<1>7. CASE ShellExits \/ Killed
  <2>. PICK code \in Nat : ContainerEnds(code)
    BY <1>7, Codes DEF ShellExits, Killed, RunTypes
  <2>1. RunTypes'
    BY DEF ContainerEnds, RunTypes
  <2>2. LoopTypes'
    <3>1. 0 \in 0..MaxBytes + 1
      BY SnapshotVerifierAssumption
    <3>2. QED
      BY <3>1 DEF ContainerEnds, LoopTypes, AtFile
  <2>3. InputTypes' /\ SnapshotType' /\ FilesType'
    BY SameTypes DEF ContainerEnds
  <2>4. QED
    BY <2>1, <2>2, <2>3, NextTypes
<1>8. QED
  BY <1>1, <1>2, <1>3, <1>4, <1>5, <1>6, <1>7 DEF Verifier, Removal

\* The commands of the loop.
LEMMA CopierTyped ==
  ASSUME TypeOK, Measured, Copier
  PROVE  TypeOK'
<1>. InputTypes /\ RunTypes /\ SnapshotType /\ FilesType /\ LoopTypes
  BY TypeParts
<1>1. InputTypes' /\ RunTypes'
  BY SameTypes DEF Copier, CopierNext, CopierOpens, CopierReads, CopierMeasures,
     CopierCompares, CopierAppends, CopierEnds, ListingCutShort, CopierFails, run, RunTypes
<1>2. FilesType'
  <2>1. CASE CopierAppends
    BY <2>1 DEF CopierAppends, FilesType, LoopTypes, AtFile
  <2>2. CASE ~CopierAppends
    BY <2>2, SameTypes DEF Copier, CopierNext, CopierOpens, CopierReads, CopierMeasures,
       CopierCompares, CopierEnds, ListingCutShort, CopierFails, copies
  <2>3. QED
    BY <2>1, <2>2
<1>3. SnapshotType'
  <2>1. CASE CopierOpens
    BY <2>1, SameTypes, OpenedTyped, PutCopyTyped DEF CopierOpens, LoopTypes, AtFile
  <2>2. CASE CopierReads
    <3>1. CASE UNCHANGED verified_snapshot
      BY <3>1, SameTypes
    <3>2. CASE \E copy \in ReadOutcomes : PutCopy(copy) /\ CopyExists /\ files[relative_path] # None
      <4>. PICK copy \in ReadOutcomes : PutCopy(copy) /\ CopyExists /\ files[relative_path] # None
        BY <3>2
      <4>1. AtFile /\ relative_path \in Names
        BY <2>2 DEF CopierReads, AtFile, LoopTypes
      <4>2. copy \in CopyTypes
        BY <4>1, ReadTyped
      <4>3. QED
        BY <4>1, <4>2, PutCopyTyped DEF CopyExists
    <3>3. QED
      BY <2>2, <3>1, <3>2 DEF CopierReads
  <2>3. CASE ~(CopierOpens \/ CopierReads)
    BY <2>3, SameTypes DEF Copier, CopierNext, CopierMeasures, CopierCompares, CopierAppends,
       CopierEnds, ListingCutShort, CopierFails, copies
  <2>4. QED
    BY <2>1, <2>2, <2>3
<1>4. LoopTypes'
  <2>1. CASE CopierNext
    BY <2>1, Codes DEF CopierNext, LoopTypes, AtFile
  <2>2. CASE CopierOpens \/ CopierReads \/ CopierCompares \/ CopierAppends
    BY <2>2, Codes, CopierGotoTyped, CopierExitTyped DEF CopierOpens, CopierReads,
       CopierCompares, CopierAppends, AtFile
  <2>3. CASE CopierEnds \/ ListingCutShort \/ CopierFails
    BY <2>3, Codes, CopierExitTyped DEF CopierEnds, ListingCutShort, CopierFails, Failures
  <2>4. CASE CopierMeasures
    <3>1. CASE ~CopyExists
      BY <2>4, <3>1, Codes, CopierExitTyped DEF CopierMeasures
    <3>2. CASE CopyExists
      <4>. DEFINE size == verified_snapshot[relative_path].size
      <4>1. size \in 0..MaxBytes + 1
        BY <3>2 DEF SnapshotType, CopyExists, CopyTypes
      <4>2. size <= Limit
        BY <2>4, <3>2 DEF CopierMeasures, Measured
      <4>. HIDE DEF size
      <4>3. total_snapshot_bytes + size \in 0..MaxBytes + 1
        BY <4>1, <4>2, SnapshotVerifierAssumption DEF LoopTypes, Limit
      <4>4. /\ total_snapshot_bytes' = total_snapshot_bytes + size
            /\ \/ copier' = "done" /\ copier_status' = EXIT_SNAPSHOT
               \/ copier' = "digest" /\ copier_status' = copier_status
            /\ UNCHANGED <<relative_path, pending>>
        BY <2>4, <3>2 DEF CopierMeasures, size
      <4>5. relative_path \in Names
        BY <2>4 DEF CopierMeasures, LoopTypes, AtFile
      <4>6. QED
        BY <4>3, <4>4, <4>5, Codes DEF LoopTypes, AtFile
    <3>3. QED
      BY <3>1, <3>2
  <2>5. QED
    BY <2>1, <2>2, <2>3, <2>4 DEF Copier
<1>5. QED
  BY <1>1, <1>2, <1>3, <1>4, NextTypes

\* The host.
LEMMA EditTyped ==
  ASSUME TypeOK, Edit
  PROVE  TypeOK'
<1>1. InputTypes'
  BY TypeParts DEF Edit, EditManifest, EditSignature, EditFile, InputTypes
<1>2. RunTypes' /\ SnapshotType' /\ FilesType' /\ LoopTypes'
  BY TypeParts, SameTypes DEF Edit, copies
<1>3. QED
  BY <1>1, <1>2, NextTypes

(***************************************************************************)
(* The loop.                                                               *)
(***************************************************************************)

LEMMA OneLoopStep == OneLoop /\ [Next]_vars => OneLoop'
<1>. SUFFICES ASSUME OneLoop, [Next]_vars PROVE OneLoop'
  OBVIOUS
<1>. USE DEF OneLoop, Removing, Goto, Reject
<1>1. CASE Start
  BY <1>1 DEF Start, loop
<1>2. CASE Verifier
  BY <1>2 DEF Verifier, validate_input_files, CopyManifest, verify_signature, ValidateFields,
     validate_manifest_times, PrepareCopies, PipeEnds, CompareNames, CommandFails, Verifying, loop
<1>3. CASE Copier
  BY <1>3 DEF Copier, CopierNext, CopierOpens, CopierReads, CopierMeasures, CopierCompares,
     CopierAppends, CopierEnds, ListingCutShort, CopierFails, AtFile, run
<1>4. CASE Terminated
  BY <1>4 DEF Terminated
<1>5. CASE Removal
  BY <1>5 DEF Removal, Used, FindDelete, RemoveDirectory, RemoveList, ShellExits,
     ContainerEnds, loop
<1>6. CASE Killed
  BY <1>6 DEF Killed, ContainerEnds
<1>7. CASE Edit \/ UNCHANGED vars
  BY <1>7 DEF Edit, vars, run, loop
<1>8. QED
  BY <1>1, <1>2, <1>3, <1>4, <1>5, <1>6, <1>7 DEF Next

\* A copy that is about to be measured was read within the limit, or is gone.
LEMMA MeasuredStep == CheckInv /\ [Next]_vars => Measured'
<1>. SUFFICES ASSUME CheckInv, [Next]_vars, (copier = "measure" /\ CopyExists)'
              PROVE  (verified_snapshot[relative_path].size <= Limit)'
  BY DEF Measured
<1>. USE DEF CheckInv, CopyExists, Limit
<1>1. CASE UNCHANGED <<verified_snapshot, loop>>
  BY <1>1 DEF Measured, loop
<1>2. CASE CopierReads
  <2>1. AtFile /\ UNCHANGED <<relative_path, total_snapshot_bytes>>
    BY <1>2 DEF CopierReads, CopierExit, CopierGoto, AtFile
  <2>2. CASE UNCHANGED verified_snapshot
    <3>1. CopyExists /\ files[relative_path] # None
      BY <1>2, <2>1, <2>2 DEF CopierReads, CopierExit
    <3>2. PICK copy \in ReadOutcomes : PutCopy(copy)
      BY <1>2, <3>1 DEF CopierReads
    <3>3. QED
      BY <2>1, <3>1, <3>2, ReadTyped, PutCopyPuts
  <2>3. CASE \E copy \in ReadOutcomes : PutCopy(copy) /\ files[relative_path] # None
    BY <2>1, <2>3, ReadTyped, PutCopyPuts
  <2>4. QED
    BY <1>2, <2>2, <2>3 DEF CopierReads
<1>3. CASE FindDelete \/ RemoveDirectory
  BY <1>1, <1>3 DEF FindDelete, RemoveDirectory, NoCopies
<1>4. CASE Start \/ RemoveList
  BY <1>4, <1>1 DEF Start, RemoveList, loop, OneLoop, Removing
<1>5. CASE Verifier \/ Terminated \/ Used \/ Edit \/ UNCHANGED vars
  BY <1>5, <1>1 DEF Verifier, validate_input_files, CopyManifest, verify_signature,
     ValidateFields, validate_manifest_times, PrepareCopies, PipeEnds, CompareNames, CommandFails,
     Terminated, Used, Edit, vars, copies
<1>6. CASE Copier /\ ~CopierReads
  BY <1>6 DEF Copier, CopierNext, CopierOpens, CopierMeasures, CopierCompares, CopierAppends,
     CopierEnds, ListingCutShort, CopierFails, CopierGoto, CopierExit, AtFile
<1>7. CASE ShellExits \/ Killed
  BY <1>7 DEF ShellExits, Killed, ContainerEnds
<1>8. QED
  BY <1>2, <1>3, <1>4, <1>5, <1>6, <1>7 DEF Next, Removal

\* One round of the loop: what it has reached is listed, copied and, but for
\* the file it is at, on the list of copied names.
LEMMA RoundStep ==
  ASSUME CheckInv, pc = "wait", Copier, (copier = "done" => copier_status = 0)'
  PROVE  Looped'
<1>. USE Codes DEF CopierGoto, CopierExit, copies
<1>1. Looped /\ UNCHANGED verified_manifest /\ Listed' = Listed
  BY DEF CheckInv, Checked, Copier, CopierNext, CopierOpens, CopierReads, CopierMeasures,
     CopierCompares, CopierAppends, CopierEnds, ListingCutShort, CopierFails, AtFile, Listed
<1>2. CASE CopierNext
  <2>1. PICK name \in pending : pending' = pending \ {name} /\ relative_path' = name
                                /\ copier = "next" /\ copier' = "open"
    BY <1>2 DEF CopierNext
  <2>2. Reached' = Reached \cup {name} /\ name \notin Reached
    BY <1>1, <2>1 DEF Looped, Reached
  <2>3. UNCHANGED <<verified_files, verified_snapshot>>
    BY <1>2 DEF CopierNext
  <2>4. /\ ~AtFile /\ AtFile'
        /\ verified_files = Reached /\ DOMAIN verified_snapshot = Reached
    BY <1>1, <2>1 DEF Looped, AtFile
  <2>5. pending' \subseteq Listed'
    BY <1>1, <2>1 DEF Looped
  <2>6. QED
    BY <1>1, <2>1, <2>2, <2>3, <2>4, <2>5 DEF Looped
<1>3. CASE CopierOpens
  <2>1. /\ PutCopy([content |-> Torn, size |-> 0])
        /\ copier = "open" /\ copier' = "read"
        /\ UNCHANGED <<relative_path, pending, verified_files>>
    BY <1>3 DEF CopierOpens
  <2>2. /\ AtFile /\ AtFile' /\ Reached' = Reached
        /\ relative_path \in Reached /\ verified_files = Reached \ {relative_path}
        /\ DOMAIN verified_snapshot = verified_files
    BY <1>1, <2>1 DEF Looped, AtFile, Reached
  <2>3. /\ DOMAIN verified_snapshot' = Reached
        /\ \A name \in verified_files : verified_snapshot'[name] = verified_snapshot[name]
    BY <2>1, <2>2, PutCopyPuts
  <2>4. QED
    BY <1>1, <2>1, <2>2, <2>3 DEF Looped
<1>4. CASE CopierReads
  <2>1. /\ copier = "read" /\ copier' = "measure"
        /\ UNCHANGED <<relative_path, pending, verified_files>>
        /\ UNCHANGED verified_snapshot \/ \E copy \in ReadOutcomes : PutCopy(copy)
    BY <1>4 DEF CopierReads
  <2>2. /\ AtFile /\ AtFile' /\ Reached' = Reached
        /\ relative_path \in Reached /\ verified_files = Reached \ {relative_path}
        /\ DOMAIN verified_snapshot = Reached
    BY <1>1, <2>1 DEF Looped, AtFile, Reached
  <2>3. /\ DOMAIN verified_snapshot' = Reached
        /\ \A name \in verified_files : verified_snapshot'[name] = verified_snapshot[name]
    BY <2>1, <2>2, PutCopyPuts
  <2>4. QED
    BY <1>1, <2>1, <2>2, <2>3 DEF Looped
<1>5. CASE CopierMeasures \/ CopierCompares
  <2>1. /\ AtFile /\ AtFile' /\ copier # "open" /\ copier' # "open"
        /\ UNCHANGED <<relative_path, pending, verified_files, verified_snapshot>>
    BY <1>5 DEF CopierMeasures, CopierCompares, AtFile
  <2>2. copier' = "append" =>
          verified_snapshot[relative_path].content = Lists[verified_manifest][relative_path]
    BY <1>5 DEF CopierMeasures, CopierCompares
  <2>3. Reached' = Reached
    BY <1>1, <2>1 DEF Reached
  <2>4. QED
    BY <1>1, <2>1, <2>2, <2>3 DEF Looped
<1>6. CASE CopierAppends
  <2>1. /\ copier = "append" /\ copier' = "next"
        /\ verified_files' = {relative_path} \cup (IF verified_files = None THEN {} ELSE verified_files)
        /\ UNCHANGED <<relative_path, pending, verified_snapshot>>
    BY <1>6 DEF CopierAppends
  <2>2. /\ AtFile /\ ~AtFile' /\ Reached' = Reached
        /\ relative_path \in Reached /\ verified_files = Reached \ {relative_path}
        /\ DOMAIN verified_snapshot = Reached
        /\ verified_snapshot[relative_path].content = Lists[verified_manifest][relative_path]
    BY <1>1, <2>1 DEF Looped, AtFile, Reached
  <2>3. Reached \subseteq Names
    BY SnapshotVerifierAssumption DEF CheckInv, Checked, Reached, Listed
  <2>4. verified_files # None
    BY <2>2, <2>3, SnapshotVerifierAssumption
  <2>5. verified_files' = Reached
    BY <2>1, <2>2, <2>4
  <2>6. QED
    BY <1>1, <2>1, <2>2, <2>5 DEF Looped
<1>7. CASE CopierEnds \/ ListingCutShort
  <2>1. /\ ~AtFile /\ ~AtFile' /\ copier # "open" /\ copier' \notin {"open", "append"}
        /\ UNCHANGED <<pending, verified_files, verified_snapshot>>
    BY <1>7 DEF CopierEnds, ListingCutShort, AtFile
  <2>2. Reached' = Reached
    BY <1>1, <2>1 DEF Reached
  <2>3. QED
    BY <1>1, <2>1, <2>2 DEF Looped
<1>8. ~CopierFails
  BY DEF CopierFails, Failures
<1>9. QED
  BY <1>2, <1>3, <1>4, <1>5, <1>6, <1>7, <1>8 DEF Copier

\* What the loop has done stays while neither it nor its files change.
LEMMA LoopedStays ==
  ASSUME Looped, UNCHANGED <<verified_manifest, copies, pending>>,
         \/ UNCHANGED <<copier, relative_path>>
         \/ copier \notin {"open", "read", "measure", "digest", "append"} /\ copier' = "none"
  PROVE  Looped'
<1>1. Reached' = Reached /\ Listed' = Listed
  BY DEF Reached, Listed
<1>2. UNCHANGED <<verified_files, verified_snapshot>>
  BY DEF copies
<1>3. CASE UNCHANGED <<copier, relative_path>>
  BY <1>1, <1>2, <1>3 DEF Looped, AtFile
<1>4. CASE copier \notin {"open", "read", "measure", "digest", "append"} /\ copier' = "none"
  BY <1>1, <1>2, <1>4 DEF Looped, AtFile
<1>5. QED
  BY <1>3, <1>4

\* What the time that was read says of a manifest stays said.
LEMMA TimesStay ==
  ASSUME UNCHANGED current_epoch
  PROVE  /\ UNCHANGED verified_manifest =>
              Timely(verified_manifest)' = Timely(verified_manifest)
         /\ UNCHANGED manifest =>
              /\ Timely(manifest)' = Timely(manifest) /\ TooEarly(manifest)' = TooEarly(manifest)
              /\ Expired(manifest)' = Expired(manifest)
BY DEF Timely, TooEarly, Expired

\* The manifest that the shell works with has passed the checks before.
LEMMA CheckedStep == CheckInv /\ [Next]_vars => Checked'
<1>. SUFFICES ASSUME CheckInv, [Next]_vars PROVE Checked'
  OBVIOUS
<1>0. OneLoop /\ Checked
  BY DEF CheckInv
<1>. USE TimesStay DEF Checked, Goto, Reject
<1>1. CASE Start \/ Terminated \/ Removal \/ Killed
  BY <1>1 DEF Start, Terminated, Removal, Used, FindDelete, RemoveDirectory, RemoveList,
     ShellExits, Killed, ContainerEnds
<1>2. CASE validate_input_files \/ CopyManifest \/ verify_signature \/ CommandFails
  BY <1>2 DEF validate_input_files, CopyManifest, verify_signature, CommandFails
<1>3. CASE ValidateFields \/ validate_manifest_times
  BY <1>0, <1>3, SnapshotVerifierAssumption DEF ValidateFields, validate_manifest_times, Timely
<1>4. CASE PrepareCopies
  <2>1. /\ verified_snapshot' = NoCopies /\ verified_files' = {} /\ copier' = "next"
        /\ pending' = Listed /\ UNCHANGED verified_manifest /\ pc = "mkdir" /\ pc' = "wait"
    BY <1>4 DEF PrepareCopies, Listed
  <2>2. Listed' = Listed /\ Reached' = {} /\ ~AtFile'
    BY <2>1 DEF Reached, Listed, AtFile
  <2>3. Looped'
    BY <2>1, <2>2 DEF Looped, NoCopies
  <2>4. QED
    BY <1>0, <1>4, <2>1, <2>3 DEF PrepareCopies
<1>5. CASE PipeEnds
  BY <1>0, <1>5, LoopedStays DEF PipeEnds
<1>6. CASE CompareNames
  BY <1>0, <1>6, LoopedStays DEF CompareNames, OneLoop, Removing, loop
<1>7. CASE Copier
  <2>1. UNCHANGED <<pc, verified_manifest, current_epoch>>
    BY <1>7 DEF Copier, CopierNext, CopierOpens, CopierReads, CopierMeasures, CopierCompares,
       CopierAppends, CopierEnds, ListingCutShort, CopierFails, run
  <2>2. copier # "none"
    BY <1>7 DEF Copier, CopierNext, CopierOpens, CopierReads, CopierMeasures, CopierCompares,
       CopierAppends, CopierEnds, ListingCutShort, CopierFails, AtFile
  <2>3. pc \notin {"compare", "accepted"}
    BY <1>0, <2>2 DEF OneLoop, Removing
  <2>4. QED
    BY <1>0, <1>7, <2>1, <2>3, RoundStep
<1>8. CASE Edit \/ UNCHANGED vars
  BY <1>0, <1>8, LoopedStays DEF Edit, vars, run, loop
<1>9. QED
  BY <1>1, <1>2, <1>3, <1>4, <1>5, <1>6, <1>7, <1>8 DEF Next, Verifier

(***************************************************************************)
(* Bytes.                                                                  *)
(***************************************************************************)

LEMMA BytesOf ==
  ASSUME NEW sizes
  PROVE  \A byte : byte \in Bytes(sizes) <=>
           \E name \in DOMAIN sizes : \E k \in 1..sizes[name] : byte = <<name, k>>
BY DEF Bytes

LEMMA OneFile ==
  ASSUME NEW name, NEW n \in Nat
  PROVE  IsFiniteSet({name} \X (1..n)) /\ Cardinality({name} \X (1..n)) = n
<1>1. IsFiniteSet({name}) /\ Cardinality({name}) = 1
  BY FS_Singleton
<1>2. IsFiniteSet(1..n) /\ Cardinality(1..n) = n
  BY FS_Interval
<1>3. /\ IsFiniteSet({name} \X (1..n))
      /\ Cardinality({name} \X (1..n)) = Cardinality({name}) * Cardinality(1..n)
  BY <1>1, <1>2, FS_Product
<1>4. QED
  BY <1>1, <1>2, <1>3

LEMMA Disjoint ==
  ASSUME NEW S, NEW T, IsFiniteSet(S), IsFiniteSet(T), S \cap T = {}
  PROVE  /\ IsFiniteSet(S \cup T)
         /\ Cardinality(S \cup T) = Cardinality(S) + Cardinality(T)
<1>1. /\ IsFiniteSet(S \cup T)
      /\ Cardinality(S \cup T) = Cardinality(S) + Cardinality(T) - Cardinality(S \cap T)
  BY FS_Union
<1>2. Cardinality(S \cap T) = 0
  BY FS_EmptySet
<1>3. Cardinality(S) \in Nat /\ Cardinality(T) \in Nat
  BY FS_CardinalityType
<1>4. QED
  BY <1>1, <1>2, <1>3

LEMMA BytesFinite ==
  ASSUME NEW sizes, IsFiniteSet(DOMAIN sizes),
         \A name \in DOMAIN sizes : sizes[name] \in Nat
  PROVE  IsFiniteSet(Bytes(sizes)) /\ Total(sizes) \in Nat
<1>. DEFINE blocks == [name \in DOMAIN sizes |-> {name} \X (1..sizes[name])]
            all    == {{name} \X (1..sizes[name]) : name \in DOMAIN sizes}
<1>1. blocks \in Surjection(DOMAIN sizes, all)
  BY DEF Surjection
<1>2. IsFiniteSet(all)
  BY <1>1, FS_Surjection
<1>3. ASSUME NEW block \in all PROVE IsFiniteSet(block)
  <2>1. PICK name \in DOMAIN sizes : block = {name} \X (1..sizes[name])
    OBVIOUS
  <2>2. IsFiniteSet({name} \X (1..sizes[name]))
    BY OneFile
  <2>3. QED
    BY <2>1, <2>2
<1>4. IsFiniteSet(UNION all)
  <2>. HIDE DEF all
  <2> QED
    BY <1>2, <1>3, FS_UNION
<1>5. IsFiniteSet(Bytes(sizes))
  BY <1>4 DEF Bytes
<1>6. QED
  BY <1>5, FS_CardinalityType DEF Total

\* Every file of the one is a file of the other, and no larger.
LEMMA FewerBytes ==
  ASSUME NEW sizes, NEW sizes2, DOMAIN sizes \subseteq DOMAIN sizes2,
         \A name \in DOMAIN sizes : sizes[name] \in Nat /\ sizes2[name] \in Nat /\ sizes[name] <= sizes2[name]
  PROVE  Bytes(sizes) \subseteq Bytes(sizes2)
<1>. SUFFICES ASSUME NEW byte \in Bytes(sizes) PROVE byte \in Bytes(sizes2)
  OBVIOUS
<1>1. PICK name \in DOMAIN sizes : \E k \in 1..sizes[name] : byte = <<name, k>>
  BY BytesOf
<1>2. PICK k \in 1..sizes[name] : byte = <<name, k>>
  BY <1>1
<1>3. k \in 1..sizes2[name]
  BY <1>2
<1>4. QED
  BY <1>2, <1>3, BytesOf

LEMMA SizesTyped ==
  ASSUME SnapshotType
  PROVE  /\ DOMAIN CopySizes \subseteq Names
         /\ \A name \in DOMAIN CopySizes : CopySizes[name] \in 0..MaxBytes + 1
         /\ verified_snapshot # None =>
              /\ DOMAIN CopySizes = DOMAIN verified_snapshot
              /\ \A name \in DOMAIN CopySizes : CopySizes[name] = verified_snapshot[name].size
<1>1. CASE verified_snapshot = None
  BY <1>1 DEF CopySizes, NoCopies
<1>2. CASE verified_snapshot # None
  BY <1>2 DEF CopySizes, SnapshotType, CopyTypes
<1>3. QED
  BY <1>1, <1>2

LEMMA SizesCounted ==
  ASSUME SnapshotType, Within
  PROVE  /\ IsFiniteSet(Bytes(CopySizes)) /\ CopiedBytes \in Nat
         /\ IsFiniteSet(Counted) /\ Cardinality(Counted) \in Nat
         /\ Counted \subseteq Bytes(CopySizes) /\ Cardinality(Counted) <= CopiedBytes
<1>1. \A name \in DOMAIN CopySizes : CopySizes[name] \in Nat
  BY SizesTyped, SnapshotVerifierAssumption
<1>2. IsFiniteSet(Bytes(CopySizes)) /\ CopiedBytes \in Nat
  BY <1>1, BytesFinite DEF Within, CopiedBytes
<1>3. Counted \in SUBSET Bytes(CopySizes)
  BY DEF Counted
<1>4. QED
  BY <1>2, <1>3, FS_Subset, FS_CardinalityType DEF CopiedBytes, Total

\* A copy is put in place of what there was of that name.
Others == {byte \in Bytes(CopySizes) : byte[1] # relative_path}

LEMMA PutCopyBytes ==
  ASSUME SnapshotType, verified_snapshot # None, relative_path \in Names,
         NEW copy \in CopyTypes, PutCopy(copy)
  PROVE  /\ verified_snapshot' # None
         /\ DOMAIN CopySizes' = DOMAIN CopySizes \cup {relative_path}
         /\ Bytes(CopySizes)' = Others \cup ({relative_path} \X (1..copy.size))
<1>1. /\ DOMAIN verified_snapshot' = DOMAIN verified_snapshot \cup {relative_path}
      /\ verified_snapshot'[relative_path] = copy
      /\ \A name \in DOMAIN verified_snapshot :
           name # relative_path => verified_snapshot'[name] = verified_snapshot[name]
  BY PutCopyPuts
<1>2. verified_snapshot' # None
  <2>1. SnapshotType /\ DOMAIN verified_snapshot \cup {relative_path} \in SUBSET Names
    BY DEF SnapshotType
  <2>2. verified_snapshot' \in [DOMAIN verified_snapshot \cup {relative_path} -> CopyTypes]
    BY DEF SnapshotType, PutCopy
  <2>3. QED
    BY <2>1, <2>2, NoDirectoryAssumption
<1>3. /\ CopySizes = [name \in DOMAIN verified_snapshot |-> verified_snapshot[name].size]
      /\ CopySizes' = [name \in DOMAIN verified_snapshot' |-> verified_snapshot'[name].size]
  BY <1>2 DEF CopySizes
<1>4. DOMAIN CopySizes' = DOMAIN CopySizes \cup {relative_path}
  BY <1>1, <1>3
<1>5. CopySizes'[relative_path] = copy.size
  BY <1>1, <1>3
<1>6. \A name \in DOMAIN CopySizes : name # relative_path => CopySizes'[name] = CopySizes[name]
  BY <1>1, <1>3
<1>. HIDE DEF CopySizes
<1>7. ASSUME NEW byte \in Bytes(CopySizes')
      PROVE  byte \in Others \cup ({relative_path} \X (1..copy.size))
  <2>1. PICK name \in DOMAIN CopySizes' : \E k \in 1..CopySizes'[name] : byte = <<name, k>>
    BY <1>7, BytesOf
  <2>2. PICK k \in 1..CopySizes'[name] : byte = <<name, k>>
    BY <2>1
  <2>3. CASE name = relative_path
    BY <2>2, <2>3, <1>5
  <2>4. CASE name # relative_path
    <3>1. name \in DOMAIN CopySizes /\ k \in 1..CopySizes[name]
      BY <2>4, <2>2, <1>4, <1>6
    <3>2. byte \in Bytes(CopySizes)
      BY <3>1, <2>2, BytesOf
    <3>3. QED
      BY <3>2, <2>2, <2>4 DEF Others
  <2>5. QED
    BY <2>3, <2>4
<1>8. ASSUME NEW byte \in Others PROVE byte \in Bytes(CopySizes')
  <2>1. byte \in Bytes(CopySizes) /\ byte[1] # relative_path
    BY <1>8 DEF Others
  <2>2. PICK name \in DOMAIN CopySizes : \E k \in 1..CopySizes[name] : byte = <<name, k>>
    BY <2>1, BytesOf
  <2>3. name # relative_path /\ name \in DOMAIN CopySizes'
    BY <2>1, <2>2, <1>4
  <2>4. \E k \in 1..CopySizes'[name] : byte = <<name, k>>
    BY <2>2, <2>3, <1>6
  <2>5. QED
    BY <2>3, <2>4, BytesOf
<1>9. ASSUME NEW byte \in {relative_path} \X (1..copy.size) PROVE byte \in Bytes(CopySizes')
  <2>1. PICK k \in 1..copy.size : byte = <<relative_path, k>>
    BY <1>9
  <2>2. relative_path \in DOMAIN CopySizes' /\ k \in 1..CopySizes'[relative_path]
    BY <1>4, <1>5
  <2>3. QED
    BY <2>1, <2>2, BytesOf
<1>10. QED
  BY <1>2, <1>4, <1>7, <1>8, <1>9

\* Nothing is copied.
LEMMA SameCopies ==
  ASSUME UNCHANGED verified_snapshot
  PROVE  /\ CopySizes' = CopySizes /\ CopiedBytes' = CopiedBytes
         /\ Bytes(CopySizes)' = Bytes(CopySizes)
BY DEF CopySizes, CopiedBytes, Total, Bytes

LEMMA NoBytes ==
  ASSUME verified_snapshot' \in {None, NoCopies}
  PROVE  /\ IsFiniteSet(DOMAIN CopySizes') /\ CopiedBytes' = 0
         /\ Counted' = {} /\ Cardinality(Counted') = 0
<1>1. CopySizes' = << >> /\ DOMAIN CopySizes' = {}
  BY DEF CopySizes, NoCopies
<1>2. Bytes(CopySizes)' = {}
  BY <1>1 DEF Bytes
<1>3. QED
  BY <1>1, <1>2, FS_EmptySet DEF Counted, CopiedBytes, Total

\* The copies stay, and what counts of them gets no more.
LEMMA CountStays ==
  ASSUME SnapshotType, Within, Succeeding' => Succeeding /\ Counted' \subseteq Counted,
         UNCHANGED <<verified_snapshot, total_snapshot_bytes>>,
         pc' \in {"compare", "accepted"} => CopiedBytes <= MaxBytes,
         total_snapshot_bytes \in Nat
  PROVE  Within'
<1>1. UNCHANGED <<CopySizes, CopiedBytes>>
  BY SameCopies
<1>2. Succeeding' => Cardinality(Counted') <= total_snapshot_bytes /\ total_snapshot_bytes <= MaxBytes
  <2>. SUFFICES ASSUME Succeeding' PROVE Cardinality(Counted') <= total_snapshot_bytes /\ total_snapshot_bytes <= MaxBytes
    OBVIOUS
  <2>1. Succeeding /\ Counted' \in SUBSET Counted /\ IsFiniteSet(Counted)
    BY SizesCounted
  <2>2. Cardinality(Counted') <= Cardinality(Counted) /\ Cardinality(Counted') \in Nat
    BY <2>1, FS_Subset, FS_CardinalityType
  <2>3. Cardinality(Counted) \in Nat /\ Cardinality(Counted) <= total_snapshot_bytes /\ total_snapshot_bytes <= MaxBytes
    BY <2>1, SizesCounted DEF Within
  <2>4. QED
    BY <2>2, <2>3, SnapshotVerifierAssumption
<1>3. QED
  BY <1>1, <1>2 DEF Within

LEMMA CopierWithin ==
  ASSUME CheckInv, Within, Copier
  PROVE  Within'
<1>0. /\ SnapshotType /\ LoopTypes /\ total_snapshot_bytes \in Nat /\ MaxBytes \in Nat
      /\ pc' = pc /\ copier # "none" /\ pc' \notin {"compare", "accepted"}
  <2>1. pc' = pc /\ copier # "none"
    BY DEF Copier, CopierNext, CopierOpens, CopierReads, CopierMeasures, CopierCompares,
       CopierAppends, CopierEnds, ListingCutShort, CopierFails, AtFile, run
  <2>2. SnapshotType /\ LoopTypes
    BY TypeParts DEF CheckInv
  <2>3. QED
    BY <2>1, <2>2, SnapshotVerifierAssumption DEF CheckInv, OneLoop, Removing, LoopTypes
<1>. USE DEF CopierGoto, CopierExit
<1>1. CASE /\ UNCHANGED <<verified_snapshot, total_snapshot_bytes>>
           /\ Succeeding' => Succeeding /\ Counted' \subseteq Counted
  BY <1>0, <1>1, CountStays
<1>2. CASE CopierNext
  <2>1. /\ copier = "next" /\ UNCHANGED <<verified_snapshot, total_snapshot_bytes>>
    BY <1>2 DEF CopierNext, copies
  <2>2. Succeeding /\ Counted' \subseteq Counted
    BY <2>1, SameCopies DEF Succeeding, Counted, Uncounted
  <2>3. QED
    BY <2>1, <2>2, <1>1
<1>3. CASE CopierCompares \/ CopierAppends \/ CopierEnds \/ ListingCutShort
  <2>1. /\ UNCHANGED <<verified_snapshot, total_snapshot_bytes>> /\ copier \in {"digest", "append", "next"}
    BY <1>3 DEF CopierCompares, CopierAppends, CopierEnds, ListingCutShort, copies
  <2>2. Succeeding /\ Counted' \subseteq Counted
    BY <2>1, SameCopies DEF Succeeding, Counted, Uncounted
  <2>3. QED
    BY <2>1, <2>2, <1>1
<1>4. CASE CopierFails
  <2>1. /\ UNCHANGED <<verified_snapshot, total_snapshot_bytes>> /\ ~Succeeding'
    BY <1>4, Codes DEF CopierFails, copies, Failures, Succeeding
  <2>2. QED
    BY <2>1, <1>1
<1>5. ASSUME NEW copy \in CopyTypes, PutCopy(copy), verified_snapshot # None,
             AtFile, Uncounted, Uncounted', copy.size <= Limit,
             UNCHANGED <<relative_path, total_snapshot_bytes>>
      PROVE  /\ IsFiniteSet(DOMAIN CopySizes') /\ CopiedBytes' <= MaxBytes + 1 /\ Counted' = Counted
  <2>1. /\ DOMAIN CopySizes' = DOMAIN CopySizes \cup {relative_path}
        /\ Bytes(CopySizes)' = Others \cup ({relative_path} \X (1..copy.size))
    BY <1>0, <1>5, PutCopyBytes DEF LoopTypes
  <2>2. Counted = Others /\ Counted' = Others
    BY <1>5, <2>1 DEF Counted, Others
  <2>3. IsFiniteSet(DOMAIN CopySizes')
    BY <2>1, FS_AddElement DEF Within
  <2>4. copy.size \in Nat
    BY <1>0, <1>5 DEF CopyTypes
  <2>5. /\ IsFiniteSet({relative_path} \X (1..copy.size))
        /\ Cardinality({relative_path} \X (1..copy.size)) = copy.size
    BY <2>4, OneFile
  <2>6. /\ IsFiniteSet(Others) /\ Cardinality(Others) \in Nat
        /\ Cardinality(Others) <= total_snapshot_bytes
    BY <1>0, <1>5, <2>2, SizesCounted DEF Within, Succeeding, Uncounted
  <2>7. Others \cap ({relative_path} \X (1..copy.size)) = {}
    BY DEF Others
  <2>8. CopiedBytes' = Cardinality(Others) + copy.size
    BY <2>1, <2>5, <2>6, <2>7, Disjoint DEF CopiedBytes, Total
  <2>9. copy.size + total_snapshot_bytes <= MaxBytes + 1
    BY <1>0, <1>5, <2>4, LimitBounds
  <2>10. QED
    BY <1>0, <2>2, <2>3, <2>4, <2>6, <2>8, <2>9
<1>6. CASE CopierOpens
  <2>1. CASE verified_snapshot = None
    <3>1. UNCHANGED <<verified_snapshot, total_snapshot_bytes>> /\ ~Succeeding'
      BY <1>6, <2>1, Codes DEF CopierOpens, Succeeding
    <3>2. QED
      BY <3>1, <1>1
  <2>2. CASE verified_snapshot # None
    <3>1. /\ PutCopy([content |-> Torn, size |-> 0]) /\ AtFile
          /\ UNCHANGED <<relative_path, total_snapshot_bytes>>
          /\ Uncounted /\ Uncounted' /\ Succeeding
      BY <1>6, <2>2 DEF CopierOpens, AtFile, Uncounted, Succeeding
    <3>2. 0 <= Limit
      BY <1>0, LimitBounds
    <3>3. QED
      BY <1>0, <1>5, <2>2, <3>1, <3>2, OpenedTyped DEF Within
  <2>3. QED
    BY <2>1, <2>2
<1>7. CASE CopierReads
  <2>1. CASE files[relative_path] = None
    <3>1. UNCHANGED <<verified_snapshot, total_snapshot_bytes>> /\ ~Succeeding'
      BY <1>7, <2>1, Codes DEF CopierReads, Succeeding
    <3>2. QED
      BY <3>1, <1>1
  <2>2. CASE files[relative_path] # None
    <3>1. /\ AtFile /\ Uncounted /\ Uncounted' /\ Succeeding
          /\ UNCHANGED <<relative_path, total_snapshot_bytes>>
      BY <1>7, <2>2 DEF CopierReads, AtFile, Uncounted, Succeeding
    <3>2. CASE UNCHANGED verified_snapshot
      <4>1. Counted' \subseteq Counted
        BY <3>1, <3>2, SameCopies DEF Counted
      <4>2. QED
        BY <3>1, <3>2, <4>1, <1>1
    <3>3. CASE CopyExists /\ \E copy \in ReadOutcomes : PutCopy(copy)
      <4>1. PICK copy \in ReadOutcomes : PutCopy(copy)
        BY <3>3
      <4>2. copy \in CopyTypes /\ copy.size <= Limit
        BY <2>2, <3>1, ReadTyped DEF CheckInv
      <4>3. QED
        BY <1>0, <1>5, <3>1, <3>3, <4>1, <4>2 DEF Within, CopyExists
    <3>4. QED
      BY <1>7, <2>2, <3>2, <3>3 DEF CopierReads
  <2>3. QED
    BY <2>1, <2>2
<1>8. CASE CopierMeasures
  <2>1. CASE ~CopyExists
    <3>1. UNCHANGED <<verified_snapshot, total_snapshot_bytes>> /\ ~Succeeding'
      BY <1>8, <2>1, Codes DEF CopierMeasures, Succeeding, copies
    <3>2. QED
      BY <3>1, <1>1
  <2>2. CASE CopyExists
    <3>. DEFINE size == verified_snapshot[relative_path].size
    <3>1. /\ UNCHANGED <<verified_snapshot, relative_path>>
          /\ total_snapshot_bytes' = total_snapshot_bytes + size
          /\ copier = "measure" /\ copier' \in {"digest", "done"}
          /\ Succeeding' => total_snapshot_bytes' <= MaxBytes
      <4>1. /\ UNCHANGED verified_snapshot /\ UNCHANGED relative_path /\ copier = "measure"
            /\ total_snapshot_bytes' = total_snapshot_bytes + size
            /\ IF total_snapshot_bytes + size > MaxBytes
                 THEN copier' = "done" /\ copier_status' = EXIT_SNAPSHOT
                 ELSE copier' = "digest"
        BY <1>8, <2>2 DEF CopierMeasures, copies
      <4>2. size \in Nat
        BY <1>0, <2>2 DEF CopyExists, SnapshotType, CopyTypes
      <4>. HIDE DEF size
      <4>3. QED
        BY <4>1, <4>2, <1>0, Codes DEF Succeeding
    <3>2. /\ relative_path \in DOMAIN CopySizes /\ CopySizes[relative_path] = size
          /\ size \in Nat
      BY <1>0, <2>2, SizesTyped DEF CopyExists
    <3>. HIDE DEF size
    <3>3. Bytes(CopySizes) \subseteq Others \cup ({relative_path} \X (1..size))
      <4>. SUFFICES ASSUME NEW byte \in Bytes(CopySizes), byte[1] = relative_path
                    PROVE  byte \in {relative_path} \X (1..size)
        BY DEF Others
      <4>1. PICK name \in DOMAIN CopySizes : \E k \in 1..CopySizes[name] : byte = <<name, k>>
        BY BytesOf
      <4>2. QED
        BY <4>1, <3>2
    <3>4. /\ IsFiniteSet(Others) /\ Cardinality(Others) \in Nat
          /\ Cardinality(Others) <= total_snapshot_bytes
      <4>1. Counted = Others
        BY <3>1 DEF Counted, Others, Uncounted
      <4>2. QED
        BY <1>0, <3>1, <4>1, SizesCounted DEF Within, Succeeding
    <3>5. /\ IsFiniteSet({relative_path} \X (1..size))
          /\ Cardinality({relative_path} \X (1..size)) = size
      BY <3>2, OneFile
    <3>6. Others \cap ({relative_path} \X (1..size)) = {}
      BY DEF Others
    <3>7. /\ IsFiniteSet(Others \cup ({relative_path} \X (1..size)))
          /\ Cardinality(Others \cup ({relative_path} \X (1..size))) = Cardinality(Others) + size
      BY <3>4, <3>5, <3>6, Disjoint
    <3>8. Counted' \subseteq Bytes(CopySizes)
      BY <3>1, SameCopies DEF Counted
    <3>9. Cardinality(Counted') <= Cardinality(Others) + size /\ Cardinality(Counted') \in Nat
      BY <3>3, <3>7, <3>8, FS_Subset, FS_CardinalityType
    <3>10. Cardinality(Counted') <= total_snapshot_bytes'
      BY <1>0, <3>1, <3>2, <3>4, <3>9
    <3>11. QED
      BY <1>0, <3>1, <3>10, SameCopies DEF Within
  <2>3. QED
    BY <2>1, <2>2
<1>9. QED
  BY <1>2, <1>3, <1>4, <1>6, <1>7, <1>8 DEF Copier

LEMMA WithinStep == CheckInv /\ Within /\ [Next]_vars => Within'
<1>. SUFFICES ASSUME CheckInv, Within, [Next]_vars PROVE Within'
  OBVIOUS
<1>0. SnapshotType /\ total_snapshot_bytes \in Nat /\ MaxBytes \in Nat
  BY TypeParts, SnapshotVerifierAssumption DEF CheckInv, LoopTypes
<1>1. ASSUME UNCHANGED <<verified_snapshot, copier, copier_status, relative_path, total_snapshot_bytes>>,
             pc' \in {"compare", "accepted"} => pc \in {"compare", "accepted"}
      PROVE  Within'
  <2>1. Succeeding' => Succeeding /\ Counted' \subseteq Counted
    BY <1>1, SameCopies DEF Succeeding, Counted, Uncounted
  <2>2. pc' \in {"compare", "accepted"} => CopiedBytes <= MaxBytes
    BY <1>1 DEF Within
  <2>3. QED
    BY <1>0, <1>1, <2>1, <2>2, CountStays
<1>2. CASE Start
  <2>1. copier' = "none" /\ verified_snapshot' = None /\ pc' = "inputs"
    BY <1>2 DEF Start, CheckInv, OneLoop, Removing, loop
  <2>2. QED
    BY <1>0, <2>1, NoBytes DEF Within, Succeeding
<1>3. CASE PrepareCopies
  <2>1. verified_snapshot' = NoCopies /\ total_snapshot_bytes' = 0 /\ pc' = "wait"
    BY <1>3 DEF PrepareCopies, Goto
  <2>2. QED
    BY <1>0, <2>1, NoBytes DEF Within
<1>4. CASE PipeEnds
  <2>1. /\ UNCHANGED <<verified_snapshot, total_snapshot_bytes>> /\ ~Succeeding' /\ copier = "done"
        /\ pc' = "compare" => copier_status = 0
        /\ pc' # "accepted"
    BY <1>4 DEF PipeEnds, copies, Succeeding, Goto, Reject
  <2>2. pc' = "compare" => CopiedBytes <= MaxBytes
    <3>1. Counted = Bytes(CopySizes)
      BY <2>1 DEF Counted, Uncounted
    <3>2. Cardinality(Counted) = CopiedBytes
      BY <3>1 DEF CopiedBytes, Total
    <3>3. QED
      BY <1>0, <2>1, <3>2, SizesCounted DEF Within, Succeeding
  <2>3. QED
    BY <1>0, <2>1, <2>2, CountStays
<1>5. CASE Verifier /\ ~PrepareCopies /\ ~PipeEnds
  BY <1>1, <1>5 DEF Verifier, validate_input_files, CopyManifest, verify_signature,
     ValidateFields, validate_manifest_times, CompareNames, CommandFails, Goto, Reject, copies, loop
<1>6. CASE FindDelete \/ RemoveDirectory
  <2>1. /\ UNCHANGED <<copier, copier_status, relative_path, total_snapshot_bytes>>
        /\ pc' \notin {"compare", "accepted"}
        /\ UNCHANGED verified_snapshot \/ verified_snapshot' \in {None, NoCopies}
    BY <1>6 DEF FindDelete, RemoveDirectory, Goto, loop
  <2>2. Succeeding' => Succeeding
    BY <2>1 DEF Succeeding
  <2>3. QED
    BY <1>0, <1>1, <2>1, <2>2, NoBytes DEF Within
<1>7. CASE Used \/ RemoveList \/ Terminated
  BY <1>1, <1>7 DEF Used, RemoveList, Terminated, Goto, Reject, copies, loop
<1>8. CASE ShellExits \/ Killed
  <2>1. UNCHANGED verified_snapshot /\ copier' = "none" /\ pc' = "gone"
    BY <1>8 DEF ShellExits, Killed, ContainerEnds, copies
  <2>2. QED
    BY <2>1, SameCopies DEF Within, Succeeding
<1>9. CASE Edit \/ UNCHANGED vars
  BY <1>1, <1>9 DEF Edit, vars, run, copies, loop
<1>10. QED
  BY <1>2, <1>3, <1>4, <1>5, <1>6, <1>7, <1>8, <1>9, CopierWithin DEF Next, Removal

(***************************************************************************)
(* The verdict on a directory that stays as it is.                         *)
(***************************************************************************)

\* What the copies take once the file that the loop is at has been measured.
LEMMA MeasuredBytes ==
  ASSUME CheckInv, Within, copier = "measure", CopyExists
  PROVE  /\ verified_snapshot[relative_path].size \in Nat
         /\ CopiedBytes = Cardinality(Counted) + verified_snapshot[relative_path].size
<1>. DEFINE size == verified_snapshot[relative_path].size
<1>0. SnapshotType /\ MaxBytes \in Nat
  BY TypeParts, SnapshotVerifierAssumption DEF CheckInv
<1>1. /\ relative_path \in DOMAIN CopySizes /\ CopySizes[relative_path] = size
      /\ size \in Nat
  BY <1>0, SizesTyped DEF CopyExists
<1>. HIDE DEF size
<1>2. ASSUME NEW byte
      PROVE  byte \in Bytes(CopySizes) <=> byte \in Others \cup ({relative_path} \X (1..size))
  <2>1. CASE byte \in Bytes(CopySizes) /\ byte[1] = relative_path
    <3>1. PICK name \in DOMAIN CopySizes : \E k \in 1..CopySizes[name] : byte = <<name, k>>
      BY <2>1, BytesOf
    <3>2. QED
      BY <2>1, <3>1, <1>1
  <2>2. CASE byte \in {relative_path} \X (1..size)
    <3>1. PICK k \in 1..size : byte = <<relative_path, k>>
      BY <2>2
    <3>2. k \in 1..CopySizes[relative_path]
      BY <1>1
    <3>3. QED
      BY <3>1, <3>2, <1>1, <2>2, BytesOf
  <2>3. CASE byte \notin {relative_path} \X (1..size) /\ ~(byte \in Bytes(CopySizes) /\ byte[1] = relative_path)
    BY <2>3 DEF Others
  <2>4. QED
    BY <2>1, <2>2, <2>3
<1>3. Bytes(CopySizes) = Others \cup ({relative_path} \X (1..size))
  BY <1>2
<1>4. Counted = Others
  BY DEF Counted, Others, Uncounted
<1>5. IsFiniteSet(Others)
  BY <1>0, <1>4, SizesCounted
<1>6. /\ IsFiniteSet({relative_path} \X (1..size))
      /\ Cardinality({relative_path} \X (1..size)) = size
  BY <1>1, OneFile
<1>7. Others \cap ({relative_path} \X (1..size)) = {}
  BY DEF Others
<1>8. CopiedBytes = Cardinality(Others) + size
  BY <1>3, <1>5, <1>6, <1>7, Disjoint DEF CopiedBytes, Total
<1>9. QED
  BY <1>1, <1>4, <1>8 DEF size

\* The verdict is a function of what the host has published.
LEMMA SameVerdict ==
  ASSUME UNCHANGED <<manifest, signature, files>>
  PROVE  AsPromised' = AsPromised
BY DEF AsPromised, Present, Total, Bytes

\* An acceptable directory has room for every part of its files.
LEMMA PartsFit ==
  ASSUME CheckInv, Within, AsPromised, verified_snapshot # None,
         \A name \in DOMAIN verified_snapshot :
           name \in Present /\ verified_snapshot[name].size <= Size[files[name]]
  PROVE  CopiedBytes <= MaxBytes
<1>. DEFINE sizes == [name \in Present |-> Size[files[name]]]
<1>0. SnapshotType /\ MaxBytes \in Nat /\ TypeOK /\ manifest \in Manifests
  BY TypeParts, SnapshotVerifierAssumption DEF CheckInv, AsPromised
<1>1. \A name \in Present : Size[files[name]] \in Nat
  BY <1>0, SnapshotVerifierAssumption DEF Present, TypeOK
<1>2. IsFiniteSet(Present)
  BY <1>0, SnapshotVerifierAssumption DEF AsPromised
<1>3. IsFiniteSet(Bytes(sizes)) /\ Total(sizes) \in Nat
  BY <1>1, <1>2, BytesFinite
<1>4. /\ DOMAIN CopySizes \subseteq DOMAIN sizes
      /\ \A name \in DOMAIN CopySizes :
           CopySizes[name] \in Nat /\ sizes[name] \in Nat /\ CopySizes[name] <= sizes[name]
  BY <1>0, <1>1, SizesTyped
<1>5. Bytes(CopySizes) \in SUBSET Bytes(sizes)
  BY <1>4, FewerBytes
<1>6. Cardinality(Bytes(CopySizes)) <= Cardinality(Bytes(sizes))
  BY <1>3, <1>5, FS_Subset
<1>7. Total(sizes) <= MaxBytes
  BY DEF AsPromised
<1>8. CopiedBytes \in Nat
  BY <1>0, SizesCounted
<1>9. QED
  BY <1>0, <1>3, <1>6, <1>7, <1>8 DEF CopiedBytes, Total

\* One step of the loop.
LEMMA CopierUndisturbed ==
  ASSUME CheckInv, Within, Undisturbed, Copier, pc = "wait", ~edited, ~failed, ~failed'
  PROVE  /\ (copier = "done" => copier_status = 0)' => AsFiles'
         /\ (copier = "done" /\ copier_status = EXIT_SNAPSHOT)' => ~AsPromised
<1>0. /\ SnapshotType /\ LoopTypes /\ TypeOK /\ total_snapshot_bytes \in Nat /\ MaxBytes \in Nat
      /\ UNCHANGED <<host, verified_manifest>> /\ copier \notin {"none", "done"}
  <2>1. UNCHANGED <<host, verified_manifest>> /\ copier \notin {"none", "done"}
    BY DEF Copier, CopierNext, CopierOpens, CopierReads, CopierMeasures, CopierCompares,
       CopierAppends, CopierEnds, ListingCutShort, CopierFails, AtFile
  <2>2. QED
    BY <2>1, TypeParts, SnapshotVerifierAssumption DEF CheckInv, LoopTypes
<1>1. /\ Looped /\ AsFiles /\ verified_manifest = manifest /\ signature = manifest
      /\ Succeeding /\ Cardinality(Counted) = total_snapshot_bytes
  <2>1. Looped /\ AsFiles /\ verified_manifest = manifest /\ signature = manifest /\ Succeeding
    BY <1>0 DEF CheckInv, Checked, Undisturbed, Succeeding
  <2>2. QED
    BY <1>0, <2>1, SizesCounted DEF AsFiles, Within
<1>2. UNCHANGED <<manifest, signature, files>> /\ Present' = Present
  BY <1>0 DEF host, Present
<1>. USE DEF CopierGoto, CopierExit
<1>3. CASE CopierNext
  <2>1. PICK name \in pending :
          /\ copier = "next" /\ UNCHANGED <<verified_snapshot, total_snapshot_bytes>>
          /\ relative_path' = name
          /\ \/ files[name] # None /\ copier' = "open"
             \/ files[name] = None /\ copier' = "done" /\ copier_status' = EXIT_SNAPSHOT
    BY <1>3 DEF CopierNext, copies
  <2>2. name \in Names /\ name \in Listed /\ name \notin DOMAIN verified_snapshot
    BY <1>0, <1>1, <2>1 DEF LoopTypes, Looped, AtFile, Reached
  <2>3. CASE files[name] # None
    <3>1. copier' = "open" /\ name \in Present'
      BY <2>1, <2>2, <2>3, <1>2 DEF Present
    <3>2. Counted' = Counted
      <4>1. \A byte \in Bytes(CopySizes) : byte[1] # name
        <5>. SUFFICES ASSUME NEW byte \in Bytes(CopySizes) PROVE byte[1] # name
          OBVIOUS
        <5>1. PICK other \in DOMAIN CopySizes : \E k \in 1..CopySizes[other] : byte = <<other, k>>
          BY BytesOf
        <5>2. other \in DOMAIN verified_snapshot
          BY <1>0, <1>1, SizesTyped DEF AsFiles
        <5>3. QED
          BY <5>1, <5>2, <2>2
      <4>2. QED
        BY <2>1, <3>1, <4>1, SameCopies DEF Counted, Uncounted
    <3>3. \A other \in DOMAIN verified_snapshot : Whole(other)'
      BY <1>1, <1>2, <2>1 DEF AsFiles, Uncounted, Whole
    <3>4. QED
      BY <1>1, <1>2, <2>1, <3>1, <3>2, <3>3 DEF AsFiles, AtFile
  <2>4. CASE files[name] = None
    <3>1. ~AsPromised
      BY <1>1, <2>2, <2>4 DEF AsPromised, Present, Listed
    <3>2. QED
      BY <2>1, <2>4, <3>1, Codes
  <2>5. QED
    BY <2>3, <2>4
<1>4. ASSUME NEW copy \in CopyTypes, PutCopy(copy), copier \in {"open", "read"},
             UNCHANGED <<relative_path, total_snapshot_bytes>>, copier' \in {"read", "measure"},
             copier' = "measure" =>
               \/ copy.content = files[relative_path] /\ copy.size = Size[files[relative_path]]
               \/ copy.size = Limit /\ Limit <= Size[files[relative_path]]
      PROVE  AsFiles'
  <2>1. relative_path \in Names /\ relative_path \in Present /\ verified_snapshot # None
    BY <1>0, <1>1, <1>4 DEF AsFiles, AtFile, LoopTypes
  <2>2. /\ verified_snapshot' # None
        /\ Bytes(CopySizes)' = Others \cup ({relative_path} \X (1..copy.size))
    BY <1>0, <1>4, <2>1, PutCopyBytes
  <2>3. Counted' = Counted
    BY <1>4, <2>2 DEF Counted, Uncounted, Others
  <2>4. /\ DOMAIN verified_snapshot' = DOMAIN verified_snapshot \cup {relative_path}
        /\ verified_snapshot'[relative_path] = copy
        /\ \A name \in DOMAIN verified_snapshot :
             name # relative_path => verified_snapshot'[name] = verified_snapshot[name]
    BY <1>4, PutCopyPuts
  <2>5. Limit' = Limit
    BY <1>4 DEF Limit
  <2>6. ASSUME NEW name \in DOMAIN verified_snapshot'
        PROVE  name \in Present' /\ (Whole(name)' \/ name = relative_path')
    <3>1. CASE name = relative_path
      BY <3>1, <1>2, <1>4, <2>1
    <3>2. CASE name # relative_path
      BY <3>2, <1>1, <1>2, <2>4 DEF AsFiles, Whole
    <3>3. QED
      BY <3>1, <3>2
  <2>7. copier' = "measure" =>
          \/ Whole(relative_path)'
          \/ /\ verified_snapshot'[relative_path].size = Limit'
             /\ Limit' <= Size[files'[relative_path]]
    BY <1>2, <1>4, <2>4, <2>5 DEF Whole
  <2>8. QED
    BY <1>1, <1>2, <1>4, <2>1, <2>2, <2>3, <2>6, <2>7 DEF AsFiles, AtFile, Uncounted
<1>5. CASE CopierOpens
  <2>1. /\ PutCopy([content |-> Torn, size |-> 0]) /\ copier = "open" /\ copier' = "read"
        /\ UNCHANGED <<relative_path, total_snapshot_bytes>>
    BY <1>1, <1>5 DEF CopierOpens, AsFiles
  <2>2. QED
    BY <1>4, <2>1, OpenedTyped
<1>6. CASE CopierReads
  <2>1. copier = "read" /\ files[relative_path] # None /\ CopyExists /\ AtFile
    BY <1>1, <1>6 DEF CopierReads, AsFiles, AtFile, Present, Looped, CopyExists
  <2>2. PICK copy \in ReadOutcomes : PutCopy(copy) /\ copier' = "measure"
                                     /\ UNCHANGED <<relative_path, total_snapshot_bytes>>
    BY <1>6, <2>1 DEF CopierReads
  <2>3. copy \in CopyTypes
    BY <1>0, <2>1, ReadTyped
  <2>4. \/ /\ copy = [content |-> files[relative_path], size |-> Size[files[relative_path]]]
        \/ copy = [content |-> Torn, size |-> Limit] /\ ~(Size[files[relative_path]] <= Limit)
    BY <2>2 DEF ReadOutcomes
  <2>5. files[relative_path] \in Contents /\ Size[files[relative_path]] \in Nat /\ Limit \in Nat
    BY <1>0, <2>1, LimitBounds, SnapshotVerifierAssumption DEF TypeOK
  <2>6. ~(Size[files[relative_path]] <= Limit) => Limit <= Size[files[relative_path]]
    BY <2>5
  <2>7. \/ copy.content = files[relative_path] /\ copy.size = Size[files[relative_path]]
        \/ copy.size = Limit /\ Limit <= Size[files[relative_path]]
    BY <2>4, <2>6
  <2>8. QED
    BY <1>4, <2>1, <2>2, <2>3, <2>7
<1>7. CASE CopierMeasures
  <2>. DEFINE size == verified_snapshot[relative_path].size
  <2>1. copier = "measure" /\ AtFile /\ CopyExists
    BY <1>1, <1>7 DEF CopierMeasures, AtFile, Looped, CopyExists, AsFiles
  <2>2. /\ total_snapshot_bytes' = total_snapshot_bytes + size
        /\ UNCHANGED <<verified_snapshot, relative_path>>
        /\ IF total_snapshot_bytes + size > MaxBytes
             THEN copier' = "done" /\ copier_status' = EXIT_SNAPSHOT
             ELSE copier' = "digest"
    BY <1>7, <2>1 DEF CopierMeasures, copies
  <2>3. size \in Nat /\ CopiedBytes = total_snapshot_bytes + size
    BY <1>1, <2>1, MeasuredBytes
  <2>. HIDE DEF size
  <2>4. CASE total_snapshot_bytes + size > MaxBytes
    <3>1. ASSUME NEW name \in DOMAIN verified_snapshot
          PROVE  name \in Present /\ verified_snapshot[name].size <= Size[files[name]]
      <4>1. name \in Present /\ (Whole(name) \/ name = relative_path)
        BY <1>1 DEF AsFiles
      <4>2. Size[files[name]] \in Int
        BY <1>0, <4>1, SnapshotVerifierAssumption DEF Present, TypeOK
      <4>3. CASE Whole(name)
        BY <4>1, <4>2, <4>3 DEF Whole
      <4>4. CASE name = relative_path /\ ~Whole(name)
        BY <1>1, <2>1, <4>1, <4>4 DEF AsFiles
      <4>5. QED
        BY <4>1, <4>3, <4>4
    <3>2. AsPromised => CopiedBytes <= MaxBytes
      BY <2>1, <3>1, PartsFit DEF CopyExists
    <3>3. ~AsPromised
      BY <1>0, <2>3, <2>4, <3>2
    <3>4. QED
      BY <2>2, <2>4, <3>3, Codes
  <2>5. CASE ~(total_snapshot_bytes + size > MaxBytes)
    <3>1. copier' = "digest"
      BY <2>2, <2>5
    <3>2. Whole(relative_path)
      <4>1. Limit = MaxBytes - total_snapshot_bytes + 1
        BY DEF Limit
      <4>2. size # Limit
        BY <1>0, <2>3, <2>5, <4>1
      <4>3. QED
        BY <1>1, <2>1, <4>2 DEF AsFiles, size
    <3>3. \A name \in DOMAIN verified_snapshot : name \in Present /\ Whole(name)
      BY <1>1, <3>2 DEF AsFiles
    <3>4. \A name \in DOMAIN verified_snapshot' : name \in Present' /\ Whole(name)'
      BY <1>2, <2>2, <3>3 DEF Whole
    <3>5. Counted' = Bytes(CopySizes)
      BY <2>2, <3>1, SameCopies DEF Counted, Uncounted
    <3>6. total_snapshot_bytes' = Cardinality(Counted')
      BY <2>2, <2>3, <3>5 DEF CopiedBytes, Total
    <3>7. total_snapshot_bytes' \in Int
      BY <1>0, <2>2, <2>3
    <3>8. relative_path' \in Present' /\ verified_snapshot' # None
      BY <1>1, <1>2, <2>1, <2>2 DEF AsFiles
    <3>9. QED
      BY <3>1, <3>4, <3>6, <3>7, <3>8 DEF AsFiles
  <2>6. QED
    BY <2>4, <2>5
<1>8. ASSUME UNCHANGED <<verified_snapshot, total_snapshot_bytes, relative_path>>,
             copier \in {"digest", "append", "next"}, copier' \in {"append", "next", "done"},
             AtFile' => AtFile, copier' = "done" => pending' = {}
      PROVE  AsFiles'
  <2>1. Counted' = Counted
    BY <1>8, SameCopies DEF Counted, Uncounted
  <2>2. \A name \in DOMAIN verified_snapshot' : name \in Present' /\ Whole(name)'
    BY <1>1, <1>2, <1>8 DEF AsFiles, Uncounted, Whole
  <2>3. QED
    BY <1>1, <1>2, <1>8, <2>1, <2>2 DEF AsFiles
<1>9. CASE CopierCompares
  <2>1. /\ copier = "digest" /\ AtFile /\ CopyExists /\ Whole(relative_path)
        /\ relative_path \in Present
    BY <1>1, <1>9 DEF CopierCompares, AtFile, Looped, CopyExists, AsFiles, Uncounted
  <2>2. UNCHANGED <<verified_snapshot, total_snapshot_bytes, relative_path>>
    BY <1>9 DEF CopierCompares, copies
  <2>3. CASE verified_snapshot[relative_path].content = Lists[verified_manifest][relative_path]
    <3>1. copier' = "append"
      BY <1>9, <2>1, <2>3 DEF CopierCompares
    <3>2. QED
      BY <1>8, <2>1, <2>2, <3>1
  <2>4. CASE verified_snapshot[relative_path].content # Lists[verified_manifest][relative_path]
    <3>1. copier' = "done" /\ copier_status' = EXIT_SNAPSHOT
      BY <1>9, <2>4 DEF CopierCompares
    <3>2. files[relative_path] # Lists[manifest][relative_path]
      BY <1>1, <2>1, <2>4 DEF Whole
    <3>3. ~AsPromised
      BY <2>1, <3>2 DEF AsPromised
    <3>4. QED
      BY <3>1, <3>3, Codes
  <2>5. QED
    BY <2>3, <2>4
<1>10. CASE CopierAppends
  <2>1. /\ copier = "append" /\ copier' = "next" /\ ~AtFile'
        /\ UNCHANGED <<verified_snapshot, total_snapshot_bytes, relative_path>>
    BY <1>10 DEF CopierAppends, AtFile
  <2>2. QED
    BY <1>8, <2>1
<1>11. CASE CopierEnds
  <2>1. /\ copier = "next" /\ copier' = "done" /\ copier_status' = 0 /\ ~AtFile' /\ pending' = {}
        /\ UNCHANGED <<verified_snapshot, total_snapshot_bytes, relative_path>>
    BY <1>11 DEF CopierEnds, AtFile, copies
  <2>2. QED
    BY <1>8, <2>1, Codes
<1>12. ~ListingCutShort /\ ~CopierFails
  BY DEF ListingCutShort, CopierFails
<1>13. QED
  BY <1>3, <1>5, <1>6, <1>7, <1>9, <1>10, <1>11, <1>12 DEF Copier

\* What was copied is what the directory holds: the verdict of the shell.
LEMMA AcceptedAsPromised ==
  ASSUME CheckInv, Within, Undisturbed, ~edited, ~failed, pc = "compare"
  PROVE  verified_files = Present <=> AsPromised
<1>1. /\ verified_manifest = manifest /\ signature = manifest
      /\ manifest \in Signed \cap WellFormed /\ copier = "none" /\ Looped /\ AsFiles
  BY DEF CheckInv, Checked, OneLoop, Removing, Undisturbed
<1>2. /\ verified_files = Listed /\ DOMAIN verified_snapshot = Listed
      /\ \A name \in Listed : verified_snapshot[name].content = Lists[manifest][name]
  BY <1>1 DEF Looped, AsFiles, AtFile, Reached
<1>3. ASSUME AsPromised PROVE verified_files = Present
  BY <1>1, <1>2, <1>3 DEF AsPromised, Listed
<1>4. ASSUME verified_files = Present PROVE AsPromised
  <2>1. \A name \in Present : Whole(name)
    BY <1>1, <1>2, <1>4 DEF AsFiles, Uncounted
  <2>2. CopySizes = [name \in Present |-> Size[files[name]]]
    BY <1>1, <1>2, <1>4, <2>1 DEF CopySizes, AsFiles, Whole
  <2>3. Total([name \in Present |-> Size[files[name]]]) <= MaxBytes
    BY <2>2 DEF Within, CopiedBytes
  <2>4. \A name \in Present : files[name] = Lists[manifest][name]
    BY <1>2, <1>4, <2>1 DEF Whole
  <2>5. QED
    BY <1>1, <1>2, <1>4, <2>3, <2>4 DEF AsPromised, Listed
<1>5. QED
  BY <1>3, <1>4

Verdict == Undisturbed /\ VerdictOfStillSnapshot

LEMMA VerdictStep == CheckInv /\ Within /\ Verdict /\ [Next]_vars => Verdict'
<1>. SUFFICES ASSUME CheckInv, Within, Undisturbed, VerdictOfStillSnapshot, [Next]_vars,
                     ~edited', ~failed'
              PROVE  Verdict'
  BY DEF Verdict, Undisturbed, VerdictOfStillSnapshot
<1>. USE Codes, TimesStay DEF Goto, Reject
<1>1. CASE Start
  BY <1>1 DEF Start, Verdict, Undisturbed, VerdictOfStillSnapshot, Removing
<1>2. CASE ~Start
  <2>0. /\ ~edited /\ ~failed
    BY <1>2 DEF Next, Verifier, Copier, Removal, validate_input_files, CopyManifest,
       verify_signature, ValidateFields, validate_manifest_times, PrepareCopies, PipeEnds, CompareNames,
       CommandFails, Terminated, Used, FindDelete, RemoveDirectory, RemoveList, ShellExits, Killed, ContainerEnds, Edit,
       CopierNext, CopierOpens, CopierReads, CopierMeasures, CopierCompares, CopierAppends,
       CopierEnds, ListingCutShort, CopierFails, host, run, vars
  <2>1. CASE validate_input_files
    BY <2>0, <2>1 DEF validate_input_files, Verdict, Undisturbed, VerdictOfStillSnapshot, Removing, Verifying,
       EXIT_INPUT, EXIT_SNAPSHOT, EXIT_EXPIRED
  <2>2. CASE CopyManifest
    BY <2>0, <2>2 DEF CopyManifest, Verdict, Undisturbed, VerdictOfStillSnapshot, Removing, Verifying,
       EXIT_INTERNAL, EXIT_SNAPSHOT, EXIT_EXPIRED, host
  <2>3. CASE verify_signature
    <3>1. temporary_manifest = manifest /\ UNCHANGED <<manifest, signature, files>> /\ pc = "signature"
      BY <2>0, <2>3 DEF verify_signature, Undisturbed, host
    <3>2. CASE temporary_manifest \in Signed /\ signature = temporary_manifest
      BY <2>0, <2>3, <3>1, <3>2 DEF verify_signature, Verdict, Undisturbed, VerdictOfStillSnapshot, Removing, Verifying
    <3>3. CASE ~(temporary_manifest \in Signed /\ signature = temporary_manifest)
      <4>1. ~AsPromised' /\ pc' = "find" /\ status' = EXIT_SNAPSHOT
        BY <2>3, <3>1, <3>3, SameVerdict DEF verify_signature, AsPromised, Reject
      <4>2. QED
        BY <4>1 DEF Verdict, Undisturbed, VerdictOfStillSnapshot, Verifying, EXIT_SNAPSHOT, EXIT_EXPIRED
    <3>4. QED
      BY <3>2, <3>3
  <2>4. CASE ValidateFields \/ validate_manifest_times
    <3>1. /\ verified_manifest = manifest /\ signature = manifest /\ status = 0
          /\ UNCHANGED <<manifest, signature, files, verified_manifest>>
      BY <2>0, <2>4 DEF ValidateFields, validate_manifest_times, Undisturbed, Verifying, host
    <3>2. CASE pc' # "find"
      <4>1. pc' \in {"times", "mkdir"} /\ status' = status
        BY <2>4, <3>2 DEF ValidateFields, validate_manifest_times
      <4>2. QED
        BY <3>1, <4>1 DEF Verdict, Undisturbed, VerdictOfStillSnapshot, Removing
    <3>3. CASE pc' = "find"
      <4>1. /\ status' = EXIT_SNAPSHOT => ~AsPromised' \/ TooEarly(manifest)'
            /\ status' = EXIT_EXPIRED =>
                 manifest \in Signed \cap WellFormed /\ signature = manifest /\ Expired(manifest)'
        <5>1. CASE ValidateFields
          <6>1. manifest \notin WellFormed /\ status' = EXIT_SNAPSHOT
            BY <3>1, <3>3, <5>1 DEF ValidateFields
          <6>2. QED
            BY <3>1, <6>1 DEF AsPromised
        <5>2. CASE validate_manifest_times
          <6>1. manifest \in Signed \cap WellFormed
            BY <3>1, <5>2 DEF CheckInv, Checked, validate_manifest_times
          <6>2. PICK time \in Times :
                  /\ current_epoch' = time
                  /\ \/ Ahead(manifest, time) /\ status' = EXIT_SNAPSHOT
                     \/ /\ ~Ahead(manifest, time) /\ Late(manifest, time)
                        /\ status' = EXIT_EXPIRED
            BY <3>1, <3>3, <5>2 DEF validate_manifest_times
          <6>3. time # None
            BY SnapshotVerifierAssumption
          <6>4. /\ status' = EXIT_SNAPSHOT => Ahead(manifest, time)
                /\ status' = EXIT_EXPIRED => ~Ahead(manifest, time) /\ Late(manifest, time)
            BY <6>2
          <6>5. QED
            BY <3>1, <6>1, <6>2, <6>3, <6>4 DEF TooEarly, Expired
        <5>3. QED
          BY <2>4, <5>1, <5>2
      <4>2. QED
        BY <3>1, <3>3, <4>1 DEF Verdict, Undisturbed, VerdictOfStillSnapshot, Verifying
    <3>4. QED
      BY <3>2, <3>3
  <2>5. CASE PrepareCopies
    <3>1. /\ UNCHANGED <<manifest, signature, files, verified_manifest, status>>
          /\ verified_snapshot' = NoCopies /\ copier' = "next" /\ total_snapshot_bytes' = 0
          /\ pc = "mkdir" /\ pc' = "wait"
      BY <2>5 DEF PrepareCopies, host
    <3>2. NoCopies # None /\ DOMAIN NoCopies = {}
      <4>1. NoCopies \in [{} -> CopyTypes]
        BY DEF NoCopies
      <4>2. QED
        BY <4>1, NoDirectoryAssumption DEF NoCopies
    <3>3. AsFiles'
      BY <3>1, <3>2, NoBytes DEF AsFiles, AtFile
    <3>4. QED
      BY <2>0, <3>1, <3>3 DEF Verdict, Undisturbed, VerdictOfStillSnapshot, Removing, Verifying
  <2>6. CASE PipeEnds
    <3>1. /\ UNCHANGED <<manifest, signature, files, verified_manifest, verified_snapshot, relative_path, pending, total_snapshot_bytes>>
          /\ pc = "wait" /\ copier = "done" /\ copier' = "none"
      BY <2>6 DEF PipeEnds, host, copies
    <3>2. CASE copier_status = 0
      <4>1. AsFiles /\ pc' = "compare" /\ UNCHANGED status
        BY <2>0, <2>6, <3>1, <3>2 DEF Undisturbed, PipeEnds
      <4>2. Counted' = Counted /\ Present' = Present
        BY <3>1, SameCopies DEF Counted, Uncounted, Present
      <4>3. AsFiles'
        BY <3>1, <4>1, <4>2 DEF AsFiles, AtFile, Uncounted, Whole
      <4>4. QED
        BY <2>0, <3>1, <4>1, <4>3 DEF Verdict, Undisturbed, VerdictOfStillSnapshot, Removing, Verifying
    <3>3. CASE copier_status # 0
      <4>1. pc' = "find" /\ status' = copier_status /\ (copier_status = EXIT_SNAPSHOT => ~AsPromised)
        BY <2>0, <2>6, <3>1, <3>3 DEF Undisturbed, PipeEnds
      <4>2. copier_status # EXIT_EXPIRED
        BY <3>3 DEF CheckInv, TypeOK, Failures, EXIT_SNAPSHOT, EXIT_INTERNAL, EXIT_EXPIRED
      <4>3. QED
        BY <3>1, <4>1, <4>2, SameVerdict DEF Verdict, Undisturbed, VerdictOfStillSnapshot, Verifying
    <3>4. QED
      BY <3>2, <3>3
  <2>7. CASE CompareNames
    <3>1. /\ UNCHANGED <<manifest, signature, files, verified_manifest, verified_snapshot, loop>>
          /\ pc = "compare"
      BY <2>7 DEF CompareNames, host, copies
    <3>2. AsPromised' <=> verified_files = Present
      <4>1. verified_files = Present <=> AsPromised
        BY <2>0, <3>1, AcceptedAsPromised
      <4>2. QED
        BY <3>1, <4>1, SameVerdict
    <3>3. CASE verified_files = Present
      <4>1. pc' = "accepted" /\ UNCHANGED status
        BY <2>7, <3>3 DEF CompareNames
      <4>2. AsFiles /\ verified_manifest = manifest /\ signature = manifest /\ status = 0
            /\ copier = "none"
        BY <2>0, <3>1 DEF Undisturbed, CheckInv, OneLoop, Removing, Verifying
      <4>3. Timely(manifest) /\ UNCHANGED current_epoch
        BY <2>7, <3>1, <3>3, <4>2 DEF CheckInv, Checked, CompareNames
      <4>4. Timely(manifest)'
        BY <3>1, <4>3, TimesStay
      <4>5. Counted' = Counted /\ Present' = Present
        BY <3>1, SameCopies DEF Counted, Uncounted, Present, loop
      <4>6. AsFiles'
        BY <3>1, <4>2, <4>5 DEF AsFiles, AtFile, Uncounted, Whole, loop
      <4>7. QED
        BY <3>1, <3>2, <3>3, <4>1, <4>2, <4>6, <4>4 DEF Verdict, Undisturbed, VerdictOfStillSnapshot, Removing, Verifying
    <3>4. CASE verified_files # Present
      BY <2>7, <3>2, <3>4 DEF CompareNames, Verdict, Undisturbed, VerdictOfStillSnapshot, Verifying
    <3>5. QED
      BY <3>3, <3>4
  <2>8. CASE Copier
    <3>1. /\ UNCHANGED <<pc, status, current_epoch, manifest, signature, files, verified_manifest>>
          /\ copier # "none"
      BY <2>8 DEF Copier, CopierNext, CopierOpens, CopierReads, CopierMeasures, CopierCompares,
         CopierAppends, CopierEnds, ListingCutShort, CopierFails, AtFile, run, host
    <3>2. pc \in Removing \cup {"wait"}
      BY <3>1 DEF CheckInv, OneLoop
    <3>3. CASE pc = "wait"
      BY <2>0, <2>8, <3>1, <3>3, CopierUndisturbed, SameVerdict
      DEF Verdict, Undisturbed, VerdictOfStillSnapshot, Removing, Verifying
    <3>4. CASE pc \in Removing
      <4>1. /\ status = EXIT_SNAPSHOT => ~AsPromised \/ TooEarly(manifest)
            /\ status = EXIT_EXPIRED =>
                 manifest \in Signed \cap WellFormed /\ signature = manifest /\ Expired(manifest)
        BY <2>0, <3>4 DEF Undisturbed, VerdictOfStillSnapshot
      <4>2. QED
        BY <3>1, <3>4, <4>1, SameVerdict DEF Verdict, Undisturbed, VerdictOfStillSnapshot, Removing, Verifying
    <3>5. QED
      BY <3>2, <3>3, <3>4
  <2>9. CASE Terminated
    BY <2>9 DEF Terminated, Verdict, Undisturbed, VerdictOfStillSnapshot, Verifying, EXIT_SNAPSHOT
  <2>10. CASE Used \/ FindDelete \/ RemoveDirectory \/ RemoveList
    <3>1. /\ UNCHANGED <<manifest, signature, files, status, current_epoch>> /\ pc' \in Removing
          /\ pc \in Removing \cup {"accepted"}
      BY <2>10 DEF Used, FindDelete, RemoveDirectory, RemoveList, Removing, host
    <3>2. /\ status = EXIT_SNAPSHOT => ~AsPromised \/ TooEarly(manifest)
          /\ status = EXIT_EXPIRED =>
               manifest \in Signed \cap WellFormed /\ signature = manifest /\ Expired(manifest)
      BY <2>0, <3>1 DEF Undisturbed, VerdictOfStillSnapshot, Verifying
    <3>3. QED
      BY <3>1, <3>2, SameVerdict DEF Verdict, Undisturbed, VerdictOfStillSnapshot, Removing, Verifying
  <2>11. CASE ShellExits \/ Killed
    BY <2>11 DEF ShellExits, Killed, ContainerEnds, Verdict, Undisturbed, VerdictOfStillSnapshot, Removing, Verifying
  <2>12. CASE UNCHANGED vars
    <3>1. UNCHANGED <<manifest, signature, files, pc, status, current_epoch, verified_manifest, verified_snapshot, temporary_manifest>>
          /\ UNCHANGED <<copier, copier_status, relative_path, pending, total_snapshot_bytes>>
      BY <2>12 DEF vars, host, run, copies, loop
    <3>2. AsFiles' = AsFiles
      BY <3>1, SameCopies DEF AsFiles, AtFile, Uncounted, Whole, Counted, Present, Limit
    <3>3. QED
      BY <2>0, <3>1, <3>2, SameVerdict DEF Verdict, Undisturbed, VerdictOfStillSnapshot
  <2>13. ~CommandFails /\ ~Edit
    BY DEF CommandFails, Edit
  <2>14. QED
    BY <1>2, <2>1, <2>2, <2>3, <2>4, <2>5, <2>6, <2>7, <2>8, <2>9, <2>10, <2>11, <2>12, <2>13
    DEF Next, Verifier, Removal
<1>3. QED
  BY <1>1, <1>2

(***************************************************************************)
(* The theorems.                                                           *)
(***************************************************************************)

LEMMA InitInv == Init => CheckInv
<1>. SUFFICES ASSUME Init PROVE CheckInv
  OBVIOUS
<1>1. InputTypes /\ RunTypes /\ SnapshotType /\ FilesType
  BY Codes DEF Init, InputTypes, RunTypes, SnapshotType, FilesType
<1>2. LoopTypes
  <2>1. 0 \in 0..MaxBytes + 1
    BY SnapshotVerifierAssumption
  <2>2. QED
    BY <2>1 DEF Init, LoopTypes, AtFile
<1>3. OneLoop /\ Checked /\ Measured
  BY DEF Init, OneLoop, Checked, Measured
<1>4. QED
  BY <1>1, <1>2, <1>3, TypeParts DEF CheckInv

LEMMA InitWithin == Init => Within
<1>. SUFFICES ASSUME Init PROVE Within
  OBVIOUS
<1>1. CopySizes = NoCopies /\ DOMAIN CopySizes = {}
  BY DEF Init, CopySizes, NoCopies
<1>2. Bytes(CopySizes) = {}
  BY <1>1 DEF Bytes
<1>3. CopiedBytes = 0 /\ IsFiniteSet(DOMAIN CopySizes)
  BY <1>1, <1>2, FS_EmptySet DEF CopiedBytes, Total
<1>4. pc = "gone" /\ copier = "none"
  BY DEF Init
<1>5. QED
  BY <1>3, <1>4, SnapshotVerifierAssumption DEF Within, Succeeding

LEMMA InitVerdict == Init => Verdict
BY DEF Init, Verdict, Undisturbed, VerdictOfStillSnapshot, Verifying, Removing

\* At every command of the shell and of its loop, the manifest and the copies
\* are what the checks made so far have established, the copies are within the
\* budget, and in a run that nobody disturbs they are what the directory holds.
THEOREM Invariance == Spec => []Inv
<1>1. TypeOK /\ UNCHANGED vars => TypeOK'
  BY TypeParts, SameTypes, NextTypes DEF vars, copies
<1>2. CheckInv /\ [Next]_vars => TypeOK'
  BY <1>1, ShellTyped, CopierTyped, EditTyped DEF CheckInv, Next
<1>3. CheckInv /\ [Next]_vars => CheckInv'
  BY <1>2, OneLoopStep, CheckedStep, MeasuredStep DEF CheckInv
<1>4. Inv <=> CheckInv /\ Within /\ Verdict
  BY DEF Inv, Verdict
<1>5. Inv' <=> CheckInv' /\ Within' /\ Verdict'
  BY DEF Inv, Verdict
<1>6. Init => Inv
  BY <1>4, InitInv, InitWithin, InitVerdict
<1>7. Inv /\ [Next]_vars => Inv'
  BY <1>3, <1>4, <1>5, WithinStep, VerdictStep
<1>8. QED
  BY <1>6, <1>7, PTL DEF Spec

\* An accepted manifest is signed, valid and read at a time for which it was made,
\* and the private copies are files it lists with the digests it gives, whatever the
\* host edits meanwhile.
THEOREM SignedBeforeAccepted == Spec => []AcceptedIsSigned
<1>1. CheckInv => AcceptedIsSigned
  BY DEF CheckInv, OneLoop, Removing, Checked, Looped, AtFile, Reached, Listed, AcceptedIsSigned
<1>2. QED
  BY <1>1, Invariance, PTL DEF Inv

\* The private copies never take more than the budget and one byte, and those
\* of an accepted snapshot are within it, however many files a manifest lists
\* and however the host makes them grow.
THEOREM CopiesWithinBudget == Spec => []CopiesBounded
<1>1. Inv => CopiesBounded
  BY DEF Inv, Within, CopiesBounded
<1>2. QED
  BY <1>1, Invariance, PTL

\* When the host leaves the directory alone and no tool fails, a snapshot is
\* accepted only if the directory is what its manifest promises, at a time for which
\* it was made; refused with status 65 only if it is not, or if the manifest is too far
\* ahead of the clock; and refused with 78 only if a genuine manifest has expired.
THEOREM VerdictSound == Spec => []VerdictOfStillSnapshot
<1>1. Inv => VerdictOfStillSnapshot
  BY DEF Inv
<1>2. QED
  BY <1>1, Invariance, PTL
=============================================================================
