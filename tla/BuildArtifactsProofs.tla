------------------------- MODULE BuildArtifactsProofs -------------------------
(* Proofs about BuildArtifacts: the invariant of the artifacts, which implies *)
(* that a run that is not cut short leaves nothing behind; and about          *)
(* Preflight, that neither does any number of preflights, and that each of up *)
(* to three imports only what it was given itself.                            *)
EXTENDS Preflight, FiniteSetTheorems, TLAPS

\* The two phases make files of different kinds.
LEMMA KindsApart ==
  /\ Artifacts = {"root-password", "config", "directory", "group-memberships",
                  "user-memberships", "normalized-memberships"}
  /\ Lists \cap Artifacts = {}
  /\ \A i \in 1..6 : RemovalOrder[i] \in Artifacts
<1>1. /\ RemovalOrder[1] = "root-password"     /\ RemovalOrder[2] = "config"
      /\ RemovalOrder[3] = "directory"         /\ RemovalOrder[4] = "group-memberships"
      /\ RemovalOrder[5] = "user-memberships"  /\ RemovalOrder[6] = "normalized-memberships"
  BY DEF RemovalOrder
<1>2. 1..6 = {1, 2, 3, 4, 5, 6}
  OBVIOUS
<1>3. Artifacts = {"root-password", "config", "directory", "group-memberships",
                   "user-memberships", "normalized-memberships"}
  BY <1>1, <1>2 DEF Artifacts
<1>4. QED
  BY <1>1, <1>2, <1>3 DEF Lists

LEMMA InitInv == Init => Inv
  BY DEF Init, Inv, TypeOK, Verifying, Building, CleanUnlessCut,
         Left, Artifacts

\* One step of the verification.
LEMMA VerifyStep == Inv /\ (Start \/ Verify) => Inv'
<1>. SUFFICES ASSUME Inv, Start \/ Verify PROVE Inv'
  OBVIOUS
<1>. USE KindsApart DEF Inv, TypeOK, Verifying, Building, CleanUnlessCut, Left, Lists, setup, Goto, Create, Unlink, Cut
<1>1. CASE Start
  BY <1>1 DEF Start, FixedNames
<1>2. CASE prepare_verification_keys
  BY <1>2 DEF prepare_verification_keys
<1>3. CASE verify_signature
  <2>1. CASE Create("verified-manifest", "manifest", "signature")
    BY <2>1
  <2>2. CASE Unlink("verified-manifest", "signature", "names")
    BY <2>2
  <2>3. CASE Unlink("verified-manifest", "signature", "gone")
    BY <2>3
  <2>4. QED
    BY <1>3, <2>1, <2>2, <2>3 DEF verify_signature
<1>4. CASE validate_manifest_files
  <2>1. CASE Create("manifest-files", "names", "listing")
    BY <2>1
  <2>2. CASE Create("actual-files", "listing", "compare")
    BY <2>2
  <2>3. CASE Unlink("manifest-files", "listing", "gone")
    BY <2>3
  <2>4. CASE Unlink("manifest-files", "compare", "unlist")
    BY <2>4
  <2>5. CASE Unlink("actual-files", "unlist", "unlisted")
    BY <2>5
  <2>6. QED
    BY <1>4, <2>1, <2>2, <2>3, <2>4, <2>5 DEF validate_manifest_files
<1>5. CASE VerifyRefuses
  BY <1>5 DEF VerifyRefuses
<1>6. CASE VerifyLeaves
  <2>1. CASE pc = "signature" /\ Cut("failed", "gone")
    BY <2>1
  <2>2. CASE pc = "compare" /\ Cut("failed", "unlist")
    BY <2>2
  <2>3. CASE pc = "unlist" /\ Cut("failed", "unlisted")
    BY <2>3
  <2>4. QED
    BY <1>6, <2>1, <2>2, <2>3 DEF VerifyLeaves
<1>7. QED
  BY <1>1, <1>3, <1>4, <1>5, <1>6, <1>2 DEF Verify

\* One step of the build.
LEMMA BuildStep == Inv /\ Build => Inv'
<1>. SUFFICES ASSUME Inv, Build PROVE Inv'
  OBVIOUS
<1>. USE KindsApart DEF Inv, TypeOK, Verifying, Building, CleanUnlessCut, Left, Lists, setup, Goto, Create, Unlink
<1>1. CASE Enter
  BY <1>1 DEF Enter
<1>2. CASE prepare_root_password
  BY <1>2 DEF prepare_root_password
<1>3. CASE hash_root_password
  BY <1>3 DEF hash_root_password
<1>4. CASE WriteConfiguration
  BY <1>4 DEF WriteConfiguration
<1>5. CASE import_directory_data
  BY <1>5 DEF import_directory_data
<1>6. CASE verify_built_database
  BY <1>6 DEF verify_built_database
<1>7. CASE remove_build_artifacts
  BY <1>7 DEF remove_build_artifacts, RemoveNext
<1>8. QED
  BY <1>1, <1>2, <1>3, <1>4, <1>5, <1>6, <1>7 DEF Build

\* One step of an end of the run.
LEMMA LeaveStep == Inv /\ (Leave \/ Terminated \/ Killed) => Inv'
<1>. SUFFICES ASSUME Inv, Leave \/ Terminated \/ Killed PROVE Inv'
  OBVIOUS
<1>. USE KindsApart DEF Inv, TypeOK, Verifying, Building, CleanUnlessCut, Left, Lists, setup, Goto, Cut
<1>1. CASE ExitBuild
  BY <1>1 DEF ExitBuild
<1>2. CASE cleanup_initialization
  BY <1>2 DEF cleanup_initialization, RemoveNext
<1>3. CASE UnlinkFails
  BY <1>3 DEF UnlinkFails
<1>4. CASE ServiceEnds
  BY <1>4 DEF ServiceEnds
<1>5. CASE Terminated
  BY <1>5 DEF Terminated
<1>6. CASE Killed
  BY <1>6 DEF Killed
<1>7. QED
  BY <1>1, <1>2, <1>3, <1>4, <1>5, <1>6 DEF Leave

\* The artifacts that exist are those the current command accounts for.
THEOREM ArtifactsInv == Spec => []Inv
<1>1. Inv /\ UNCHANGED vars => Inv'
  BY DEF vars, Inv, TypeOK, CleanUnlessCut, Left
<1>2. Inv /\ [Next]_vars => Inv'
  BY <1>1, VerifyStep, BuildStep, LeaveStep DEF Next
<1>3. QED
  BY <1>2, InitInv, PTL DEF Spec

\* A run that nobody cuts short leaves no file of its own in the volume.
THEOREM UncutRunsAreClean == Spec => []CleanUnlessCut
<1>1. Inv => CleanUnlessCut
  BY DEF Inv
<1>2. QED
  BY <1>1, ArtifactsInv, PTL

-----------------------------------------------------------------------------
shared == <<vars, preflight_vars>>

LEMMA PreflightInitInv == PreflightInit => PreflightInv
  BY DEF PreflightInit, PreflightInv, PreflightTypeOK, Tidy, Own, Working, Cleaning, Inputs

\* A step of one preflight, seen by the others: what is theirs is only deleted.
LEMMA OthersStayTidy ==
  ASSUME PreflightInv, NEW p \in Preflights, NEW q \in Preflights, q # p,
         at'[q] = at[q], claimed'[q] = claimed[q], todo'[q] = todo[q], spoilt'[q] = spoilt[q],
         Own(q)' \subseteq Own(q)
  PROVE  Tidy(q)'
  BY DEF PreflightInv, Tidy, Workspace

\* The steps that leave todo alone and change the flags of one preflight only.
LEMMA TidyAll ==
  ASSUME PreflightInv, PreflightTypeOK', NEW p \in Preflights,
         \A q \in Preflights : q # p =>
           /\ at'[q] = at[q] /\ claimed'[q] = claimed[q] /\ todo'[q] = todo[q]
           /\ spoilt'[q] = spoilt[q] /\ Own(q)' \subseteq Own(q),
         Tidy(p)'
  PROVE  PreflightInv'
  BY OthersStayTidy DEF PreflightInv

\* The beginning: nothing of its own, then the workspace.
LEMMA BeginStep ==
  ASSUME PreflightInv, NEW p \in Preflights, MakeWorkspace(p) \/ SetTraps(p)
  PROVE  PreflightInv'
<1>. USE DEF Goes, To
<1>1. CASE MakeWorkspace(p)
  <2>1. CASE at' = [at EXCEPT ![p] = "gone"]
    <3>1. PreflightTypeOK' /\ Tidy(p)'
      BY <1>1, <2>1 DEF MakeWorkspace, PreflightInv, PreflightTypeOK, Tidy, Own, Inputs,
                        Working, Cleaning
    <3>2. QED
      BY <1>1, <2>1, <3>1, TidyAll DEF MakeWorkspace, PreflightInv, PreflightTypeOK, Own
  <2>2. CASE at' # [at EXCEPT ![p] = "gone"]
    <3>1. /\ at[p] = "start" /\ at' = [at EXCEPT ![p] = "untrapped"]
          /\ root' = root \cup {Workspace(p)}
          /\ UNCHANGED <<custom, claimed, todo, spoilt, inside>>
      BY <1>1, <2>2 DEF MakeWorkspace
    <3>2. Own(p)' \subseteq {Workspace(p)}
      BY <3>1 DEF PreflightInv, Tidy, Own
    <3>3. PreflightTypeOK' /\ Tidy(p)'
      BY <3>1, <3>2 DEF PreflightInv, PreflightTypeOK, Tidy, Files, Workspace, Inputs
    <3>4. \A q \in Preflights : q # p => Own(q)' \subseteq Own(q)
      BY <3>1 DEF Own, Workspace
    <3>5. QED
      BY <3>1, <3>3, <3>4, TidyAll DEF PreflightInv, PreflightTypeOK
  <2>3. QED
    BY <2>1, <2>2
<1>2. CASE SetTraps(p)
  <2>1. PreflightTypeOK' /\ Tidy(p)'
    BY <1>2 DEF SetTraps, PreflightInv, PreflightTypeOK, Tidy, Own, Inputs, Working, Cleaning
  <2>2. QED
    BY <1>2, <2>1, TidyAll DEF SetTraps, PreflightInv, PreflightTypeOK, Own
<1>3. QED
  BY <1>1, <1>2

\* The steps that leave the directory alone.
LEMMA WorkStep ==
  ASSUME PreflightInv, NEW p \in Preflights,
         ValidateRevision(p) \/ FindOthers(p) \/ Claim(p) \/ CheckExpiry(p)
           \/ Trapped(p) \/ Struck(p) \/ EmptyWorkspace(p)
  PROVE  PreflightInv'
<1>. USE DEF Goes, To, Spoil
<1>. SUFFICES PreflightTypeOK' /\ Tidy(p)' /\ root' = root
              /\ \A q \in Preflights : q # p =>
                   /\ at'[q] = at[q] /\ claimed'[q] = claimed[q] /\ todo'[q] = todo[q]
                   /\ spoilt'[q] = spoilt[q]
  BY TidyAll DEF Own
<1>. USE DEF PreflightInv, PreflightTypeOK, Tidy, Own, Inputs, Items, Working, Cleaning
<1>1. CASE ValidateRevision(p)
  BY <1>1 DEF ValidateRevision
<1>2. CASE FindOthers(p)
  BY <1>2 DEF FindOthers
<1>3. CASE Claim(p)
  BY <1>3 DEF Claim
<1>4. CASE CheckExpiry(p)
  BY <1>4 DEF CheckExpiry
<1>5. CASE Trapped(p)
  BY <1>5 DEF Trapped
<1>6. CASE Struck(p)
  BY <1>6 DEF Struck
<1>7. CASE EmptyWorkspace(p)
  <2>1. CASE at[p] = "empty" /\ Spoil(p)
    BY <2>1
  <2>2. CASE Goes(p, "empty", "rmdir") /\ inside' = [inside EXCEPT ![p] = {}] /\ UNCHANGED root
    BY <2>2
  <2>3. QED
    BY <1>7, <2>1, <2>2 DEF EmptyWorkspace
<1>8. QED
  BY <1>1, <1>2, <1>3, <1>4, <1>5, <1>6, <1>7

\* Who has claimed nothing may make its workspace again and put its input there.
LEMMA PlacedStep ==
  ASSUME PreflightInv, NEW p \in Preflights, NEW from \in {"verify", "files", "init"},
         NEW to \in {"files", "revision", "expiry", "cleanup"}, NEW items \in SUBSET Inputs,
         ~claimed[p], Goes(p, from, to), Place(p, items) \/ UNCHANGED <<root, inside>>
  PROVE  PreflightInv'
<1>. USE DEF Goes, To, Place
<1>1. Workspace(p) \in Files
  BY DEF Workspace, Files
<1>2. PreflightTypeOK'
  <2>1. to \in Working \cup Cleaning
    BY DEF Working, Cleaning
  <2>2. at' \in [Preflights -> {"start", "untrapped", "gone"} \cup Working \cup Cleaning]
    BY <2>1 DEF PreflightInv, PreflightTypeOK
  <2>3. inside' \in [Preflights -> SUBSET Inputs]
    BY DEF PreflightInv, PreflightTypeOK
  <2>4. QED
    BY <1>1, <2>2, <2>3 DEF PreflightInv, PreflightTypeOK
<1>3. Tidy(p)'
  <2>1. Own(p)' \subseteq {Workspace(p)}
    BY DEF PreflightInv, Tidy, Own
  <2>2. at'[p] = to /\ ~claimed'[p]
    BY DEF PreflightInv, PreflightTypeOK
  <2>3. QED
    BY <2>1, <2>2 DEF Tidy, Inputs
<1>4. \A q \in Preflights : q # p => Own(q)' \subseteq Own(q)
  BY DEF Own, Workspace
<1>5. QED
  BY <1>2, <1>3, <1>4, TidyAll DEF PreflightInv, PreflightTypeOK

LEMMA VerifySnapshotStep ==
  ASSUME PreflightInv, NEW p \in Preflights, VerifySnapshot(p)
  PROVE  PreflightInv'
<1>1. ~claimed[p]
  BY DEF VerifySnapshot, VerifyHalf, Goes, PreflightInv, Tidy
<1>2. {"verified-manifest.json"} \in SUBSET Inputs /\ {"verified-files", "verified-snapshot"} \in SUBSET Inputs
  BY DEF Inputs
<1>3. CASE VerifyHalf(p, "verify", "files", {"verified-manifest.json"})
  BY <1>1, <1>2, <1>3, PlacedStep DEF VerifyHalf
<1>4. CASE VerifyHalf(p, "files", "revision", {"verified-files", "verified-snapshot"})
  BY <1>1, <1>2, <1>4, PlacedStep DEF VerifyHalf
<1>5. QED
  BY <1>3, <1>4 DEF VerifySnapshot

\* The steps of who has claimed the directory, or builds in its workspace.
LEMMA MoveStep ==
  ASSUME PreflightInv, NEW p \in Preflights, NEW input \in Inputs, NEW to \in Working,
         to \in Inputs \cup {"init"}, Move(p, input, to)
  PROVE  PreflightInv'
<1>. USE DEF Goes, To
<1>1. CASE UNCHANGED <<root, inside>>
  <2>. USE <1>1 DEF Move, PreflightInv, PreflightTypeOK, Tidy, Own, Inputs, Items, Working, Cleaning
  <2>1. PreflightTypeOK' /\ Tidy(p)'
    BY SMTT(30)
  <2>2. QED
    BY <2>1, TidyAll
<1>2. CASE ~UNCHANGED <<root, inside>>
  <2>1. /\ at[p] = input /\ at' = [at EXCEPT ![p] = to] /\ root' = root \cup {<<p, input>>}
        /\ inside' = [inside EXCEPT ![p] = @ \ {input}]
        /\ UNCHANGED <<custom, claimed, todo, spoilt>>
    BY <1>2 DEF Move
  <2>2. claimed[p]
    BY <2>1 DEF PreflightInv, Tidy
  <2>3. PreflightTypeOK'
    BY <2>1 DEF PreflightInv, PreflightTypeOK, Files, Items
  <2>4. Tidy(p)'
    BY <2>1, <2>2 DEF PreflightInv, PreflightTypeOK, Tidy, Inputs
  <2>5. \A q \in Preflights : q # p => Own(q)' \subseteq Own(q)
    BY <2>1 DEF Own
  <2>6. QED
    BY <2>1, <2>3, <2>4, <2>5, TidyAll DEF PreflightInv, PreflightTypeOK
<1>3. QED
  BY <1>1, <1>2

LEMMA InitSlapdStep ==
  ASSUME PreflightInv, NEW p \in Preflights, InitSlapd(p)
  PROVE  PreflightInv'
<1>1. PICK to \in {"expiry", "cleanup"} : Goes(p, "init", to)
  BY DEF InitSlapd
<1>2. CASE ~claimed[p]
  BY <1>2, PlacedStep DEF InitSlapd
<1>3. CASE claimed[p]
  <2>1. root' \in {root, root \cup {<<p, "database">>}} /\ inside' = inside
    BY <1>3 DEF InitSlapd
  <2>. USE DEF Goes, To
  <2>2. PreflightTypeOK'
    <3>1. <<p, "database">> \in Files
      BY DEF Files, Items
    <3>2. to \in Working \cup Cleaning
      BY DEF Working, Cleaning
    <3>3. at' \in [Preflights -> {"start", "untrapped", "gone"} \cup Working \cup Cleaning]
      BY <1>1, <3>2 DEF PreflightInv, PreflightTypeOK
    <3>4. root' \subseteq Files
      BY <2>1, <3>1 DEF PreflightInv, PreflightTypeOK
    <3>5. QED
      BY <1>1, <2>1, <3>3, <3>4 DEF PreflightInv, PreflightTypeOK
  <2>3. Tidy(p)'
    BY <1>1, <1>3, <2>1 DEF PreflightInv, PreflightTypeOK, Tidy, Own, Inputs
  <2>4. \A q \in Preflights : q # p => Own(q)' \subseteq Own(q)
    BY <2>1 DEF Own
  <2>5. QED
    BY <1>1, <2>2, <2>3, <2>4, TidyAll DEF PreflightInv, PreflightTypeOK
<1>4. QED
  BY <1>2, <1>3

\* The cleanup: the listing has all that is its own, and each round deletes of it.
LEMMA CleanupStep ==
  ASSUME PreflightInv, NEW p \in Preflights,
         BeginCleanup(p) \/ Sweep(p) \/ RemoveWorkspace(p)
  PROVE  PreflightInv'
<1>. USE DEF Goes, To, Spoil
<1>1. CASE BeginCleanup(p)
  <2>1. PreflightTypeOK'
    BY <1>1 DEF BeginCleanup, PreflightInv, PreflightTypeOK, Cleaning
  <2>2. Tidy(p)'
    BY <1>1 DEF BeginCleanup, PreflightInv, PreflightTypeOK, Tidy, Own, Inputs, Workspace
  <2>3. QED
    BY <1>1, <2>1, <2>2, TidyAll DEF BeginCleanup, PreflightInv, PreflightTypeOK, Own
<1>2. CASE Sweep(p)
  <2>1. CASE /\ at[p] = "sweep" /\ todo[p] = {} /\ To(p, "gone")
             /\ UNCHANGED <<custom, claimed, root, inside, todo, spoilt>>
    <3>1. PreflightTypeOK' /\ Tidy(p)'
      BY <2>1 DEF PreflightInv, PreflightTypeOK, Tidy, Own, Inputs
    <3>2. QED
      BY <2>1, <3>1, TidyAll DEF PreflightInv, PreflightTypeOK, Own
  <2>2. CASE \E q \in Preflights : EmptyOther(p, q)
    <3>1. UNCHANGED <<at, custom, claimed, root, todo, spoilt>>
      BY <1>2, <2>2 DEF Sweep, EmptyOther
    <3>2. PreflightTypeOK'
      BY <2>2, <3>1 DEF EmptyOther, PreflightInv, PreflightTypeOK
    <3>3. QED
      BY <3>1, <3>2 DEF PreflightInv, Tidy, Own
  <2>3. CASE /\ ~(todo[p] = {} /\ To(p, "gone") /\ UNCHANGED <<root, inside, todo, spoilt>>)
             /\ ~\E q \in Preflights : EmptyOther(p, q)
    <3>1. PICK file \in todo[p] :
            /\ todo' = [todo EXCEPT ![p] = @ \ {file}] /\ UNCHANGED at
            /\ \/ /\ root' = root \ {file} /\ UNCHANGED spoilt
                  /\ inside' = [q \in Preflights |-> IF file = Workspace(q) THEN {} ELSE inside[q]]
               \/ spoilt' = [spoilt EXCEPT ![p] = TRUE] /\ UNCHANGED <<root, inside>>
      BY <1>2, <2>3 DEF Sweep
    <3>2. at[p] = "sweep" /\ UNCHANGED <<custom, claimed>>
      BY <1>2 DEF Sweep
    <3>3. PreflightTypeOK'
      BY <3>1, <3>2 DEF PreflightInv, PreflightTypeOK
    <3>4. Tidy(p)'
      BY <3>1, <3>2 DEF PreflightInv, PreflightTypeOK, Tidy, Own, Inputs
    <3>5. \A q \in Preflights : q # p => Own(q)' \subseteq Own(q)
      BY <3>1 DEF Own
    <3>6. QED
      BY <3>1, <3>2, <3>3, <3>4, <3>5, TidyAll DEF PreflightInv, PreflightTypeOK
  <2>4. QED
    BY <1>2, <2>1, <2>3, <2>2 DEF Sweep
<1>3. CASE RemoveWorkspace(p)
  <2>1. PreflightTypeOK'
    BY <1>3 DEF RemoveWorkspace, PreflightInv, PreflightTypeOK
  <2>2. Tidy(p)'
    BY <1>3 DEF RemoveWorkspace, PreflightInv, PreflightTypeOK, Tidy, Own, Inputs
  <2>3. QED
    BY <1>3, <2>1, <2>2, TidyAll DEF RemoveWorkspace, PreflightInv, PreflightTypeOK, Own
<1>4. QED
  BY <1>1, <1>2, <1>3

LEMMA PreflightNextInv == PreflightInv /\ [SharedNext]_shared => PreflightInv'
<1>. SUFFICES ASSUME PreflightInv, [SharedNext]_shared PROVE PreflightInv'
  OBVIOUS
<1>1. CASE ServiceStep \/ UNCHANGED shared
  BY <1>1 DEF ServiceStep, shared, preflight_vars, PreflightInv, PreflightTypeOK, Tidy, Own
<1>2. ASSUME NEW p \in Preflights, PreflightStep(p) PROVE PreflightInv'
  <2>1. CASE MoveInputs(p)
    BY <2>1, MoveStep DEF MoveInputs, Inputs, Working
  <2>2. QED
    BY <1>2, <2>1, BeginStep, VerifySnapshotStep, WorkStep, InitSlapdStep, CleanupStep DEF PreflightStep
<1>3. QED
  BY <1>1, <1>2 DEF SharedNext

\* A preflight whose own cleanup is not cut short leaves nothing of its own in
\* the runtime directory, for any number of preflights beside any service.
THEOREM PreflightsLeaveNothing == SharedSpec => []PreflightLeavesNothing
<1>1. PreflightInv => PreflightLeavesNothing
  BY DEF PreflightInv, Tidy, Own, PreflightLeavesNothing
<1>2. SharedSpec => []PreflightInv
  BY PreflightInitInv, PreflightNextInv, PTL DEF SharedSpec, SharedInit, shared
<1>3. QED
  BY <1>1, <1>2, PTL

-----------------------------------------------------------------------------
(* Up to three preflights import their own input only.                       *)

\* A step of one preflight, seen by another one.
LEMMA SeenByOthers ==
  ASSUME PreflightInv, NEW p \in Preflights, PreflightStep(p), NEW q \in Preflights, q # p
  PROVE  at'[q] = at[q] /\ claimed'[q] = claimed[q] /\ todo'[q] = todo[q]
<1>. USE DEF Goes, To, Spoil, PreflightInv, PreflightTypeOK
<1>1. CASE MakeWorkspace(p) \/ SetTraps(p) \/ VerifySnapshot(p) \/ ValidateRevision(p)
  BY <1>1 DEF MakeWorkspace, SetTraps, VerifySnapshot, VerifyHalf, Place, ValidateRevision
<1>2. CASE FindOthers(p) \/ Claim(p) \/ MoveInputs(p) \/ InitSlapd(p) \/ CheckExpiry(p) \/ Trapped(p)
  BY <1>2 DEF FindOthers, Claim, MoveInputs, Move, InitSlapd, Place, CheckExpiry, Trapped
<1>3. CASE BeginCleanup(p) \/ EmptyWorkspace(p) \/ RemoveWorkspace(p) \/ Struck(p)
  BY <1>3 DEF BeginCleanup, EmptyWorkspace, RemoveWorkspace, Struck
<1>4. CASE Sweep(p)
  BY <1>4 DEF Sweep, EmptyOther
<1>5. QED
  BY <1>1, <1>2, <1>3, <1>4 DEF PreflightStep

\* What a step can put into the directory.
LEMMA Added ==
  ASSUME PreflightInv, NEW p \in Preflights, PreflightStep(p), NEW file \in root', file \notin root
  PROVE  /\ root' = root \cup {file}
         /\ \/ file = Workspace(p) /\ ~Found(p)'
            \/ claimed[p] /\ at[p] \in Inputs /\ at[p] \in inside[p] /\ file = <<p, at[p]>>
            \/ /\ claimed[p] /\ at[p] = "init" /\ file = <<p, "database">>
               /\ at'[p] = "cleanup" \/ \A input \in Inputs : <<p, input>> \in root
<1>. USE DEF Goes, To, Spoil, PreflightInv, PreflightTypeOK
<1>1. CASE MakeWorkspace(p)
  <2>1. file = Workspace(p) /\ root' = root \cup {Workspace(p)} /\ at'[p] = "untrapped" /\ ~claimed'[p]
    BY <1>1 DEF MakeWorkspace, Tidy
  <2>2. QED
    BY <2>1 DEF Found
<1>2. CASE MoveInputs(p)
  <2>1. PICK input \in Inputs : at[p] = input /\ input \in inside[p] /\ root' = root \cup {<<p, input>>}
    BY <1>2 DEF MoveInputs, Move, Inputs
  <2>2. claimed[p]
    BY <2>1 DEF Tidy
  <2>3. QED
    BY <2>1, <2>2
<1>3. CASE InitSlapd(p)
  <2>1. CASE claimed[p]
    BY <1>3, <2>1 DEF InitSlapd
  <2>2. CASE ~claimed[p]
    <3>1. /\ file = Workspace(p) /\ root' = root \cup {Workspace(p)} /\ ~claimed'[p]
          /\ at'[p] \in {"expiry", "cleanup"}
      BY <1>3, <2>2 DEF InitSlapd, Place
    <3>2. QED
      BY <3>1 DEF Found
  <2>3. QED
    BY <2>1, <2>2
<1>4. CASE VerifySnapshot(p)
  <2>1. /\ file = Workspace(p) /\ root' = root \cup {Workspace(p)} /\ ~claimed'[p]
        /\ at'[p] \in {"files", "revision", "cleanup"}
    BY <1>4 DEF VerifySnapshot, VerifyHalf, Place, Tidy
  <2>2. QED
    BY <2>1 DEF Found
<1>5. CASE SetTraps(p) \/ ValidateRevision(p) \/ FindOthers(p) \/ Claim(p)
  BY <1>5 DEF SetTraps, ValidateRevision, FindOthers, Claim
<1>6. CASE CheckExpiry(p) \/ Trapped(p) \/ BeginCleanup(p) \/ EmptyWorkspace(p) \/ Struck(p)
  BY <1>6 DEF CheckExpiry, Trapped, BeginCleanup, EmptyWorkspace, Struck
<1>7. CASE Sweep(p) \/ RemoveWorkspace(p)
  BY <1>7 DEF Sweep, EmptyOther, RemoveWorkspace
<1>8. QED
  BY <1>1, <1>2, <1>3, <1>5, <1>6, <1>7, <1>4 DEF PreflightStep

\* What a step can delete.
LEMMA Removed ==
  ASSUME PreflightInv, NEW p \in Preflights, PreflightStep(p), NEW file \in root, file \notin root'
  PROVE  \/ at[p] = "sweep" /\ claimed[p] /\ claimed'[p] /\ at'[p] = "sweep" /\ file \in todo[p]
         \/ at[p] = "rmdir" /\ at'[p] = "gone" /\ file = Workspace(p)
<1>. USE DEF Goes, To, Spoil, PreflightInv, PreflightTypeOK
<1>1. CASE MakeWorkspace(p) \/ MoveInputs(p) \/ InitSlapd(p)
  BY <1>1 DEF MakeWorkspace, MoveInputs, Move, InitSlapd, Place
<1>2. CASE SetTraps(p) \/ VerifySnapshot(p) \/ ValidateRevision(p) \/ FindOthers(p) \/ Claim(p)
  BY <1>2 DEF SetTraps, VerifySnapshot, VerifyHalf, Place, ValidateRevision, FindOthers, Claim
<1>3. CASE CheckExpiry(p) \/ Trapped(p) \/ BeginCleanup(p) \/ EmptyWorkspace(p) \/ Struck(p)
  BY <1>3 DEF CheckExpiry, Trapped, BeginCleanup, EmptyWorkspace, Struck
<1>4. CASE Sweep(p)
  BY <1>4 DEF Sweep, EmptyOther, Tidy
<1>5. CASE RemoveWorkspace(p)
  BY <1>5 DEF RemoveWorkspace
<1>6. QED
  BY <1>1, <1>2, <1>3, <1>4, <1>5 DEF PreflightStep

\* How a preflight comes to a claim, keeps it and lists what it is going to delete.
LEMMA Progress ==
  ASSUME PreflightInv, NEW p \in Preflights, PreflightStep(p)
  PROVE  /\ custom' = custom /\ (claimed[p] => claimed'[p])
         /\ claimed'[p] => claimed[p] \/ (at[p] = "claim" /\ at'[p] = "verified-manifest.json")
         /\ Done(p) => Done(p)'
         /\ Found(p)' => \/ Found(p)
                         \/ /\ at[p] = "check" /\ at'[p] = "claim" /\ ~claimed'[p]
                            /\ root \subseteq {Workspace(p)} /\ root' = root /\ ~ServicePresent
         /\ Using(p)' /\ Found(p) => Using(p)
         /\ \/ todo'[p] \subseteq todo[p] /\ (at'[p] = "sweep" => at[p] = "sweep")
            \/ at[p] = "cleanup" /\ claimed[p] /\ at'[p] = "sweep" /\ todo'[p] = root /\ root' = root
<1>. USE DEF Goes, To, Spoil, PreflightInv, PreflightTypeOK, Found, Using, Done, Tidy, Working, Cleaning, Inputs
<1>1. CASE MakeWorkspace(p) \/ SetTraps(p) \/ VerifySnapshot(p) \/ ValidateRevision(p)
  BY <1>1 DEF MakeWorkspace, SetTraps, VerifySnapshot, VerifyHalf, Place, ValidateRevision
<1>2. CASE FindOthers(p)
  BY <1>2 DEF FindOthers
<1>3. CASE Claim(p)
  BY <1>3 DEF Claim
<1>4. CASE MoveInputs(p)
  BY <1>4 DEF MoveInputs, Move
<1>5. CASE InitSlapd(p)
  BY <1>5 DEF InitSlapd, Place
<1>6. CASE CheckExpiry(p) \/ Trapped(p) \/ Struck(p)
  BY <1>6 DEF CheckExpiry, Trapped, Struck
<1>7. CASE BeginCleanup(p)
  BY <1>7 DEF BeginCleanup
<1>8. CASE EmptyWorkspace(p) \/ RemoveWorkspace(p)
  BY <1>8 DEF EmptyWorkspace, RemoveWorkspace
<1>9. CASE Sweep(p)
  BY <1>9 DEF Sweep, EmptyOther
<1>10. QED
  BY <1>1, <1>2, <1>3, <1>4, <1>5, <1>6, <1>7, <1>8, <1>9 DEF PreflightStep

\* What is moved is there afterwards.
LEMMA MovedGrows ==
  ASSUME PreflightInv, NEW p \in Preflights, PreflightStep(p), claimed'[p], Using(p)',
         NEW input \in Moved(p)'
  PROVE  input \in Inputs /\ (<<p, input>> \in root' \/ (claimed[p] /\ Using(p) /\ input \in Moved(p)))
<1>. USE DEF Goes, To, Spoil, PreflightInv, PreflightTypeOK, Found, Using, Moved, Tidy, Working,
             Cleaning, Inputs
<1>1. CASE MakeWorkspace(p) \/ SetTraps(p) \/ VerifySnapshot(p) \/ ValidateRevision(p) \/ FindOthers(p)
  BY <1>1 DEF MakeWorkspace, SetTraps, VerifySnapshot, VerifyHalf, Place, ValidateRevision, FindOthers
<1>2. CASE Claim(p)
  BY <1>2 DEF Claim
<1>3. CASE MoveInputs(p)
  BY <1>3 DEF MoveInputs, Move
<1>4. CASE InitSlapd(p)
  BY <1>4 DEF InitSlapd, Place
<1>5. CASE CheckExpiry(p) \/ Trapped(p) \/ Struck(p) \/ BeginCleanup(p)
  BY <1>5 DEF CheckExpiry, Trapped, Struck, BeginCleanup
<1>6. CASE EmptyWorkspace(p) \/ RemoveWorkspace(p)
  BY <1>6 DEF EmptyWorkspace, RemoveWorkspace
<1>7. CASE Sweep(p)
  BY <1>7 DEF Sweep, EmptyOther
<1>8. QED
  BY <1>1, <1>2, <1>3, <1>4, <1>5, <1>6, <1>7 DEF PreflightStep

Bound == {"untrapped", "cleanup"} \cup Working

\* A run begins with its workspace.
LEMMA BeginsSupplied ==
  ASSUME PreflightInv, NEW p \in Preflights, PreflightStep(p), at'[p] \in Bound, at[p] \notin Bound
  PROVE  Workspace(p) \in root'
<1>. USE DEF Goes, To, Spoil, PreflightInv, PreflightTypeOK, Working, Inputs, Bound
<1>1. CASE MakeWorkspace(p)
  BY <1>1 DEF MakeWorkspace
<1>2. CASE SetTraps(p) \/ VerifySnapshot(p) \/ ValidateRevision(p) \/ FindOthers(p) \/ Claim(p)
  BY <1>2 DEF SetTraps, VerifySnapshot, VerifyHalf, Place, ValidateRevision, FindOthers, Claim
<1>3. CASE MoveInputs(p) \/ InitSlapd(p) \/ CheckExpiry(p) \/ Trapped(p) \/ Struck(p)
  BY <1>3 DEF MoveInputs, Move, InitSlapd, Place, CheckExpiry, Trapped, Struck
<1>4. CASE BeginCleanup(p) \/ EmptyWorkspace(p) \/ RemoveWorkspace(p) \/ Sweep(p)
  BY <1>4 DEF BeginCleanup, EmptyWorkspace, RemoveWorkspace, Sweep, EmptyOther
<1>5. QED
  BY <1>1, <1>2, <1>3, <1>4 DEF PreflightStep

\* What a workspace holds.
LEMMA InsideStep ==
  ASSUME PreflightInv, NEW p \in Preflights, PreflightStep(p), NEW q \in Preflights,
         \A r \in Preflights : inside[r] # {} => Workspace(r) \in root,
         at[q] = "rmdir" => inside[q] = {}
  PROVE  /\ inside'[q] # {} => Workspace(q) \in root'
         /\ at'[q] = "rmdir" => inside'[q] = {}
<1>. USE DEF Goes, To, Spoil, PreflightInv, PreflightTypeOK, Inputs, Items, Workspace
<1>1. CASE MakeWorkspace(p) \/ SetTraps(p) \/ ValidateRevision(p) \/ FindOthers(p) \/ Claim(p)
  BY <1>1 DEF MakeWorkspace, SetTraps, ValidateRevision, FindOthers, Claim
<1>2. CASE VerifySnapshot(p)
  BY <1>2 DEF VerifySnapshot, VerifyHalf, Place
<1>3. CASE MoveInputs(p)
  BY <1>3 DEF MoveInputs, Move
<1>4. CASE InitSlapd(p)
  BY <1>4 DEF InitSlapd, Place
<1>5. CASE CheckExpiry(p) \/ Trapped(p) \/ Struck(p) \/ BeginCleanup(p)
  BY <1>5 DEF CheckExpiry, Trapped, Struck, BeginCleanup
<1>6. CASE EmptyWorkspace(p) \/ RemoveWorkspace(p)
  BY <1>6 DEF EmptyWorkspace, RemoveWorkspace
<1>7. CASE Sweep(p)
  BY <1>7 DEF Sweep, EmptyOther
<1>8. QED
  BY <1>1, <1>2, <1>3, <1>4, <1>5, <1>6, <1>7 DEF PreflightStep

\* Who has deleted is done, and stays so.
LEMMA DoneStays ==
  ASSUME PreflightInv, NEW p \in Preflights, PreflightStep(p), NEW q \in Preflights, Done(q)
  PROVE  Done(q)'
<1>1. CASE q = p
  BY <1>1, Progress
<1>2. CASE q # p
  BY <1>2, SeenByOthers DEF Done
<1>3. QED
  BY <1>1, <1>2

LEMMA SuppliedStep ==
  ASSUME PreflightInv, ImportInv, NEW p \in Preflights, PreflightStep(p), NEW q \in Preflights
  PROVE  Supplied(q)'
<1>1. /\ inside'[q] # {} => Workspace(q) \in root'
      /\ at'[q] = "rmdir" => inside'[q] = {}
  BY InsideStep DEF ImportInv, Supplied
<1>2. ASSUME at'[q] \in Bound, Workspace(q) \notin root'
      PROVE  \E s \in Preflights \ {q} : Done(s)'
  <2>1. CASE Workspace(q) \in root
    <3>1. at[p] = "sweep" /\ at'[p] = "sweep" /\ claimed'[p]
      BY <2>1, <1>2, Removed DEF Workspace, Bound, Working, Inputs
    <3>2. p # q
      BY <3>1, <1>2 DEF Bound, Working, Inputs
    <3>3. QED
      BY <3>1, <3>2 DEF Done
  <2>2. CASE Workspace(q) \notin root
    <3>1. at[q] \in Bound
      BY <1>2, BeginsSupplied, SeenByOthers
    <3>2. PICK s \in Preflights \ {q} : Done(s)
      BY <2>2, <3>1 DEF ImportInv, Supplied, Bound
    <3>3. QED
      BY <3>2, DoneStays
  <2>3. QED
    BY <2>1, <2>2
<1>3. QED
  BY <1>1, <1>2 DEF Supplied, Bound, Workspace, Done

\* Three are all there are.
LEMMA ThreeAreAll ==
  ASSUME AtMostThree, NEW p \in Preflights, NEW q \in Preflights, NEW r \in Preflights,
         p # q, p # r, q # r, NEW s \in Preflights
  PROVE  s \in {p, q, r}
<1>. SUFFICES ASSUME s \notin {p, q, r} PROVE FALSE
  OBVIOUS
<1>. DEFINE two == {p} \cup {q}
            three == two \cup {r}
<1>1. IsFiniteSet({p}) /\ Cardinality({p}) = 1
  BY FS_Singleton
<1>2. IsFiniteSet(two) /\ Cardinality(two) = 2
  BY <1>1, FS_AddElement
<1>3. r \notin two /\ s \notin three /\ three \cup {s} \subseteq Preflights
  OBVIOUS
<1>. HIDE DEF two
<1>4. IsFiniteSet(three) /\ Cardinality(three) = 3
  BY <1>2, <1>3, FS_AddElement
<1>. HIDE DEF three
<1>5. IsFiniteSet(three \cup {s}) /\ Cardinality(three \cup {s}) = 4
  BY <1>3, <1>4, FS_AddElement
<1>6. Cardinality(three \cup {s}) <= Cardinality(Preflights) /\ Cardinality(Preflights) \in Nat
  BY <1>3, FS_Subset, FS_CardinalityType DEF AtMostThree
<1>7. QED
  BY <1>5, <1>6 DEF AtMostThree

LEMMA OthersDoneStays ==
  ASSUME PreflightInv, NEW p \in Preflights, PreflightStep(p), NEW q \in Preflights, OthersDone(q)
  PROVE  OthersDone(q)'
<1>1. ASSUME NEW r \in Preflights \ {q} PROVE Done(r)'
  BY DoneStays DEF OthersDone
<1>2. QED
  BY <1>1 DEF OthersDone

\* Whoever uses the directory after the step did so before, or has just looked.
LEMMA UsedBefore ==
  ASSUME PreflightInv, NEW p \in Preflights, PreflightStep(p), NEW q \in Preflights, Using(q)'
  PROVE  \/ Using(q)
         \/ /\ at'[q] = "claim" /\ ~claimed'[q] /\ root \subseteq {Workspace(q)} /\ root' = root
            /\ ~ServicePresent
<1>1. CASE q = p
  BY <1>1, Progress DEF Using
<1>2. CASE q # p
  BY <1>2, SeenByOthers DEF Using, Found
<1>3. QED
  BY <1>1, <1>2

\* Who has found the directory free does not make its workspace again.
LEMMA NoNewWorkspace ==
  ASSUME PreflightInv, NEW p \in Preflights, PreflightStep(p), NEW q \in Preflights, Found(q)',
         Workspace(q) \in root'
  PROVE  Workspace(q) \in root
<1>. SUFFICES ASSUME Workspace(q) \notin root PROVE FALSE
  OBVIOUS
<1>1. p = q /\ ~Found(p)'
  BY Added DEF Workspace, Inputs
<1>2. QED
  BY <1>1

LEMMA OwnSeesNone ==
  ASSUME PreflightInv, ImportInv, NEW p \in Preflights, PreflightStep(p),
         NEW q \in Preflights, NEW r \in Preflights, q # r,
         Using(q)', Found(r)', Own(q)' # {}
  PROVE  Workspace(r) \notin root'
<1>. SUFFICES ASSUME Workspace(r) \in root' PROVE FALSE
  OBVIOUS
<1>1. Workspace(r) \in root
  BY NoNewWorkspace
<1>2. PICK file \in root' : file[1] = q
  BY DEF Own
<1>3. Using(q)
  BY <1>1, UsedBefore DEF Workspace
<1>4. Found(r)
  <2>1. CASE r = p
    BY <2>1, <1>2, Progress DEF Workspace
  <2>2. CASE r # p
    BY <2>2, SeenByOthers DEF Found
  <2>3. QED
    BY <2>1, <2>2
<1>5. Own(q) = {}
  BY <1>1, <1>3, <1>4 DEF ImportInv, Apart
<1>6. file \notin root /\ q = p
  <2>1. file \notin root
    BY <1>2, <1>5 DEF Own
  <2>2. file[1] = p
    BY <2>1, Added DEF Workspace
  <2>3. QED
    BY <2>1, <2>2, <1>2
<1>7. Found(p)'
  BY <1>6 DEF Using
<1>8. at'[p] # "cleanup"
  BY <1>6 DEF Using
<1>9. Workspace(q) \in root \/ \A input \in Inputs : <<q, input>> \in root
  BY <1>6, <1>7, <1>8, Added DEF ImportInv, Supplied
<1>10. QED
  BY <1>5, <1>9 DEF Own, Workspace, Inputs

LEMMA ListedStep ==
  ASSUME PreflightInv, ImportInv, AtMostThree, NEW p \in Preflights, PreflightStep(p),
         NEW q \in Preflights, NEW r \in Preflights, q # r,
         NEW file \in todo'[r], file[1] = q, file[2] \in Items
  PROVE  claimed'[q] /\ (Using(q)' /\ at'[r] = "sweep" => OthersDone(q)')
<1>1. claimed[q] => claimed'[q]
  BY Progress, SeenByOthers
<1>2. claimed[q] /\ Using(q)' => Using(q)
  BY <1>1, UsedBefore
<1>3. CASE file \in todo[r] /\ (at'[r] = "sweep" => at[r] = "sweep")
  <2>1. claimed[q] /\ (Using(q) /\ at[r] = "sweep" => OthersDone(q))
    BY <1>3 DEF ImportInv, Apart
  <2>2. QED
    BY <2>1, <1>1, <1>2, <1>3, OthersDoneStays
<1>4. CASE r = p /\ at[r] = "cleanup" /\ claimed[r] /\ at'[r] = "sweep" /\ file \in root
  <2>1. file # Workspace(q)
    BY DEF Workspace, Items, Inputs
  <2>2. claimed[q]
    BY <2>1, <1>4 DEF PreflightInv, Tidy, Own
  <2>3. ASSUME Using(q)' PROVE OthersDone(q)'
    <3>1. Using(q)
      BY <2>2, <2>3, <1>2
    <3>2. Workspace(r) \notin root
      BY <3>1, <1>4 DEF ImportInv, Apart, Found, Own
    <3>3. PICK s \in Preflights \ {r} : Done(s)
      BY <3>2, <1>4 DEF ImportInv, Supplied
    <3>4. s # q
      BY <3>1, <3>3 DEF Using, Found, Done
    <3>5. Done(s)' /\ Done(r)'
      BY <3>3, <1>4, DoneStays, Progress DEF Done
    <3>6. \A x \in Preflights : x \in {q, r, s}
      BY <3>3, <3>4, ThreeAreAll
    <3>7. QED
      BY <3>5, <3>6 DEF OthersDone
  <2>4. QED
    BY <2>2, <2>3, <1>1
<1>5. QED
  BY <1>3, <1>4, Progress, SeenByOthers

LEMMA ApartStep ==
  ASSUME PreflightInv, ImportInv, AtMostThree, NEW p \in Preflights, PreflightStep(p),
         NEW q \in Preflights, NEW r \in Preflights, q # r
  PROVE  Apart(q, r)'
  BY OwnSeesNone, ListedStep DEF Apart

\* What a preflight has moved stays until the others are done.
LEMMA MovedStays ==
  ASSUME PreflightInv, ImportInv, NEW p \in Preflights, PreflightStep(p), NEW q \in Preflights,
         claimed'[q], Using(q)', NEW input \in Moved(q)', <<q, input>> \notin root'
  PROVE  OthersDone(q)'
<1>1. claimed[q] /\ Using(q) /\ input \in Moved(q) /\ input \in Inputs
  <2>1. CASE q = p
    BY <2>1, MovedGrows
  <2>2. CASE q # p
    BY <2>2, SeenByOthers DEF Using, Found, Moved, Inputs
  <2>3. QED
    BY <2>1, <2>2
<1>2. CASE <<q, input>> \in root
  <2>1. at[p] = "sweep" /\ at'[p] = "sweep" /\ <<q, input>> \in todo[p]
    BY <1>1, <1>2, Removed DEF Workspace, Inputs
  <2>2. p # q
    BY <2>1 DEF Using, Found
  <2>3. OthersDone(q)
    BY <1>1, <2>1, <2>2 DEF ImportInv, Apart, Items
  <2>4. QED
    BY <2>3, OthersDoneStays
<1>3. CASE <<q, input>> \notin root
  BY <1>1, <1>3, OthersDoneStays DEF ImportInv, Kept
<1>4. QED
  BY <1>2, <1>3

\* The build begins after the last input was moved out of the workspace.
LEMMA BuildsFromWorkspace ==
  ASSUME PreflightInv, NEW p \in Preflights, PreflightStep(p), claimed'[p],
         at'[p] \in {"init", "expiry"}, at[p] \notin {"init", "expiry"}
  PROVE  inside[p] # {}
<1>. USE DEF Goes, To, Spoil, PreflightInv, PreflightTypeOK, Tidy, Inputs
<1>1. CASE MakeWorkspace(p) \/ SetTraps(p) \/ VerifySnapshot(p) \/ ValidateRevision(p)
  BY <1>1 DEF MakeWorkspace, SetTraps, VerifySnapshot, VerifyHalf, Place, ValidateRevision
<1>2. CASE FindOthers(p) \/ Claim(p) \/ InitSlapd(p)
  BY <1>2 DEF FindOthers, Claim, InitSlapd, Place
<1>3. CASE MoveInputs(p)
  BY <1>3 DEF MoveInputs, Move
<1>4. CASE CheckExpiry(p) \/ Trapped(p) \/ Struck(p)
  BY <1>4 DEF CheckExpiry, Trapped, Struck
<1>5. CASE BeginCleanup(p) \/ EmptyWorkspace(p) \/ RemoveWorkspace(p) \/ Sweep(p)
  BY <1>5 DEF BeginCleanup, EmptyWorkspace, RemoveWorkspace, Sweep, EmptyOther
<1>6. QED
  BY <1>1, <1>2, <1>3, <1>4, <1>5 DEF PreflightStep

Foreign(p, file) == file[1] # p /\ file[2] # "workspace"

LEMMA NothingForeign ==
  ASSUME PreflightInv, ImportInv, NEW p \in Preflights, PreflightStep(p), NEW q \in Preflights,
         Using(q)', Workspace(q) \in root' \/ at'[q] \in {"init", "expiry"},
         NEW file \in root', Foreign(q, file)
  PROVE  FALSE
<1>1. Using(q)
  BY UsedBefore DEF Foreign, Workspace
<1>2. Workspace(q) \in root \/ at[q] \in {"init", "expiry"}
  <2>1. CASE Workspace(q) \in root'
    BY <2>1, NoNewWorkspace DEF Using
  <2>2. CASE at'[q] \in {"init", "expiry"} /\ at[q] \notin {"init", "expiry"}
    <3>1. q = p
      BY <2>2, SeenByOthers
    <3>2. claimed'[p]
      BY <2>2, <3>1 DEF Using, Found
    <3>3. inside[p] # {}
      BY <2>2, <3>1, <3>2, BuildsFromWorkspace
    <3>4. QED
      BY <3>1, <3>3 DEF ImportInv, Supplied
  <2>3. QED
    BY <2>1, <2>2
<1>3. file \notin root
  BY <1>1, <1>2 DEF ImportInv, Kept, Foreign
<1>4. /\ file[1] = p /\ p # q
      /\ claimed[p] /\ ((at[p] \in Inputs /\ at[p] \in inside[p]) \/ at[p] = "init")
  BY <1>3, Added DEF Foreign, Workspace
<1>5. Using(p) /\ ~Done(p) /\ Found(q) /\ Found(p) /\ ~Done(q)
  BY <1>1, <1>4 DEF Using, Found, Done, Inputs
<1>6. ASSUME at[q] \in {"init", "expiry"} PROVE \A input \in Inputs : <<q, input>> \in root
  <2>1. claimed[q] /\ Moved(q) = Inputs
    BY <1>1, <1>6 DEF Using, Found, Moved
  <2>2. QED
    BY <1>1, <1>4, <1>5, <2>1 DEF ImportInv, Kept, OthersDone
<1>7. CASE at[p] \in Inputs /\ at[p] \in inside[p]
  <2>1. Workspace(p) \in root
    BY <1>7 DEF ImportInv, Supplied
  <2>2. Own(q) = {}
    BY <1>1, <1>4, <1>5, <2>1 DEF ImportInv, Apart
  <2>3. QED
    BY <1>2, <1>6, <2>2 DEF Own, Workspace, Inputs
<1>8. CASE at[p] = "init"
  <2>1. Moved(p) = Inputs
    BY <1>8 DEF Moved
  <2>2. \A input \in Inputs : <<p, input>> \in root
    BY <2>1, <1>4, <1>5 DEF ImportInv, Kept, OthersDone
  <2>3. CASE Workspace(q) \in root
    BY <2>2, <2>3, <1>4, <1>5 DEF ImportInv, Apart, Own, Inputs
  <2>4. CASE at[q] \in {"init", "expiry"}
    <3>1. <<q, "verified-files">> \in root
      BY <2>4, <1>6 DEF Inputs
    <3>2. QED
      BY <3>1, <1>4, <1>5, <1>8 DEF ImportInv, Kept
  <2>5. QED
    BY <1>2, <2>3, <2>4
<1>9. QED
  BY <1>4, <1>7, <1>8

LEMMA KeptStep ==
  ASSUME PreflightInv, ImportInv, NEW p \in Preflights, PreflightStep(p), NEW q \in Preflights
  PROVE  Kept(q)'
<1>1. ASSUME claimed'[q], Using(q)', NEW input \in Moved(q)'
      PROVE  <<q, input>> \in root' \/ OthersDone(q)'
  BY <1>1, MovedStays
<1>2. ASSUME Using(q)', Workspace(q) \in root' \/ at'[q] \in {"init", "expiry"}, NEW file \in root'
      PROVE  file[1] = q \/ file[2] = "workspace"
  BY <1>2, NothingForeign DEF Foreign
<1>3. QED
  BY <1>1, <1>2 DEF Kept, Workspace

\* Only custom LDIF is claimed for, while there is no service.
LEMMA PrivateStep ==
  ASSUME PreflightInv, ImportInv, NEW p \in Preflights, PreflightStep(p), UNCHANGED vars,
         NEW q \in Preflights
  PROVE  Private(q)'
<1>1. at'[p] \in {"check", "claim"} => custom[p]
  <2>. USE DEF Goes, To, Spoil, PreflightInv, PreflightTypeOK, Inputs, ImportInv, Private
  <2>1. CASE MakeWorkspace(p) \/ SetTraps(p) \/ VerifySnapshot(p) \/ ValidateRevision(p)
    BY <2>1 DEF MakeWorkspace, SetTraps, VerifySnapshot, VerifyHalf, Place, ValidateRevision
  <2>2. CASE FindOthers(p) \/ Claim(p) \/ InitSlapd(p) \/ MoveInputs(p)
    BY <2>2 DEF FindOthers, Claim, InitSlapd, Place, MoveInputs, Move
  <2>3. CASE CheckExpiry(p) \/ Trapped(p) \/ Struck(p)
    BY <2>3 DEF CheckExpiry, Trapped, Struck
  <2>4. CASE BeginCleanup(p) \/ EmptyWorkspace(p) \/ RemoveWorkspace(p) \/ Sweep(p)
    BY <2>4 DEF BeginCleanup, EmptyWorkspace, RemoveWorkspace, Sweep, EmptyOther
  <2>5. QED
    BY <2>1, <2>2, <2>3, <2>4 DEF PreflightStep
<1>2. at'[q] \in {"check", "claim"} \/ claimed'[q] => custom'[q]
  BY <1>1, Progress, SeenByOthers DEF ImportInv, Private
<1>3. Using(q)' => ~ServicePresent
  BY UsedBefore DEF ImportInv, Private
<1>4. ServicePresent' = ServicePresent
  BY DEF vars, ServicePresent
<1>5. QED
  BY <1>2, <1>3, <1>4 DEF Private

\* The service does not start beside whoever has found the directory free.
LEMMA ImportServiceStep ==
  ASSUME PreflightInv, ImportInv, ServiceStep
  PROVE  ImportInv'
<1>1. ASSUME NEW p \in Preflights, Using(p) PROVE ~ServicePresent'
  <2>1. custom[p] /\ ~ServicePresent /\ at[p] \notin {"start", "gone"}
    BY <1>1 DEF ImportInv, Private, Using, Found, PreflightInv, Tidy
  <2>2. QED
    BY <2>1 DEF ServiceStep, ServicePresent
<1>2. ASSUME NEW p \in Preflights PROVE Supplied(p)' /\ Kept(p)' /\ Private(p)'
  BY <1>1 DEF ServiceStep, preflight_vars, ImportInv, Supplied, Kept, Private, Found, Using, Done,
              OthersDone, Moved, Workspace
<1>3. ASSUME NEW p \in Preflights, NEW q \in Preflights, p # q PROVE Apart(p, q)'
  BY <1>3 DEF ServiceStep, preflight_vars, ImportInv, Apart, Found, Using, Done, OthersDone, Own, Workspace
<1>4. QED
  BY <1>2, <1>3 DEF ImportInv

LEMMA ImportInit == PreflightInit => ImportInv
  BY DEF PreflightInit, ImportInv, Supplied, Kept, Private, Apart, Found, Using, Own, Working, Inputs

\* The build of a custom preflight finds its own verified input and nothing of the
\* service or of another one in the runtime directory, for up to three of them in
\* any interleaving (ImportsOnlyOwn).
THEOREM OnlyOwnImported == AtMostThree /\ SharedSpec => []ImportsOnlyOwn
<1>. SUFFICES ASSUME AtMostThree PROVE SharedSpec => []ImportsOnlyOwn
  OBVIOUS
<1>1. PreflightInv /\ ImportInv /\ [SharedNext]_shared => ImportInv'
  <2>. SUFFICES ASSUME PreflightInv, ImportInv, [SharedNext]_shared PROVE ImportInv'
    OBVIOUS
  <2>1. CASE ServiceStep
    BY <2>1, ImportServiceStep
  <2>2. CASE UNCHANGED shared
    <3>1. ASSUME NEW p \in Preflights PROVE Supplied(p)' /\ Kept(p)' /\ Private(p)'
      BY <2>2 DEF shared, vars, preflight_vars, ImportInv, Supplied, Kept, Private, Found, Using, Done,
                  OthersDone, Moved, Workspace, ServicePresent
    <3>2. ASSUME NEW p \in Preflights, NEW q \in Preflights, p # q PROVE Apart(p, q)'
      BY <2>2, <3>2 DEF shared, preflight_vars, ImportInv, Apart, Found, Using, Done, OthersDone, Own, Workspace
    <3>3. QED
      BY <3>1, <3>2 DEF ImportInv
  <2>3. ASSUME NEW p \in Preflights, PreflightStep(p), UNCHANGED vars PROVE ImportInv'
    BY <2>3, SuppliedStep, KeptStep, PrivateStep, ApartStep DEF ImportInv
  <2>4. QED
    BY <2>1, <2>2, <2>3 DEF SharedNext
<1>2. PreflightInv /\ ImportInv => ImportsOnlyOwn
  <2>. SUFFICES ASSUME PreflightInv, ImportInv, NEW p \in Preflights, claimed[p],
                       at[p] \in {"init", "expiry"}
                PROVE  /\ ~ServicePresent
                       /\ \A file \in root : file[1] = p \/ file[2] = "workspace"
    BY DEF ImportsOnlyOwn
  <2>1. Using(p)
    BY DEF Using, Found
  <2>2. QED
    BY <2>1 DEF ImportInv, Kept, Private
<1>3. SharedSpec => [](PreflightInv /\ ImportInv)
  BY <1>1, ImportInit, PreflightInitInv, PreflightNextInv, PTL DEF SharedSpec, SharedInit, shared
<1>4. QED
  BY <1>2, <1>3, PTL
=============================================================================
