------------------------------- MODULE Preflight -------------------------------
(***************************************************************************)
(* scripts/preflight-snapshot.sh in a runtime directory that other         *)
(* preflights, or the service of BuildArtifacts, may use too.  A preflight *)
(* verifies in a workspace of its own.  A generated snapshot is also built *)
(* there; custom LDIF names /run/openldap/data, so that the preflight      *)
(* claims the directory if it finds nothing else in it, moves what it      *)
(* verified there and empties the directory in the end.                    *)
(***************************************************************************)
EXTENDS BuildArtifacts, FiniteSets

CONSTANT Preflights

Inputs == {"verified-manifest.json", "verified-files", "verified-snapshot"}
Items  == Inputs \cup {"database"}

VARIABLES
  at,       \* next command of a preflight
  custom,   \* its snapshot is custom LDIF
  claimed,  \* custom_workspace
  root,     \* what preflights have put in the directory: <<whose, what>>
  inside,   \* what their workspaces hold
  todo,     \* find -delete: what is still to be deleted
  spoilt    \* killed, or its cleanup was cut short or has failed

preflight_vars == <<at, custom, claimed, root, inside, todo, spoilt>>

Workspace(p) == <<p, "workspace">>
Working  == {"verify", "files", "revision", "check", "claim", "verified-manifest.json", "verified-files",
             "verified-snapshot", "init", "expiry"}
Cleaning == {"cleanup", "sweep", "empty", "rmdir"}

PreflightInit ==
  /\ at = [p \in Preflights |-> "start"] /\ custom \in [Preflights -> BOOLEAN]
  /\ claimed = [p \in Preflights |-> FALSE] /\ root = {}
  /\ inside = [p \in Preflights |-> {}] /\ todo = [p \in Preflights |-> {}]
  /\ spoilt = [p \in Preflights |-> FALSE]

-----------------------------------------------------------------------------
To(p, label) == at' = [at EXCEPT ![p] = label]

Goes(p, from, to) == at[p] = from /\ To(p, to) /\ UNCHANGED <<custom, claimed, todo, spoilt>>

\* A refused setting or a failing mktemp ends it before there is anything.
MakeWorkspace(p) ==
  \/ Goes(p, "start", "untrapped") /\ root' = root \cup {Workspace(p)} /\ UNCHANGED inside
  \/ Goes(p, "start", "gone") /\ UNCHANGED <<root, inside>>

SetTraps(p) == Goes(p, "untrapped", "verify") /\ UNCHANGED <<root, inside>>

\* mkdir -p makes a workspace again that another preflight has deleted.
Place(p, items) ==
  root' = root \cup {Workspace(p)} /\ inside' = [inside EXCEPT ![p] = @ \cup items]

\* Both halves of verify-snapshot.sh begin with it: up to the manifest, and from
\* the directory of the copies on.
VerifyHalf(p, from, to, items) ==
  \/ Goes(p, from, to) /\ Place(p, items)
  \/ /\ Goes(p, from, "cleanup")
     /\ Place(p, items) \/ UNCHANGED <<root, inside>>

VerifySnapshot(p) ==
  \/ VerifyHalf(p, "verify", "files", {"verified-manifest.json"})
  \/ VerifyHalf(p, "files", "revision", {"verified-files", "verified-snapshot"})

\* validate_snapshot_revision reads the recorded state, jq the type of input.
ValidateRevision(p) ==
  /\ UNCHANGED <<root, inside>>
  /\ \/ /\ "verified-manifest.json" \in inside[p]
        /\ Goes(p, "revision", IF custom[p] THEN "check" ELSE "init")
     \/ Goes(p, "revision", "cleanup")

\* What the service keeps in the directory, as far as BuildArtifacts knows it.
ServicePresent == pc # "gone" \/ held # {}

\* Variant: the workspaces of other preflights do not count.
FindInputs(p) ==
  /\ UNCHANGED <<root, inside>>
  /\ \/ /\ \A file \in root : file[2] = "workspace"
        /\ ~ServicePresent /\ Goes(p, "check", "claim")
     \/ Goes(p, "check", "cleanup")

\* prepare_custom_workspace: what remains of a service that is gone may also be
\* a reason to refuse, as is any other directory than /run/openldap.
FindOthers(p) ==
  /\ UNCHANGED <<root, inside>>
  /\ \/ root \subseteq {Workspace(p)} /\ ~ServicePresent /\ Goes(p, "check", "claim")
     \/ Goes(p, "check", "cleanup")

\* Variant: the claim is not noted.
ClaimUnnoted(p) == Goes(p, "claim", "verified-manifest.json") /\ UNCHANGED <<root, inside>>

Claim(p) ==
  /\ at[p] = "claim" /\ To(p, "verified-manifest.json")
  /\ claimed' = [claimed EXCEPT ![p] = TRUE]
  /\ UNCHANGED <<custom, root, inside, todo, spoilt>>

Move(p, input, to) ==
  /\ \/ /\ Goes(p, input, to) /\ input \in inside[p]
        /\ root' = root \cup {<<p, input>>} /\ inside' = [inside EXCEPT ![p] = @ \ {input}]
     \/ Goes(p, input, "cleanup") /\ UNCHANGED <<root, inside>>

MoveInputs(p) ==
  \/ Move(p, "verified-manifest.json", "verified-files")
  \/ Move(p, "verified-files", "verified-snapshot")
  \/ Move(p, "verified-snapshot", "init")

\* init-slapd.sh, which may fail with or without a database; one in a workspace is
\* not told from the workspace.
InitSlapd(p) ==
  \/ /\ claimed[p] /\ UNCHANGED inside
     /\ \/ /\ Goes(p, "init", "expiry") /\ \A input \in Inputs : <<p, input>> \in root
           /\ root' = root \cup {<<p, "database">>}
        \/ Goes(p, "init", "cleanup") /\ root' \in {root, root \cup {<<p, "database">>}}
  \/ /\ ~claimed[p]
     /\ \/ Goes(p, "init", "expiry") /\ Inputs \subseteq inside[p] /\ Place(p, {})
        \/ Goes(p, "init", "cleanup") /\ (Place(p, {}) \/ UNCHANGED <<root, inside>>)

\* check_snapshot_expiry, the last word.
CheckExpiry(p) == Goes(p, "expiry", "cleanup") /\ UNCHANGED <<root, inside>>

\* TERM: "exit 70", once the command that runs has ended.
Trapped(p) ==
  at[p] \in Working /\ To(p, "cleanup") /\ UNCHANGED <<custom, claimed, root, inside, todo, spoilt>>

\* find lists the directory when it opens it.
BeginCleanup(p) ==
  /\ at[p] = "cleanup" /\ UNCHANGED <<custom, claimed, root, inside, spoilt>>
  /\ \/ claimed[p] /\ To(p, "sweep") /\ todo' = [todo EXCEPT ![p] = root]
     \/ /\ ~claimed[p] /\ UNCHANGED todo
        /\ To(p, IF Workspace(p) \in root THEN "empty" ELSE "gone")

\* What find -delete does to a workspace is no single step: it deletes what it
\* lists there, and then the workspace if nothing has been put into it meanwhile.
EmptyOther(p, q) ==
  /\ Workspace(q) \in todo[p] /\ inside' = [inside EXCEPT ![q] = {}]
  /\ UNCHANGED <<at, root, todo, spoilt>>

\* It takes the directory as it comes; what it cannot delete it leaves.
Sweep(p) ==
  /\ at[p] = "sweep" /\ UNCHANGED <<custom, claimed>>
  /\ \/ \E file \in todo[p] :
          /\ todo' = [todo EXCEPT ![p] = @ \ {file}] /\ UNCHANGED at
          /\ \/ /\ root' = root \ {file} /\ UNCHANGED spoilt
                /\ inside' = [q \in Preflights |-> IF file = Workspace(q) THEN {} ELSE inside[q]]
             \/ spoilt' = [spoilt EXCEPT ![p] = TRUE] /\ UNCHANGED <<root, inside>>
     \/ \E q \in Preflights : EmptyOther(p, q)
     \/ todo[p] = {} /\ To(p, "gone") /\ UNCHANGED <<root, inside, todo, spoilt>>

Spoil(p) ==
  /\ To(p, "gone") /\ spoilt' = [spoilt EXCEPT ![p] = TRUE] /\ todo' = [todo EXCEPT ![p] = {}]
  /\ UNCHANGED <<custom, claimed, root, inside>>

EmptyWorkspace(p) ==
  \/ /\ Goes(p, "empty", "rmdir") /\ inside' = [inside EXCEPT ![p] = {}] /\ UNCHANGED root
  \/ at[p] = "empty" /\ Spoil(p)

RemoveWorkspace(p) ==
  \/ Goes(p, "rmdir", "gone") /\ root' = root \ {Workspace(p)} /\ UNCHANGED inside
  \/ at[p] = "rmdir" /\ Spoil(p)

\* KILL, or TERM where it is not trapped or ends the trap on exit.
Struck(p) == at[p] \in {"untrapped"} \cup Working \cup Cleaning /\ Spoil(p)

PreflightStep(p) ==
  \/ MakeWorkspace(p) \/ SetTraps(p) \/ VerifySnapshot(p) \/ ValidateRevision(p)
  \/ FindOthers(p) \/ Claim(p) \/ MoveInputs(p) \/ InitSlapd(p) \/ CheckExpiry(p) \/ Trapped(p)
  \/ BeginCleanup(p) \/ Sweep(p) \/ EmptyWorkspace(p) \/ RemoveWorkspace(p) \/ Struck(p)

\* A custom preflight has a runtime directory that no service is started with
\* (DEVELOPMENT.md: "Never mount an active service's runtime volume").
ServiceStep ==
  /\ Next /\ UNCHANGED preflight_vars
  /\ pc = "gone" => \A p \in Preflights : custom[p] => at[p] \in {"start", "gone"}

SharedNext == ServiceStep \/ \E p \in Preflights : PreflightStep(p) /\ UNCHANGED vars
SharedInit == Init /\ PreflightInit
SharedSpec == SharedInit /\ [][SharedNext]_<<vars, preflight_vars>>

-----------------------------------------------------------------------------
(* Properties.                                                             *)

\* While a custom preflight builds and until its verdict, the directory holds the
\* input of no other preflight and nothing of a service, so that init-slapd.sh
\* imports exactly what this one verified, and emptying the directory takes
\* nothing from the service ("a rejected preflight leaves the active service
\* unchanged", examples/quadlet/README.md).
ImportsOnlyOwn ==
  \A p \in Preflights : claimed[p] /\ at[p] \in {"init", "expiry"} =>
    /\ ~ServicePresent
    /\ \A file \in root : file[1] = p \/ file[2] = "workspace"

\* So it is with up to three preflights: one whose workspace another has deleted
\* may empty the directory of a third, and a fourth would then find it free.
AtMostThree == IsFiniteSet(Preflights) /\ Cardinality(Preflights) <= 3

\* A preflight leaves nothing of its own, at whichever command it fails or is
\* told to stop, unless its own cleanup was cut short or could not delete a file.
PreflightLeavesNothing ==
  \A p \in Preflights : at[p] = "gone" /\ ~spoilt[p] => \A file \in root : file[1] # p

\* Why it holds: only who has claimed the directory has more than a workspace in
\* it, and deletes all that was there when it began to.
Files == Preflights \X (Items \cup {"workspace"})
PreflightTypeOK ==
  /\ at \in [Preflights -> {"start", "untrapped", "gone"} \cup Working \cup Cleaning]
  /\ custom \in [Preflights -> BOOLEAN] /\ claimed \in [Preflights -> BOOLEAN]
  /\ spoilt \in [Preflights -> BOOLEAN]
  /\ root \subseteq Files /\ inside \in [Preflights -> SUBSET Inputs]
  /\ todo \in [Preflights -> SUBSET Files]

Own(p) == {file \in root : file[1] = p}
Tidy(p) ==
  /\ at[p] = "start" => Own(p) = {}
  /\ at[p] \in {"start", "untrapped", "verify", "files", "revision", "check", "claim", "empty",
                "rmdir"} =>
       ~claimed[p]
  /\ at[p] \in Inputs \cup {"sweep"} => claimed[p]
  /\ ~claimed[p] => Own(p) \subseteq {Workspace(p)}
  /\ ~spoilt[p] => /\ at[p] = "sweep" => Own(p) \subseteq todo[p]
                   /\ at[p] = "gone" => Own(p) = {}

PreflightInv == PreflightTypeOK /\ \A p \in Preflights : Tidy(p)

\* Why only own input is imported: who has found the directory free, and not
\* begun to delete what is there; who uses it; who deletes or has ended.
Found(p) == at[p] = "claim" \/ (claimed[p] /\ at[p] \notin {"sweep", "gone"})
Using(p) == Found(p) /\ at[p] # "cleanup"
Done(p)  == claimed[p] /\ at[p] \in {"sweep", "gone"}
OthersDone(p) == \A q \in Preflights \ {p} : Done(q)

Moved(p) ==
  CASE at[p] = "verified-manifest.json" -> {}
    [] at[p] = "verified-files"         -> {"verified-manifest.json"}
    [] at[p] = "verified-snapshot"      -> {"verified-manifest.json", "verified-files"}
    [] OTHER                            -> Inputs

\* A preflight without a workspace has nothing to move, and has lost it to one that
\* empties the directory; it may make it again before it looks, never afterwards.
Supplied(p) ==
  /\ inside[p] # {} => Workspace(p) \in root
  /\ at[p] = "rmdir" => inside[p] = {}
  /\ at[p] \in {"untrapped", "cleanup"} \cup Working /\ Workspace(p) \notin root =>
       \E q \in Preflights \ {p} : Done(q)

\* If p is in the directory and q has found it free, q looked first and has lost
\* its workspace since, to a third.  So q lists what p has moved only when nobody
\* else is left.
Apart(p, q) ==
  /\ Using(p) /\ Own(p) # {} /\ Found(q) => Workspace(q) \notin root
  /\ \A file \in todo[q] : file[1] = p /\ file[2] \in Items =>
       claimed[p] /\ (Using(p) /\ at[q] = "sweep" => OthersDone(p))

\* What has been moved is there, or nobody is left to put anything beside it.
Kept(p) ==
  /\ claimed[p] /\ Using(p) =>
       \A input \in Moved(p) : <<p, input>> \in root \/ OthersDone(p)
  /\ Using(p) /\ (Workspace(p) \in root \/ at[p] \in {"init", "expiry"}) =>
       \A file \in root : file[1] = p \/ file[2] = "workspace"

Private(p) ==
  /\ at[p] \in {"check", "claim"} \/ claimed[p] => custom[p]
  /\ Using(p) => ~ServicePresent

ImportInv ==
  /\ \A p \in Preflights : Supplied(p) /\ Kept(p) /\ Private(p)
  /\ \A p, q \in Preflights : p # q => Apart(p, q)
=============================================================================
