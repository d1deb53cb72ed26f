---------------------------- MODULE BuildArtifacts ----------------------------
(***************************************************************************)
(* The files that verify-snapshot.sh and init-slapd.sh create beside their *)
(* results in the runtime volume, which outlives the container.            *)
(* verify-snapshot.sh sets no trap: a TERM ends it where it stands.        *)
(* init-slapd.sh turns TERM into "exit 70" and removes its files in a trap *)
(* on exit; a TERM that arrives while that trap runs ends the trap, since  *)
(* the shell (dash) does not return to it.  Only root-password and         *)
(* verification-keys have fixed names; the others are made by mktemp, so   *)
(* that no later run knows them.                                           *)
(***************************************************************************)
EXTENDS Naturals

Lists == {"verification-keys", "verified-manifest", "manifest-files", "actual-files"}
RemovalOrder == <<"root-password", "config", "directory", "group-memberships",
                  "user-memberships", "normalized-memberships">>
Artifacts == {RemovalOrder[i] : i \in 1..6}
FixedNames == {"root-password", "verification-keys"}

VARIABLES
  pc,       \* next command, or who is in charge
  held,     \* existing files whose name this run knows
  admin,    \* LDAP_ADMIN_PASSWORD_FILE is set for this run
  native,   \* the snapshot is custom LDIF
  entered,  \* this run has begun to build
  cut       \* what kept this run from removing its files

vars == <<pc, held, admin, native, entered, cut>>
setup == <<admin, native, entered>>

Verifying == {"keys", "manifest", "signature", "names", "listing", "compare", "unlist", "unlisted"}
Building  == {"password", "hash", "config", "slapadd", "unlink", "import", "directory",
              "groups", "users", "normalized", "verify", "remove"}

TypeOK ==
  /\ pc \in Verifying \cup Building \cup {"gone", "cleanup", "serving"}
  /\ held \subseteq Lists \cup Artifacts
  /\ {admin, native, entered} \subseteq BOOLEAN
  /\ cut \in {"none", "terminated", "killed", "failed"}

Init ==
  /\ pc = "gone" /\ held = {}
  /\ admin = FALSE /\ native = FALSE /\ entered = FALSE /\ cut = "none"

-----------------------------------------------------------------------------
\* A new container finds what the last one left, but knows two names only.
Start ==
  /\ pc = "gone" /\ pc' = "keys"
  /\ held' = held \cap FixedNames
  /\ admin' \in BOOLEAN /\ native' \in BOOLEAN
  /\ entered' = FALSE /\ cut' = "none"

Goto(label) == pc' = label /\ UNCHANGED <<setup, cut>>

Create(kind, from, to) == pc = from /\ held' = held \cup {kind} /\ Goto(to)
Unlink(kind, from, to) == pc = from /\ held' = held \ {kind} /\ Goto(to)

\* verify-snapshot.sh: the paths of the keys, overwritten by every run, the copy
\* of the manifest, then the two lists.
prepare_verification_keys == Create("verification-keys", "keys", "manifest")

verify_signature ==
  \/ Create("verified-manifest", "manifest", "signature")
  \/ Unlink("verified-manifest", "signature", "names")  \* becomes verified-manifest.json
  \/ Unlink("verified-manifest", "signature", "gone")   \* not signed

\* Variant: a failing second mktemp leaves the first list.
ListsLeft ==
  \/ Create("manifest-files", "names", "listing")
  \/ Create("actual-files", "listing", "compare")
  \/ pc = "listing" /\ Goto("gone") /\ UNCHANGED held
  \/ Unlink("manifest-files", "compare", "unlist")
  \/ Unlink("actual-files", "unlist", "unlisted")

validate_manifest_files ==
  \/ Create("manifest-files", "names", "listing")
  \/ Create("actual-files", "listing", "compare")
  \/ Unlink("manifest-files", "listing", "gone")        \* no second list
  \/ Unlink("manifest-files", "compare", "unlist")
  \/ Unlink("actual-files", "unlist", "unlisted")

\* A check of verify-snapshot.sh before or after its lists exist refuses.
VerifyRefuses == pc \in {"keys", "manifest", "names", "unlisted"} /\ Goto("gone") /\ UNCHANGED held

\* The first obstacle counts.
Cut(how, to) ==
  /\ pc' = to /\ cut' = IF cut = "none" THEN how ELSE cut
  /\ UNCHANGED <<held, setup>>

\* The mv that ends verify_signature fails, or an unlink does, which is not noticed.
VerifyLeaves ==
  \/ pc = "signature" /\ Cut("failed", "gone")
  \/ pc = "compare" /\ Cut("failed", "unlist")
  \/ pc = "unlist" /\ Cut("failed", "unlisted")

\* The phase has succeeded and init-slapd.sh validates and resets the database.
Enter ==
  /\ pc = "unlisted"
  /\ pc' = IF native THEN "import" ELSE IF admin THEN "password" ELSE "config"
  /\ entered' = TRUE
  /\ UNCHANGED <<held, admin, native, cut>>

\* init-slapd.sh with every command succeeding.
prepare_root_password == Create("root-password", "password", "hash")

\* The status of unlink is lost: the subshell goes on to print the hash.
hash_root_password ==
  Unlink("root-password", "hash", "config") \/ (pc = "hash" /\ Goto("config") /\ UNCHANGED held)

WriteConfiguration ==
  \/ Create("config", "config", "slapadd")
  \/ pc = "slapadd" /\ Goto("unlink") /\ UNCHANGED held
  \/ Unlink("config", "unlink", "import")

import_directory_data == pc = "import" /\ Goto("directory") /\ UNCHANGED held

verify_built_database ==
  \/ Create("directory", "directory", "groups")
  \/ Create("group-memberships", "groups", "users")
  \/ Create("user-memberships", "users", "normalized")
  \/ Create("normalized-memberships", "normalized", "verify")
  \/ pc = "verify" /\ Goto("remove") /\ UNCHANGED held

Left == held \cap Artifacts

\* The next file of the loop; unlink may fail and end the loop.
RemoveNext ==
  \E i \in 1..6 :
    /\ RemovalOrder[i] \in held /\ \A j \in 1..(i - 1) : RemovalOrder[j] \notin held
    /\ held' = held \ {RemovalOrder[i]}

remove_build_artifacts ==
  /\ pc = "remove"
  /\ \/ Left # {} /\ RemoveNext /\ Goto("remove")
     \/ Left = {} /\ Goto("serving") /\ UNCHANGED held

\* Any command of the build fails, or TERM is trapped: "exit", so that the trap
\* on exit runs.
ExitBuild == pc \in Building /\ Goto("cleanup") /\ UNCHANGED held

cleanup_initialization ==
  /\ pc = "cleanup"
  /\ \/ Left # {} /\ RemoveNext /\ Goto("cleanup")
     \/ Left = {} /\ Goto("gone") /\ UNCHANGED held

UnlinkFails == pc = "cleanup" /\ Left # {} /\ Cut("failed", "gone")

\* TERM where nothing traps it: verify-snapshot.sh, or the trap on exit.
Terminated == pc \in Verifying \cup {"cleanup"} /\ Cut("terminated", "gone")

\* slapd ends or is stopped.
ServiceEnds == pc = "serving" /\ Goto("gone") /\ UNCHANGED held

Killed == pc # "gone" /\ Cut("killed", "gone")

-----------------------------------------------------------------------------
Verify ==
  \/ prepare_verification_keys \/ verify_signature \/ validate_manifest_files
  \/ VerifyRefuses \/ VerifyLeaves
Build ==
  \/ Enter \/ prepare_root_password \/ hash_root_password \/ WriteConfiguration
  \/ import_directory_data \/ verify_built_database \/ remove_build_artifacts
Leave == ExitBuild \/ cleanup_initialization \/ UnlinkFails \/ ServiceEnds

Next == Start \/ Verify \/ Build \/ Leave \/ Terminated \/ Killed
Spec == Init /\ [][Next]_vars

-----------------------------------------------------------------------------
(* Properties.                                                             *)

\* A run that is not cut short leaves no file of its own but the paths of the
\* keys, which nothing removes, wherever it fails or is asked to stop; and one
\* that has begun to build also removes the input of the root password that a
\* run before it was killed with.  If no build begins, that file stays (the start
\* removes only the verified copies).
CleanUnlessCut ==
  pc = "gone" /\ cut = "none" =>
    held \subseteq {"verification-keys"} \cup (IF entered THEN {} ELSE {"root-password"})

\* Why it holds: the lists exist at the commands that need them, a run that has
\* begun to build knows its files, and slapd is served when they are gone.
Inv ==
  /\ TypeOK
  /\ cut = "none" =>
       /\ "verified-manifest" \in held <=> pc = "signature"
       /\ "manifest-files" \in held <=> pc \in {"listing", "compare"}
       /\ "actual-files" \in held <=> pc \in {"compare", "unlist"}
  /\ pc \in Verifying => ~entered /\ Left \subseteq {"root-password"}
  /\ pc \in Building \cup {"cleanup", "serving"} => entered
  /\ pc = "serving" => Left = {}
  /\ CleanUnlessCut
=============================================================================
