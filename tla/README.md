# Formal models of oci-openldap-declarative

This directory holds TLA+ models of the runtime and the generator, the TLC
configurations that check them on small instances and proofs that TLAPS checks
for every instance. The reference is the source under `src/`; where a document
says something else, the source is modelled and the difference is recorded.

## The system

A **generator** on a trusted machine turns a YAML definition (or custom LDIF)
into a *snapshot*: LDIF files and a manifest that lists their SHA-256 digests,
carries a directory ID, a revision and an expiry time and is signed with
minisign. A host publishes the snapshot directory to a **container** that
verifies it, builds an OpenLDAP database from it offline, records its revision
and then runs `slapd` on it until it expires, is stopped or fails. Nothing in
the container writes the directory at run time; a new snapshot needs a restart.

| Component | Source | State it keeps | Operations |
| --- | --- | --- | --- |
| Entrypoint | `scripts/entrypoint.sh`, `scripts/common.sh` | flags set by traps, process IDs, files below `/run/openldap` | startup sequence, two startup phases, supervision, four traps |
| Revision state | `scripts/revision-state.sh` | `/state/highest-revision` | check a manifest, record a manifest |
| Expiry watchdog | `watch_snapshot_expiry` | none; a subshell that sleeps | read the clock, sleep, signal |
| Snapshot verification | `scripts/verify-snapshot.sh` | private manifest, private copies, list of copies | check inputs, signature, fields, copy and digest files, compare names |
| Database build | `scripts/init-slapd.sh` | `slapd.d`, `data`, temporary artifacts | reset, configure, import, index, read back, compare memberships, clean up |
| Preflight | `scripts/preflight-snapshot.sh` | a scratch workspace, or the runtime directory itself | the same checks without serving, claim and clean up the directory |
| Status, health | `scripts/status.sh`, `scripts/healthcheck.sh` | what it has read of the active manifest | read the active manifest, probe LDAP, judge |
| Resource ceiling | `scripts/runtime_limits.py` | the shell's open-file limit | clamp |
| LDIF validation | `scripts/directory_data.py` | none | parse, DN rules, UUIDs, password hashes |
| Configuration validation | `scripts/server_config.py` | none | allow-list of custom configuration, access check |
| Deployment, backstop | `examples/quadlet`, `examples/systemd` | container state, unit state | restart policy, stop of an expired container from outside |
| Generator | `generator/generate.py` | staging directory | parse, resolve memberships, render, sign, publish |
| Schema extensions | `generator/extensions.py` | catalog of types and classes, walks through superiors | parse, validate, merge |
| Vault values | `generator/vault.py` | passwords by key ID, decrypted values, a count | read password files, decrypt in order |
| Initialization, passwords, export | `generator/initialize.py`, `password.py`, `export_schema.py` | none | create a definition, hash, export |

They interact by files and signals. The entrypoint forks the verification, then
the build, and waits for each; it forks `slapd` and the watchdog and polls them
once a second. The watchdog sends `USR1` (expired) or `USR2` (failed) to the
shell, the host sends `TERM`, and the shell's traps run between two of its
commands. Verification reads the snapshot directory that the host may be
publishing to; status and preflight read files that the entrypoint writes, and
a timer of the host acts on what status reports. The generator reads files that
their owner may be editing. The
runtime volume and the state volume outlive the container, so every start finds
what the last one left, wherever that one ended.

Hard behaviours: traps that arrive between the fork of a child and the
assignment of its process ID; children that end while a trap is pending; a
check whose result is used after a long build; a directory that changes while
it is verified; a pipe whose right-hand side is a process of its own; `SIGKILL`
at any command and a start on the leftovers; a wall clock that is set while the
watchdog sleeps; a verdict about a container that has restarted since. `PROJECT.json` lists each of them at its line.

## Modules

| Module | Models | Composes |
| --- | --- | --- |
| `RevisionState` | exit statuses, contents of the state file, `validate_snapshot_revision` | |
| `DirectoryService` | abstract: what the runtime promises its host | extends `RevisionState` |
| `Entrypoint` | the container as a whole | extends `RevisionState`, implements `DirectoryService` |
| `ExpiryWatchdog` | the watchdog and the polling loop in real time | |
| `SnapshotVerifier` | `verify-snapshot.sh` beside a host that edits, and the removal of the copies | |
| `BuildArtifacts` | the temporary files of `verify-snapshot.sh` and `init-slapd.sh` | |
| `Preflight` | preflights in one runtime directory | extends `BuildArtifacts`, the service beside them |
| `HealthMonitor` | status, health and the expiry backstop beside a container | |
| `DirectoryModel` | a users/groups definition from the parser to the database | |
| `Publication` | how `openldap-init` and `openldap-generate` publish beside each other | |
| `AttributeExtensions`, `ClassExtensions` | the two validations of added attributes and object classes | |
| `SchemaExtensions` | both, as the generator runs them for one entry | extends the two |
| `GeneratorInput` | reading the definition and the Vault passwords, then the extensions | extends `SchemaExtensions` |
| `EntrypointProofs`, `ExpiryWatchdogProofs`, `SnapshotVerifierProofs`, `BuildArtifactsProofs`, `HealthMonitorProofs`, `PublicationProofs`, `DirectoryModelProofs`, `GeneratorInputProofs` | theorems | extend their module; `BuildArtifactsProofs` also covers `Preflight`, and `GeneratorInputProofs` the extensions |
| `MCEntrypoint`, `MCExpiryWatchdog`, `MCSnapshotVerifier`, `MCPreflight`, `MCHealthMonitor`, `MCDirectoryModel`, `MCPublication`, `MCGeneratorInput` | values of the constants for TLC | extend their module |

Operators called "Variant" in a comment are not part of any specification: each is
what a definition would be with a plausible mistake, kept to see that the
properties notice it.

### Entrypoint

`pc` is the next command of the shell of `entrypoint.sh`; each action is one
command, or a sequence of commands that nothing else can observe halfway. The
startup labels follow `main` (193-237): `prepare`, then fork, pid and wait of
the verification, `revision`, fork, pid and wait of the build, `remove`,
`expiry`, `record`, `truncate` and `activate` (the two halves of the `cp` of the
active manifest), and `slapd.fork`. The supervision labels follow
`supervise_slapd` (130-190).

*Traps.* `signals` holds what the shell has caught. A command runs only when no
signal is pending, and a trap is an action that takes one signal away, sets its
flag and sends `TERM` to those children whose process IDs the shell has already
assigned (`PhasePidKnown`, `SlapdPidKnown`). A signal can so arrive between any
two commands, during a `wait`, or between a fork and the assignment.

*Children.* `phase` is the stage of the verification or the build, which run
beside the waiting shell. The verification has no trap, and `TERM` ends it
(`VerifyKilled`); the build traps it and cleans up (`InitTrapped`), unless it
finishes first. `slapd` is `stopping` from `TERM` to its exit and serves until
then. `watchdog` records how the subshell ended: it `reported` expiry, it `erred`
and said so, it vanished in `silent`, or it was `killed`.

*Volumes.* `revision_state` is the state volume; the four other files are in the
runtime volume. `Exit` ends the first process and with it every child, and
changes no file; `Start` begins again from what is there. A file that is
truncated, partial or absent is `None`. A snapshot stands for the bytes of its
manifest, so equality of snapshots is equality of digests.

*Host.* `Deploy` replaces the snapshot directory at any time, `Tick` advances
the clock, `Terminate` sends `TERM`, `Kill` is `SIGKILL`, an out-of-memory kill
or a crash of the host.

### SnapshotVerifier

The same verification in detail. The host edits the manifest, the signature and
single LDIF files between any two commands (`Edit`). The verifying shell reads
the manifest once, into a private copy, and the signature later. The loop over
the listed files (`copier`) is the right-hand side of a pipe: it has its own
steps (next, open, read, measure, digest, append) and goes on after `TERM` has
ended the shell (`Terminated`), beside the three commands of
`remove_verified_snapshot`, until the container ends. A file that is rewritten
while `head` reads it can give any mixture (`Torn`). `edited` records whether
the host has changed anything during the run, `failed` whether a tool has failed;
both are history for `VerdictOfStillSnapshot`, and `edited` limits `Torn` to files
that can have been rewritten. The script takes some failures of tools for a
verdict on the snapshot (`jq` at 251 ends with 65), so that `CommandFails` and
`CopierFails` have either status. `validate_manifest_times` reads the clock once
(`current_epoch`, any of `Times`): a manifest whose generation is ahead of it by more
than `Tolerance` is refused with 65, one that has expired with 78, in that order. The order of the listed files is left open.

### BuildArtifacts

`pc` is the command of the two phases that creates or unlinks a file, `held` the
existing files whose names the run knows: all but `root-password` and
`verification-keys` (`FixedNames`) are made by `mktemp`, so a start (`Start`) keeps only
these two of what it finds. `verification-keys`, the paths of the public keys, is
overwritten by each run and removed by none. The model
asks when files are removed: `verify-snapshot.sh` removes its lists itself and
sets no trap, `init-slapd.sh` removes its files at the end and in a trap on exit
(`cleanup`), where a second `TERM` or a failing `unlink` ends the removal. `cut`
names the first of these obstacles.

### Preflight

`at[p]` is the next command of preflight `p` that changes the runtime directory.
A generated snapshot is verified and built in a workspace of its own. The two scripts
that run there begin with `mkdir -p` of the directories they use (`verify-snapshot.sh` at
294 and 224, `init-slapd.sh` at 260), so that a workspace which another preflight has
deleted is made again, without what it held (`Place`); the verification is therefore two
steps, up to the manifest and from the copies on. Custom LDIF
names `/run/openldap/data`: the preflight looks whether anything else is in the
directory (`FindOthers`), claims it, moves what it has verified there
(`MoveInputs`), builds and in the end deletes whatever is there (`Sweep`, file by
file, from the listing that `find` made when it began; a workspace is emptied in one
step, `EmptyOther`, and deleted in another). `root` is what preflights
have put in the directory, `inside` what their workspaces hold. The service beside
them is that of `BuildArtifacts`, of which a preflight notices only whether it is
there.

### HealthMonitor

The container is reduced to what a probe can observe: the commands around the
active manifest (`Record`, `CopyOpens`, `CopyWrites`, `Launch`), expiry, exit,
suspension and a `slapd` that dies or hangs. `probe[c]` is one run of `status.sh`:
file test and clock, revision, deadlines, LDAP query and verdict, each its own
step. `backstop` is the next command of `openldap-expiry-backstop`: inspect, paths,
verify the host's snapshot, ask for the status, stop. `answered` is the snapshot
that LDAP answered from and `sound` whether everything was in order, and no tool failed, since
the activation began; both are history. `ToolFails` is a key that is not readable or a
`podman` that fails by itself: after some of these the script stops the container, after
others it gives up and leaves the rest to its next activation. A `status.sh` that fails is
taken as a `podman exec` that does. `KeepsRuntime` says whether `/run/openldap` is a volume that
outlives the container, as in the Quadlet example, or a scratch directory.

### ExpiryWatchdog

`sleep` counts elapsed seconds, `date` reads the wall clock; the host may set
the wall clock by any of `Leaps` at any time, which also stands for a resume
from suspension. `overrun` counts for how long `slapd` has been running past
expiry by that clock, `since` how long ago the clock was past expiry at all; both are
history. Commands take no time.

### DirectoryModel

`phase` is the loop that the program is in. `ParseUser`, `ParseGroup` and
`ParseBindAccount` are one iteration of the loops of `generate.py` 293-452 on any
item that can stand there; `CompareLists` is what `parse_directory` compares
across the lists; `RenderBase`, `RenderGroup`, `RenderUser` and
`RenderBindAccount` are iterations of `simplified_entries`. `WriteDirectory`
sorts, writes and validates as `generate_snapshot` does. The container's side is
`ValidateInputs`, `import_directory_data` and `verify_built_database` of
`init-slapd.sh`; `slapadd` is external. Strings are atoms with a function `Fold`
for `casefold`; a UUID is a string too, so that it can be a username, and a
reference can name one user by name and another by UUID. The members of a group
keep the references they were resolved from, for `MembershipsAsWritten`.
Entries of one depth are in the order of their rendering; the code sorts them by
DN, which nothing here depends on.

### Publication

`pc` gives each run its next step; the steps follow `initialize` (73-87) and
`main` and `generate_snapshot` (841-993), where `remove` is the handler of the
`try` statement. `DraftFails` and `GenerationFails` are exceptions at any step of
the `with` and the `try` statement; `Interrupt` is a signal that neither handles.
`CreateDefinition` and `CreateOutput` stand for everybody else who uses the
paths; `link` replaces nothing and `rename` replaces an empty directory only.
`catalog` is what `parse_directory` keeps of the schema file, which `EditSchema`
changes at any time.

### AttributeExtensions, ClassExtensions, SchemaExtensions

`attribute_lineage` and `Visit` are one round of the loops of `attribute_lineage`
and `validate_class_ancestors`. Names are what a definition spells; `Fold` is
`casefold`, `Means` and `ClassOf` say what a name names, by any alias or OID, and
`Catalog` which names the schema files define: `slapd` knows more. The schema
(`sup`, `superiors`) and the request are inputs that Init chooses. `Protected` is
what `validate` computes from `MANAGED_ATTRIBUTES` and the reserved names. The
walk over classes keeps the names to look at, each with the classes on its path,
and counts every path (`MaxVisits`); `visited`, and in each item the `branch` of
superiors that led to it, are history that no guard reads. `SchemaExtensions` has the
order of `SchemaCatalog.validate`: both lists parsed, attributes, classes, merge.
What a definition may ask for is stated without the loops: `Admissible` (`Fitting`)
speaks of the least closed set `Above` a name, `AdmissibleClasses` (`Askable`,
`Unfolds`) of the `Lineage` of a class, of circles in it, and of its `Tree`, which has a
node for every path.

### GeneratorInput

`Lstat`, `Open`, `Fstat`, `ReadDefinition` and `ReadPassword` are `read_regular`
(`directory_data.py` 116-148) command by command; between any two the host may
replace the file, remove it or change its mode or text (`Host`), and a descriptor
that is open sees the changes of its own node only. `Resolve` and `Decrypt` are
`Vault.resolve`, `password` and `decrypt` of the value whose `turn` it is, in the
order of the definition. `InlineCredential` looks at the mode of the definition
again. Decryption is a comparison of passwords. Then the extensions of one entry
are validated (`SchemaExtensions`).

## What is checked

| Run | Shows | Bounds |
| --- | --- | --- |
| `entrypoint_safety` | `Inv`, `ServedIsBaseline`, `WatchdogVerdictKept`, `BaselineMovesForward`, `BaselineWasBuilt`, and that the entrypoint implements `DirectoryService` (`ServiceSpec`) | four snapshots: an old and a new revision, a twin of the new revision with other content, a forged one; clock 0..2; any number of restarts, redeployments and signals |
| `entrypoint_liveness` | `ExpiryEndsService`, `UnwatchedServiceEnds`, `ShutdownHonoured` | two snapshots, clock 0..1 |
| `expiry_watchdog` | `OverrunBounded`, `StoppedNearExpiry` | cap and poll of a few units, leaps forward and back |
| `snapshot_verifier` | `Inv`, `AcceptedIsSigned`, `CopiesBounded`, `VerdictOfStillSnapshot` | two file names, contents of 1, 2 and 5 bytes, budget 3; four manifests, of which one is unsigned and one is invalid; three readings of the clock, at the edges of two lifetimes |
| `snapshot_artifacts` | `ArtifactsGone` fails | as above |
| `snapshot_omission` | `ListedFilesAccepted` fails | as above |
| `runtime_directory` | `CleanUnlessCut`, `ImportsOnlyOwn`, `PreflightLeavesNothing` | three interchangeable preflights, or two if one of them is of users and groups; any number of starts of the service |
| `health_monitor` | `Inv`, `ReportIsOfServed`, `StopHasCause`, `ExpiredNotAnswered` | two revisions, one of which expires; clock 0..3; a scratch runtime directory; the backstop's probe and one by an operator; two failures of tools (`MaxFailures`) |
| `stale_status` | `ReportIsOfServed` fails | the same with a runtime volume that outlives the container |
| `directory_model` | `AcceptedIsServable`, `LoginsUnambiguous`, `MembershipsAsWritten`, `OnlyActiveServed` | lists of at most two items; two capitalizations of each name, a username that is another user's UUID, UUIDs shared within a list, across lists and with the base and a container |
| `generator_input` | `OnePrivatePassword`, `VaultLimits`, `NothingStructuralInherited`, `GeneratedKept`, `Storable`, `MergedIfAdmissible`, `InputEnds` | two passwords, up to three values, limit of two values, two edits by the host (`MaxEdits`); 30 schemas of attributes, lists of up to three attributes, of which two are allowed (`MaxAttributes`), depth 2; five classes, schemas with chains, diamonds, circles and unfit superiors, 4 visits |
| `publication` | `Inv`, `PublishedComplete`, `PublishedSchemaSupports`, `NothingLeft`, `NeverReplaced` | two runs of each command, three contents of the schema file |

The bounds are enough for the cases the properties tell apart: rollback needs
an older and a newer revision, conflict a twin, trust an untrusted snapshot;
expiry needs a clock that passes the expiry of one snapshot before, during or
after each command; the byte budget needs a file that fits, a set that fills the
budget exactly and one that exceeds it; the times
of a manifest readings on both sides of their two edges. A clash of two names or UUIDs needs two
items, of one list or of two; a race for a path needs two runs and an outsider.
The number of restarts is not bounded. A replaced password file takes one edit, a
replacement that is put back takes two. A diamond and a circle need three classes
that are free to inherit, and the bounds on depth and visits are small so that
admissible requests reach them. Preflights matter to each other in threes: one
finds the directory free while a second makes its workspace and a third deletes
it. That is also as far as `ImportsOnlyOwn` goes: one whose workspace another has
deleted may empty the directory of a third, and a fourth would then find it free
(`AtMostThree`).

Two MC modules restrict the initial or next states. `MCPreflight` lets preflights
run only while the service stands still, not begun or serving, because that is all
a preflight notices of it. All three of its preflights run if all have custom LDIF, and
two otherwise, as one of users and groups meets the others by its workspace only; the
proof knows no such limit. They are interchangeable (symmetry).
`MCGeneratorInput` combines a rich definition with a simple entry and a rich entry
with a definition that has been read, and of the two lists of an entry one is
always simple, because these parts share no state.

`expiry_watchdog` turns deadlock checking off because its clock ends at
`MaxTime`, and `runtime_directory` because preflights are commands that end; in the
other models the container can always be started again, or what has ended rests
explicitly.

*Fairness.* `FairSpec` assumes weak fairness of the shell, its traps, its phase,
the watchdog's report and the exit of a `slapd` that was sent `TERM`. These are
processes of the operating system that are runnable; `slapd` shuts down on
`TERM`. Nothing is assumed of the host: it need not restart, stop or redeploy,
and `SIGKILL` is never required. `HealthMonitor` assumes weak fairness of the timer
with its commands and of the probes (`BackstopSteps`, `Status`), that its tools fail
finitely often (`MaxFailures`: with a `podman` that never works nothing is stopped),
and nothing of the
container, whose watchdog is suspended in the interesting case; a probe of a
`slapd` that hangs is not enabled. `GeneratorInput` assumes it of the generator,
a single process, and nothing of the host.

### Disagreements with the repository's own statements

* `snapshot_artifacts`: `tests/integration/lifecycle.py:40` says that verified
  plaintext must not outlive a run. When `TERM` arrives during verification, the
  copying loop survives the verifying shell; if it creates a copy between
  `find -delete` and `rmdir`, the removal gives up and the copy and the list
  stay in the runtime volume until the next start.
* `snapshot_omission`: `verify-snapshot.sh:279` says that a snapshot that omits
  a listed file is found. The comparison uses the names that were copied. If
  `jq` fails after part of the list, and the directory lacks just the rest, the
  snapshot is accepted without them.

* `stale_status`: `status.sh:3` says that it reports the active snapshot's revision
  and LDAP's availability. With the runtime volume of
  `examples/quadlet/openldap-example.container:20`, a status that begins during a
  start reads the manifest of the run before, and calls it healthy if the new
  `slapd` answers by the time of the probe.

Three more were met while modelling and are steps of the models, which no property
denies:

* `init-slapd.sh:361-362` turns `TERM` into an exit with cleanup, but the traps stay
  set during the cleanup, so that a second `TERM` ends it and leaves the build's
  files, which `tests/integration/lifecycle.py:40` says must not outlive a run
  (`Terminated` at `cleanup`; `CleanUnlessCut` counts the run as cut short).
* `ARCHITECTURE.md:504-506` has the backstop stop an unhealthy container.
  `ldap_is_available` (`common.sh:126`) and the backstop's `podman exec` have no time
  limit, so that a `slapd` that accepts connections and does not answer keeps the
  backstop waiting (`SlapdHangs`; `ExpiredNotAnswered` is about a `slapd` that answers).
* `preflight-snapshot.sh:23` says that the directory was empty but for the own workspace. Another
  preflight can make its workspace after the search at 38; `ImportsOnlyOwn` therefore
  allows foreign workspaces and excludes foreign inputs.

`ARCHITECTURE.md` lists the start of LDAP before the record of the revision;
the code records first, and `ServedIsBaseline` shows what that order gives: no
client is ever answered from a snapshot that is not recorded.

## What is proved

`SnapshotsAssumption` and `EntrypointAssumption` say only that revisions are
positive integers, that expiry times are natural numbers and that trusted
snapshots are snapshots. From these `EntrypointProofs` proves, for any set of
snapshots and any clock:

* `Invariance` (`Spec => []Inv`). The safety properties are not inductive: that
  `slapd` serves the recorded snapshot depends on what was copied, built and
  admitted many commands before. `BuildInv` says at which labels each of those
  facts holds, `ServingInv` what holds from the record to the exit, and
  `WatchdogInv` that a signal of the watchdog is pending until its flag is set.
  There is one lemma for each group, each with a case per action, or per group
  of actions that leave the facts alone for the same reason.
* `TypeCorrect`, `ServedBaseline` and `VerdictOfWatchdog` follow from `Invariance`.
* `RollbackProtection` and `RecordedAfterBuild`: the only step that writes the
  state file is `RecordRevision` (`OnlyRecordRevision`), and there the invariant
  says that the manifest was admitted and its directory built.
* `Implementation`: each step of the entrypoint is a step of `DirectoryService`
  or leaves `baseline` and `serving` alone.

`ExpiryWatchdogProofs` proves `BoundedOverrun` for every expiry, cap, poll and
set of leaps: while a sleep lasts, what has overrun and what is left of the
sleep add up to at most the cap. `StopNearExpiry` (`StoppedNearExpiry`) says that
`slapd` is stopped no later than one poll after the clock was last past expiry, however it
is set between the reading, the signal and the stop: a pending report and what has elapsed
of the nap that it came in add up to at most a poll. A clock that is set back after the
report does not revoke the stop, in the code neither. The invariant behind both (`Inv`) is
proved and not listed in the run.

`SnapshotVerifierProofs` proves, for any set of names, contents and manifests and
any budget:

* `Invariance`. `AcceptedIsSigned` is about the end of the run only. `Checked` says
  which checks the manifest has passed at each command and, through `Looped`, what
  the loop has copied, compared and listed at each of its own; `OneLoop` that no loop
  of an earlier run is left while a new one verifies, which is what makes an orphaned
  copier harmless; `Measured` that a copy was read within the limit. `Within` is the
  budget: what the loop has measured is no more than its total, also after somebody
  has deleted copies, and the present copy fits what the total leaves. `Undisturbed` is
  about a run without edits and failures: `AsFiles` says that the copies are the files
  of the directory and the total is their size, so that each refusal of the loop has
  its reason in the directory or in the time that was read. One lemma for each, with a
  case per command.
* `SignedBeforeAccepted`, `CopiesWithinBudget` (`CopiesBounded`) and `VerdictSound`
  (`VerdictOfStillSnapshot`) follow.

The bytes of a set of files are the cardinality of a set of pairs (`Bytes`), so that a
file more or less is a union of disjoint sets and no induction over the files is
needed. `SnapshotVerifierAssumption` says that each manifest lists finitely many names,
that sizes are positive, that times are natural numbers, and that `None` and `Torn` are no
contents;
`NoDirectoryAssumption` that `None` is no directory.

`BuildArtifactsProofs` proves that `Inv`, which says which files exist at which
command, is inductive, and from it `UncutRunsAreClean`; and, of preflights beside any
service:

* `PreflightsLeaveNothing`, for any number of them: only who has claimed the directory
  has more than a workspace in it, and deletes all that was there when its cleanup began
  (`Tidy`).
* `OnlyOwnImported` (`ImportsOnlyOwn`), for up to three. The search for other files and
  the build are up to five commands apart, in which others may search, claim, move and
  delete. A workspace may be deleted and made again before the search, but who has found
  the directory free does not make its workspace again (`NoNewWorkspace`); so of two
  preflights that have, the one that looked first has lost its workspace by the
  time the other has something there (`Apart`), to a third that was deleting already (`Supplied`).
  What has been moved can therefore be listed for deletion only when the third
  has ended, and then nobody is left to put anything in its place (`Kept`).
  That is also where a fourth would come in: with four the property does not hold
  (TLC, 38 steps: the third empties the directory of one that is about to build, and the
  fourth finds it free, claims it and moves its input there). The invariant, `ImportInv`, was
  checked by TLC on the run's instance before it was proved; no run repeats that.

`HealthMonitorProofs` proves `ReportsServed` for any revisions, deadlines and
callers where the runtime directory does not outlive the container, which is its
condition and what `stale_status` shows to be needed. `Aligned` relates the active
manifest to the phase of the run, `Follows` what a probe has read to the run it is in.
`StopsWithCause` (`StopHasCause`) rests on `Caused` (`CauseKept`): while everything
is in order and no tool of the backstop has failed, its probe has at each command read
what it should have (`Cleared`), so that the verdict is healthy.

`DirectoryModelProofs` proves, for definitions of any length over any strings and UUIDs:

* `Invariance`. `Parsed` says what the parser has made sure of at each of its loops: distinct
  names and UUIDs in each list and, after `CompareLists`, across them, and members that are
  those the references name. `Listed` says what the renderer has produced so far: `entries`
  is, as a set, the fixed entries and those of the items done, `memberships` the groups
  done of each active user; no two entries agree in the DN or the UUID, and parents stand
  before children. A list with parents first is what the stable sort makes of it
  (`ByDepth`), so the file and the database are that list (`Stored`), and no later check
  can fail. TLC checked this invariant (`Inv`) before it was proved; no run repeats that.
* `AcceptedIsServed`, `OneAccount` (`LoginsUnambiguous`), `ActiveServed` (`OnlyActiveServed`) and
  `MembershipsKept` (`MembershipsAsWritten`) follow. The comparison of memberships in
  `verify_built_database` succeeds because both sides come from `Members`: a user has
  the groups done, and a group the active users among its members.

`GeneratorInputProofs` proves, for every schema and request: `NothingReplaced` and
`MergedIsStorable`, because each accepted attribute has a closed set of suitable
attributes (`AcceptedClosed`; the chain that the loop has found); and
`NothingStructural`, because what the walk has passed has its superiors among what it
passed and what is pending (`WalkCovers`).

`VerdictIsDefinition` (`MergedIfAdmissible`) is the converse as well: what is merged is
admissible, and nothing admissible is refused, for every schema, list and bound.

* Attributes (`AttributesJudged`). `Followed` says where the loop stands: it has found
  distinct attributes of `Above`, each with one superior that is known, and the next name
  is the superior of one of them. Hence a circle is a closed set without a root, a chain
  that is too long has more than `MaxDepth` attributes above it, and a forbidden alias
  means an attribute that is managed, generated or of the configuration
  (`AttributeRefusal`, one lemma per place where the code refuses).
* Classes (`ClassesJudged`). `Placed` gives each item on the list its node in the
  tree, at the level of the number of classes on its path (so that the depth is bounded by
  the number of classes), and says that each of these classes leads to it. `MetOnce` says that
  no node is met twice, so `count` is the cardinality of `MetNodes`. A refusal therefore
  shows a structural class, a circle, or more than `MaxVisits` nodes (`VisitRefusal`).
  A walk that has ended has met the whole tree (`WalkMeetsTree`), and whatever it met below
  a class is closed, so that a circle would have been found there (`WalkNotCyclic`).
  The levels are a recursive function on `Nat`; that it has the values its definition says
  is proved with the least number principle (`LevelDef`), as is every statement about all
  levels.

TLC checked `AttributeVerdict` and `ClassVerdict` on the run's instance before they were
proved; no run repeats that.

The assumptions contain what the code relies on. Schemas are finite. An attribute that is
both managed and in the catalog is listed there by its OID, too, and one of `slapd`'s
configuration by a name that begins with `olc`: the catalog begins with the schema that
`slapd` itself exports (`export_schema.py`), and a file that gave such an OID another name
is a conflict (`check_uniqueness`, `extensions.py` 133). A reserved name is, folded, that of
a generated attribute, so that none is refused for no reason.

Of the whole input it proves `PasswordsPrivate` and `VaultLimited` for any edits of the
host (`InputAsChecked`: what `lstat` and `fstat` found is still so of the descriptor, and the
count is that of the values resolved so far), and that the generator implements both
loops of the extensions (`ImplementsAttributes`, `ImplementsClasses`), so that the
properties above hold of it; that only what both loops have accepted is merged is
`MergedLast`.

`PublicationProofs` proves, for any number of runs and any schema contents:

* `Invariance`: `DraftOf` and `StagingOf` say what a run has at each of its
  steps. This is needed because `PublishedComplete` speaks of the moment of the
  rename only, and what is renamed was put together in six steps before. Beside
  `PublicationAssumption` it rests on `NoPathAssumption`, that `None` is no file.
* `CompleteOnceVisible`, `SchemaSupports` and `CleansUp` follow from it;
  `FirstPublisherWins` (`NeverReplaced`) needs no invariant, as it rests on the
  check that `link` and `rename` make themselves.

Only model-checked: the liveness properties (`ExpiryEndsService`, `UnwatchedServiceEnds`,
`ShutdownHonoured`, `ExpiredNotAnswered`, `InputEnds`), which rest on fairness.

## What is not modelled

The contents of LDIF, manifests and configuration; cryptography; whether a
rename survives a power failure; listener settings and TLS; failures of `rmdir`,
`unlink`, `find` or `rmtree` for reasons other than those named (`rmtree` ignores
errors, so that a failed run may leave its staging directory; and a pipe has the status of
its last command, so that `record_snapshot_revision`, at 66, would record a revision
without a digest if `sha256sum` failed, which the next start refuses). In `Entrypoint` a
`slapd` that was sent `TERM` ends; one that does not is killed by podman after its
stop timeout, which is `Kill`.
`Entrypoint` takes the verification as all or nothing; that this hides
`snapshot_omission` is why `SnapshotVerifier` exists, and what the phases leave in
the runtime volume is in `BuildArtifacts`.

* `runtime_limits.py` clamps one number and replaces itself by another program; it
  has no state that anything else reads.
* `server_config.py` compares custom configuration with tables of allowed attributes;
  a model would be a copy of the tables.
* Custom LDIF: the rules of `directory_data.py` for entries that the generator did
  not render are conditions on one entry each, beside the parsing of LDIF itself.
* The profile fields and lifetimes of a definition, the schema of a manifest and the
  choice of keys are one condition each (`ValidateFields`, `WellFormed`).
* Password hashing, schema export and the traceability table are single-shot tools
  without state.

## Plan

1. *Done:* `RevisionState`, `DirectoryService`, `Entrypoint`, `ExpiryWatchdog`,
   `SnapshotVerifier`, `BuildArtifacts`, `Preflight`, `HealthMonitor`, `DirectoryModel`,
   `Publication`, `AttributeExtensions`, `ClassExtensions`, `SchemaExtensions`,
   `GeneratorInput`; the proofs above.
2. `Deployment`: systemd's restart policy and podman's own health kill around the
   container of `HealthMonitor`.
3. Pure algorithms against reference definitions: open-file clamp, lifetimes of a
   manifest and the limits its verification checks.
4. Custom LDIF: entries without UUIDs, `config_files`, the health access check.
