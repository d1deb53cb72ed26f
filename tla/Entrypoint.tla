------------------------------ MODULE Entrypoint ------------------------------
(***************************************************************************)
(* scripts/entrypoint.sh: one container that verifies the deployed         *)
(* snapshot, builds the directory from it, records its revision and then   *)
(* supervises slapd and the expiry watchdog.  The shell is one process,    *)
(* stepping command by command (pc); its traps run between commands.  Its  *)
(* startup phase, slapd and the watchdog are processes of their own, and   *)
(* the host may replace the snapshot directory, send TERM, let time pass   *)
(* or kill the container at any moment.  /state and /run/openldap outlive  *)
(* the container.                                                          *)
(***************************************************************************)
EXTENDS RevisionState

CONSTANTS Trusted,    \* signature, schema and directory ID are as required
          ExpiresAt,  \* expires_at of a manifest
          MaxTime     \* bound on the clock

ASSUME EntrypointAssumption ==
  /\ Trusted \subseteq Snapshots
  /\ ExpiresAt \in [Snapshots -> Nat]
  /\ MaxTime \in Nat

VARIABLES
  deployed,            \* what the host's snapshot directory holds
  now,                 \* the wall clock
  revision_state,      \* /state/highest-revision
  verified_manifest,   \* verified-manifest.json
  verified_files,      \* verified-snapshot/ and verified-files; None if absent or partial
  database,            \* slapd.d/ and data/; None if empty or partial
  active_manifest,     \* active-manifest.json; None if absent or torn
  pc,                  \* the next command of the shell
  exit_code,           \* status the shell is going to leave, or has left, with
  signals,             \* caught by the shell, trap not run yet
  shutdown_requested, snapshot_expired, watchdog_failed,
  phase,               \* what the startup phase does next
  phase_status,        \* exit status of a phase that is done
  phase_termed,        \* TERM was forwarded to the phase
  slapd,               \* "stopping": it was sent TERM and still serves
  watchdog             \* what became of the expiry watchdog

host      == <<deployed, now>>
files     == <<verified_manifest, verified_files, database, active_manifest>>
flags     == <<shutdown_requested, snapshot_expired, watchdog_failed>>
phaseVars == <<phase, phase_status, phase_termed>>
storage   == <<revision_state, files>>
shell     == <<pc, exit_code, signals, flags>>
servers   == <<slapd, watchdog>>
children  == <<phaseVars, servers>>
vars      == <<host, storage, shell, children>>

VerifyStages == {"verify.manifest", "verify.times", "verify.files"}
InitStages   == {"init.reset", "init.import", "init.clean"}
Startup      == {"prepare", "verify.fork", "verify.pid", "verify.wait", "revision",
                 "init.fork", "init.pid", "init.wait", "remove", "expiry", "record",
                 "truncate", "activate", "slapd.fork"}
Supervision  == {"slapd.pid", "shutdown.check", "slapd.wait", "watchdog.fork",
                 "watchdog.pidfile", "poll", "poll.watchdog", "poll.flags", "reap", "result"}

Opt == Snapshots \cup {None}

StorageTypes ==
  /\ deployed \in Snapshots /\ now \in Nat
  /\ revision_state \in Records
  /\ verified_manifest \in Opt /\ verified_files \in Opt
  /\ database \in Opt /\ active_manifest \in Opt

ShellTypes ==
  /\ pc \in Startup \cup Supervision \cup {"cleanup", "exited"}
  /\ exit_code \in Nat
  /\ signals \subseteq {"TERM", "USR1", "USR2"}
  /\ shutdown_requested \in BOOLEAN /\ snapshot_expired \in BOOLEAN
  /\ watchdog_failed \in BOOLEAN

ChildTypes ==
  /\ phase \in {"none", "done"} \cup VerifyStages \cup InitStages
  /\ phase_status \in Nat /\ phase_termed \in BOOLEAN
  /\ slapd \in {"none", "running", "stopping", "exited", "failed"}
  /\ watchdog \in {"none", "watching", "reported", "erred", "silent", "killed"}

TypeOK == StorageTypes /\ ShellTypes /\ ChildTypes

\* A fresh deployment: an empty runtime volume, any state volume.
Init ==
  /\ deployed \in Snapshots /\ now = 0
  /\ revision_state \in {NoRecord, BadRecord} \cup {Accepted(s) : s \in Trusted}
                        \cup {LegacyRecord(Revision[s]) : s \in Trusted}
  /\ verified_manifest = None /\ verified_files = None
  /\ database = None /\ active_manifest = None
  /\ pc = "exited" /\ exit_code = 0 /\ signals = {}
  /\ shutdown_requested = FALSE /\ snapshot_expired = FALSE /\ watchdog_failed = FALSE
  /\ phase = "none" /\ phase_status = 0 /\ phase_termed = FALSE
  /\ slapd = "none" /\ watchdog = "none"

-----------------------------------------------------------------------------
(* Shared steps.                                                           *)

SlapdAlive == slapd \in {"running", "stopping"}

\* startup_phase_pid and slapd_pid are known only after their assignment.
PhasePidKnown == pc \in {"verify.wait", "init.wait"}
SlapdPidKnown == pc \in (Supervision \ {"slapd.pid"}) \cup {"cleanup"}

\* kill -TERM of slapd; a process that is gone is not affected.
SlapdAfterTerm == IF slapd = "running" THEN "stopping" ELSE slapd

\* The shell's next command is the one at label.  Pending traps come first.
At(label) == pc = label /\ signals = {}

Goto(label) == pc' = label /\ UNCHANGED exit_code

\* remove_verified_snapshot || true, then return: common to all later exits.
Leave(status) == pc' = "cleanup" /\ exit_code' = status

\* The container's first process is gone, and every other process with it.
Exit(status) ==
  /\ pc' = "exited" /\ exit_code' = status
  /\ signals' = {}
  /\ phase' = "none" /\ phase_status' = 0 /\ phase_termed' = FALSE
  /\ slapd' = "none"
  /\ watchdog' = "none"

-----------------------------------------------------------------------------
(* main, up to the supervision of slapd.                                   *)

Start ==
  /\ pc = "exited"
  /\ Goto("prepare")
  /\ shutdown_requested' = FALSE /\ snapshot_expired' = FALSE /\ watchdog_failed' = FALSE
  /\ UNCHANGED <<host, storage, signals, children>>

\* Limits, runtime directory, leftovers of an earlier run, configuration.
Prepare ==
  /\ At("prepare")
  /\ verified_files' = None
  /\ Goto("verify.fork")
  /\ UNCHANGED <<host, revision_state, verified_manifest, database,
                 active_manifest, signals, flags, children>>

PrepareFails ==
  /\ At("prepare")
  /\ verified_files' \in {verified_files, None}
  /\ \E status \in {EXIT_USAGE, EXIT_INTERNAL} : Exit(status)
  /\ UNCHANGED <<host, revision_state, verified_manifest, database,
                 active_manifest, flags>>

\* run_startup_phase: fork, assign startup_phase_pid, wait.
ForkPhase(label, next, stage) ==
  /\ At(label)
  /\ Goto(next)
  /\ phase' = stage /\ phase_status' = 0 /\ phase_termed' = FALSE
  /\ UNCHANGED <<host, storage, signals, flags, servers>>

ForkVerify == ForkPhase("verify.fork", "verify.pid", "verify.manifest")
ForkInit   == ForkPhase("init.fork", "init.pid", "init.reset")

AssignPid(label, next) ==
  /\ At(label)
  /\ Goto(next)
  /\ UNCHANGED <<host, storage, signals, flags, children>>

AssignPhasePid ==
  AssignPid("verify.pid", "verify.wait") \/ AssignPid("init.pid", "init.wait")

\* Variant: main goes on after a phase that failed.
PhaseReturnsUnchecked(label, next) ==
  /\ At(label)
  /\ phase = "done"
  /\ phase' = "none" /\ UNCHANGED <<phase_status, phase_termed>>
  /\ IF shutdown_requested THEN Leave(0) ELSE Goto(next)
  /\ UNCHANGED <<host, storage, signals, flags, servers>>

\* The wait returns and main looks at the shutdown request and the status.
\* A wait cut short by a trap is taken up again until the phase is gone.
PhaseReturns(label, next) ==
  /\ At(label)
  /\ phase = "done"
  /\ phase' = "none" /\ UNCHANGED <<phase_status, phase_termed>>
  /\ CASE shutdown_requested -> Leave(0)
       [] ~shutdown_requested /\ phase_status # 0 -> Leave(phase_status)
       [] OTHER -> Goto(next)
  /\ UNCHANGED <<host, storage, signals, flags, servers>>

VerifyReturns == PhaseReturns("verify.wait", "revision")
InitReturns   == PhaseReturns("init.wait", "remove")

\* Variant: the revision is recorded as soon as it is found acceptable.
ValidateRecordsAtOnce ==
  /\ At("revision")
  /\ IF Validate(verified_manifest, revision_state) = 0
       THEN Goto("init.fork") /\ revision_state' = Accepted(verified_manifest)
       ELSE Leave(EXIT_SNAPSHOT) /\ UNCHANGED revision_state
  /\ UNCHANGED <<host, files, signals, flags, children>>

\* validate_snapshot_revision; reading the manifest can fail too.
ValidateRevision ==
  /\ At("revision")
  /\ \E status \in {Validate(verified_manifest, revision_state), EXIT_INTERNAL} :
       IF status = 0 THEN Goto("init.fork") ELSE Leave(status)
  /\ UNCHANGED <<host, storage, signals, flags, children>>

RemoveVerified ==
  /\ At("remove")
  /\ verified_files' = None
  /\ Goto("expiry")
  /\ UNCHANGED <<host, revision_state, verified_manifest, database,
                 active_manifest, signals, flags, children>>

\* Variant: nothing is recorded for a revision that is recorded already.
CheckExpirySkipsReplay ==
  /\ At("expiry")
  /\ now < ExpiresAt[verified_manifest]
  /\ Goto(IF Revision[verified_manifest] = revision_state.revision THEN "truncate" ELSE "record")
  /\ UNCHANGED <<host, storage, signals, flags, children>>

CheckExpiry ==
  /\ At("expiry")
  /\ now < ExpiresAt[verified_manifest]
  /\ Goto("record")
  /\ UNCHANGED <<host, storage, signals, flags, children>>

FindExpired ==
  /\ At("expiry")
  /\ now >= ExpiresAt[verified_manifest]
  /\ Exit(EXIT_EXPIRED)
  /\ UNCHANGED <<host, storage, flags>>

\* record_snapshot_revision: the rename is the only visible write.
RecordRevision ==
  /\ At("record")
  /\ revision_state' = Accepted(verified_manifest)
  /\ Goto("truncate")
  /\ UNCHANGED <<host, files, signals, flags, children>>

\* cp opens active-manifest.json for writing before it copies anything.
TruncateActive ==
  /\ At("truncate")
  /\ active_manifest' = None
  /\ Goto("activate")
  /\ UNCHANGED <<host, revision_state, verified_manifest, verified_files, database,
                 signals, flags, children>>

CopyActive ==
  /\ At("activate")
  /\ active_manifest' = verified_manifest
  /\ Goto("slapd.fork")
  /\ UNCHANGED <<host, revision_state, verified_manifest, verified_files, database,
                 signals, flags, children>>

\* die 70: the files cannot be removed, replaced or written.
StorageFails ==
  /\ signals = {}
  /\ pc \in {"remove", "expiry", "record", "truncate", "activate"}
  /\ Exit(EXIT_INTERNAL)
  /\ UNCHANGED <<host, storage, flags>>

-----------------------------------------------------------------------------
(* supervise_slapd.                                                        *)

ForkSlapd ==
  /\ At("slapd.fork")
  /\ slapd' = "running"
  /\ Goto("slapd.pid")
  /\ UNCHANGED <<host, storage, signals, flags, phaseVars, watchdog>>

AssignSlapdPid == AssignPid("slapd.pid", "shutdown.check")

\* Variant: a shutdown request is left to the trap alone.
CheckShutdownNever ==
  /\ At("shutdown.check")
  /\ Goto("watchdog.fork")
  /\ UNCHANGED <<host, storage, signals, flags, children>>

\* A shutdown trapped before slapd_pid was assigned reached no process.
CheckShutdown ==
  /\ At("shutdown.check")
  /\ IF shutdown_requested
       THEN slapd' = SlapdAfterTerm /\ pc' = "slapd.wait" /\ exit_code' = 0
       ELSE Goto("watchdog.fork") /\ UNCHANGED slapd
  /\ UNCHANGED <<host, storage, signals, flags, phaseVars, watchdog>>

\* This wait is not repeated: another signal ends it while slapd still stops.
SlapdWaitReturns ==
  /\ At("slapd.wait")
  /\ Leave(exit_code)
  /\ UNCHANGED <<host, storage, signals, flags, children>>

ForkWatchdog ==
  /\ At("watchdog.fork")
  /\ watchdog' = "watching"
  /\ Goto("watchdog.pidfile")
  /\ UNCHANGED <<host, storage, signals, flags, phaseVars, slapd>>

KillWatchdog == watchdog' = IF watchdog = "watching" THEN "killed" ELSE watchdog

WritePidFile ==
  /\ At("watchdog.pidfile")
  /\ Goto("poll")
  /\ UNCHANGED <<host, storage, signals, flags, children>>

PidFileFails ==
  /\ At("watchdog.pidfile")
  /\ KillWatchdog /\ slapd' = SlapdAfterTerm
  /\ pc' = "slapd.wait" /\ exit_code' = EXIT_INTERNAL
  /\ UNCHANGED <<host, storage, signals, flags, phaseVars>>

\* process_is_running slapd, once a second.
PollSlapd ==
  /\ At("poll")
  /\ Goto(IF SlapdAlive THEN "poll.watchdog" ELSE "reap")
  /\ UNCHANGED <<host, storage, signals, flags, children>>

\* A watchdog that has sent its signal may or may not have exited yet.
PollWatchdog ==
  /\ At("poll.watchdog")
  /\ \/ watchdog \in {"watching", "reported", "erred"} /\ Goto("poll")
     \/ watchdog \in {"reported", "erred", "silent"} /\ Goto("poll.flags")
  /\ UNCHANGED <<host, storage, signals, flags, children>>

\* Variant: the polling loop does not look after the watchdog.
PollFlagsNever ==
  /\ At("poll.flags")
  /\ Goto("poll")
  /\ UNCHANGED <<host, storage, signals, flags, children>>

\* The watchdog is gone.  Unless a trap explains it, fail_watchdog.
PollFlags ==
  /\ At("poll.flags")
  /\ Goto("poll")
  /\ IF snapshot_expired \/ shutdown_requested
       THEN UNCHANGED <<watchdog_failed, slapd>>
       ELSE watchdog_failed' = TRUE /\ slapd' = SlapdAfterTerm
  /\ UNCHANGED <<host, storage, signals, shutdown_requested, snapshot_expired,
                 phaseVars, watchdog>>

\* Variant: the watchdog is stopped after the verdict, when the shell exits.
ReapOnly ==
  /\ At("reap")
  /\ Goto("result")
  /\ UNCHANGED <<host, storage, signals, flags, children>>

\* wait slapd; stop_watchdog.
Reap ==
  /\ At("reap")
  /\ KillWatchdog
  /\ Goto("result")
  /\ UNCHANGED <<host, storage, signals, flags, phaseVars, slapd>>

Verdict ==
  CASE snapshot_expired -> EXIT_EXPIRED
    [] ~snapshot_expired /\ watchdog_failed -> EXIT_RUNTIME
    [] ~snapshot_expired /\ ~watchdog_failed /\ shutdown_requested -> 0
    [] OTHER -> IF slapd = "failed" THEN EXIT_RUNTIME ELSE 0

SuperviseReturns ==
  /\ At("result")
  /\ Leave(Verdict)
  /\ UNCHANGED <<host, storage, signals, flags, children>>

\* remove_verified_snapshot || true, and the shell exits.
Cleanup ==
  /\ At("cleanup")
  /\ verified_files' \in {None, verified_files}
  /\ Exit(exit_code)
  /\ UNCHANGED <<host, revision_state, verified_manifest, database,
                 active_manifest, flags>>

-----------------------------------------------------------------------------
(* The traps of the shell.                                                 *)

forward_shutdown ==
  /\ "TERM" \in signals
  /\ signals' = signals \ {"TERM"}
  /\ shutdown_requested' = TRUE
  /\ phase_termed' = (phase_termed \/ (PhasePidKnown /\ phase # "done"))
  /\ slapd' = IF SlapdPidKnown THEN SlapdAfterTerm ELSE slapd
  /\ UNCHANGED <<host, storage, pc, exit_code, snapshot_expired, watchdog_failed,
                 phase, phase_status, watchdog>>

expire_snapshot ==
  /\ "USR1" \in signals
  /\ signals' = signals \ {"USR1"}
  /\ snapshot_expired' = TRUE
  /\ slapd' = SlapdAfterTerm
  /\ UNCHANGED <<host, storage, pc, exit_code, shutdown_requested, watchdog_failed,
                 phaseVars, watchdog>>

fail_watchdog ==
  /\ "USR2" \in signals
  /\ signals' = signals \ {"USR2"}
  /\ watchdog_failed' = TRUE
  /\ slapd' = SlapdAfterTerm
  /\ UNCHANGED <<host, storage, pc, exit_code, shutdown_requested,
                 snapshot_expired, phaseVars, watchdog>>

-----------------------------------------------------------------------------
(* verify-snapshot.sh and init-slapd.sh, as the startup phase.             *)

PhaseExit(status) ==
  /\ phase' = "done" /\ phase_status' = status
  /\ UNCHANGED phase_termed

PhaseGoto(stage) == phase' = stage /\ UNCHANGED <<phase_status, phase_termed>>

\* The shell of verify-snapshot.sh has no trap: TERM ends it where it is.
VerifyKilled ==
  /\ phase \in VerifyStages /\ phase_termed
  /\ PhaseExit(143)
  /\ UNCHANGED <<host, storage, shell, servers>>

\* The signature is checked on a private copy, which becomes the manifest.
VerifyManifest ==
  /\ phase = "verify.manifest" /\ ~phase_termed
  /\ deployed \in Trusted
  /\ verified_manifest' = deployed
  /\ PhaseGoto("verify.times")
  /\ UNCHANGED <<host, revision_state, verified_files, database, active_manifest,
                 shell, servers>>

\* A signed manifest can still have a wrong schema or directory ID.
VerifyManifestFails ==
  /\ phase = "verify.manifest" /\ ~phase_termed
  /\ verified_manifest' \in {verified_manifest, deployed}
  /\ \E status \in {EXIT_USAGE, EXIT_SNAPSHOT, EXIT_INPUT, EXIT_INTERNAL} : PhaseExit(status)
  /\ UNCHANGED <<host, revision_state, verified_files, database, active_manifest,
                 shell, servers>>

\* It also fails if the manifest is too far ahead of the clock, or if the clock or
\* a field cannot be read.
VerifyTimes ==
  /\ phase = "verify.times" /\ ~phase_termed
  /\ \/ now < ExpiresAt[verified_manifest] /\ PhaseGoto("verify.files")
     \/ now >= ExpiresAt[verified_manifest] /\ PhaseExit(EXIT_EXPIRED)
     \/ \E status \in {EXIT_SNAPSHOT, EXIT_INTERNAL} : PhaseExit(status)
  /\ UNCHANGED <<host, storage, shell, servers>>

\* Private copies with the digests the manifest gives, or failure, whatever
\* the host puts into the snapshot directory meanwhile.
VerifyFiles ==
  /\ phase = "verify.files" /\ ~phase_termed
  /\ \/ verified_files' = verified_manifest /\ PhaseExit(0)
     \/ verified_files' = None /\ \E status \in {EXIT_SNAPSHOT, EXIT_INTERNAL} : PhaseExit(status)
  /\ UNCHANGED <<host, revision_state, verified_manifest, database,
                 active_manifest, shell, servers>>

\* The trap of init-slapd.sh runs when the current child has ended.
InitTrapped ==
  /\ phase \in InitStages /\ phase_termed
  /\ verified_files' = None
  /\ PhaseExit(EXIT_INTERNAL)
  /\ UNCHANGED <<host, revision_state, verified_manifest, database,
                 active_manifest, shell, servers>>

\* Every failure before the database is complete, with the cleanup on exit.
InitFails ==
  /\ phase \in InitStages
  /\ verified_files' = None
  /\ \E status \in {EXIT_USAGE, EXIT_SNAPSHOT, EXIT_INPUT, EXIT_INTERNAL} : PhaseExit(status)
  /\ UNCHANGED <<host, revision_state, verified_manifest, database,
                 active_manifest, shell, servers>>

InitReset ==
  /\ phase = "init.reset"
  /\ database' = None
  /\ PhaseGoto("init.import")
  /\ UNCHANGED <<host, revision_state, verified_manifest, verified_files,
                 active_manifest, shell, servers>>

\* Variant: slapadd reads the snapshot directory instead of the private copies.
InitImportDeployed ==
  /\ phase = "init.import"
  /\ database' = deployed
  /\ PhaseGoto("init.clean")
  /\ UNCHANGED <<host, revision_state, verified_manifest, verified_files,
                 active_manifest, shell, servers>>

\* slapadd of the private copies, index, readback and comparison.
InitImport ==
  /\ phase = "init.import"
  /\ database' = verified_files
  /\ PhaseGoto("init.clean")
  /\ UNCHANGED <<host, revision_state, verified_manifest, verified_files,
                 active_manifest, shell, servers>>

InitClean ==
  /\ phase = "init.clean"
  /\ verified_files' = None
  /\ PhaseExit(0)
  /\ UNCHANGED <<host, revision_state, verified_manifest, database,
                 active_manifest, shell, servers>>

-----------------------------------------------------------------------------
(* The watchdog and slapd.                                                 *)

\* Variant: the watchdog goes by the manifest that is deployed now.
WatchdogReportsDeployed ==
  /\ watchdog = "watching"
  /\ now >= ExpiresAt[deployed]
  /\ watchdog' = "reported"
  /\ signals' = signals \cup {"USR1"}
  /\ UNCHANGED <<host, storage, pc, exit_code, flags, phaseVars, slapd>>

WatchdogReports ==
  /\ watchdog = "watching"
  /\ now >= ExpiresAt[verified_manifest]
  /\ watchdog' = "reported"
  /\ signals' = signals \cup {"USR1"}
  /\ UNCHANGED <<host, storage, pc, exit_code, flags, phaseVars, slapd>>

\* jq or date fails; the subshell says so before it exits.
WatchdogErrs ==
  /\ watchdog = "watching"
  /\ watchdog' = "erred"
  /\ signals' = signals \cup {"USR2"}
  /\ UNCHANGED <<host, storage, pc, exit_code, flags, phaseVars, slapd>>

\* sleep fails, or the watchdog is killed: it is gone without a word.
WatchdogVanishes ==
  /\ watchdog = "watching"
  /\ watchdog' = "silent"
  /\ UNCHANGED <<host, storage, shell, phaseVars, slapd>>

SlapdStops ==
  /\ slapd = "stopping"
  /\ slapd' \in {"exited", "failed"}
  /\ UNCHANGED <<host, storage, shell, phaseVars, watchdog>>

SlapdQuits ==
  /\ slapd = "running"
  /\ slapd' \in {"exited", "failed"}
  /\ UNCHANGED <<host, storage, shell, phaseVars, watchdog>>

-----------------------------------------------------------------------------
(* The host.                                                               *)

Deploy ==
  /\ deployed' \in Snapshots \ {deployed}
  /\ UNCHANGED <<now, storage, shell, children>>

Tick ==
  /\ now < MaxTime
  /\ now' = now + 1
  /\ UNCHANGED <<deployed, storage, shell, children>>

\* podman stop.  A second TERM matters only to a phase the first one missed.
Terminate ==
  /\ pc # "exited"
  /\ "TERM" \notin signals
  /\ ~shutdown_requested \/ (PhasePidKnown /\ phase # "done" /\ ~phase_termed)
  /\ signals' = signals \cup {"TERM"}
  /\ UNCHANGED <<host, storage, pc, exit_code, flags, children>>

\* SIGKILL, an out-of-memory kill or a host crash.
Kill ==
  /\ pc # "exited"
  /\ Exit(137)
  /\ UNCHANGED <<host, storage, flags>>

-----------------------------------------------------------------------------
Traps == forward_shutdown \/ expire_snapshot \/ fail_watchdog

Shell ==
  \/ Prepare \/ PrepareFails
  \/ ForkVerify \/ AssignPhasePid \/ VerifyReturns
  \/ ValidateRevision
  \/ ForkInit \/ InitReturns
  \/ RemoveVerified \/ CheckExpiry \/ FindExpired \/ RecordRevision
  \/ TruncateActive \/ CopyActive \/ StorageFails
  \/ ForkSlapd \/ AssignSlapdPid \/ CheckShutdown \/ SlapdWaitReturns
  \/ ForkWatchdog \/ WritePidFile \/ PidFileFails
  \/ PollSlapd \/ PollWatchdog \/ PollFlags
  \/ Reap \/ SuperviseReturns \/ Cleanup

Phase ==
  \/ VerifyKilled \/ VerifyManifest \/ VerifyManifestFails \/ VerifyTimes \/ VerifyFiles
  \/ InitTrapped \/ InitFails \/ InitReset \/ InitImport \/ InitClean

Watchdog == WatchdogReports \/ WatchdogErrs \/ WatchdogVanishes

Host == Start \/ Deploy \/ Tick \/ Terminate \/ Kill

Next == Shell \/ Traps \/ Phase \/ Watchdog \/ SlapdStops \/ SlapdQuits \/ Host

\* Processes that can run do run, slapd obeys TERM, and nothing else is
\* promised: the host need not restart, stop or redeploy anything.
Fairness ==
  /\ WF_vars(Shell) /\ WF_vars(Traps) /\ WF_vars(Phase)
  /\ WF_vars(WatchdogReports) /\ WF_vars(SlapdStops)

Spec == Init /\ [][Next]_vars

FairSpec == Spec /\ Fairness

-----------------------------------------------------------------------------
(* Properties.                                                             *)

\* Whatever is deployed, killed or restarted in between, the recorded
\* baseline never goes back to an older revision and never gives a revision
\* that has a digest another one (IP0003; revision-state.sh checks at one
\* point and writes at another, with the whole build between them).
BaselineMovesForward ==
  [][/\ revision_state.form # "malformed"
     /\ \/ revision_state'.revision > revision_state.revision
        \/ /\ revision_state'.revision = revision_state.revision
           /\ revision_state.digest = None]_revision_state

\* A snapshot becomes the baseline only once its directory has been built
\* and read back: one that fails to import must not lock out its successor.
BaselineWasBuilt ==
  [][/\ database \in Trusted
     /\ revision_state' = Accepted(database)]_revision_state

\* While slapd answers, its database, the recorded baseline, the manifest the
\* watchdog goes by and the manifest status.sh reports are one trusted
\* snapshot, although each was written at another time.
ServedIsBaseline ==
  SlapdAlive =>
    /\ database \in Trusted
    /\ revision_state = Accepted(database)
    /\ verified_manifest = database
    /\ active_manifest = database

\* What the watchdog signalled decides the exit status, even when slapd ends
\* by itself at the same moment: 78 keeps the service manager from
\* restarting an expired snapshot, and 75 makes it restart after a fault.
WatchdogVerdictKept ==
  pc = "cleanup" =>
    /\ watchdog = "reported" => exit_code \in {EXIT_EXPIRED, EXIT_INTERNAL}
    /\ watchdog = "erred" => exit_code \in {EXIT_RUNTIME, EXIT_INTERNAL}

\* An expired snapshot does not stay in service, also when its watchdog
\* vanishes or the shutdown of slapd races with it (IP0004).
ExpiryEndsService == (SlapdAlive /\ now >= ExpiresAt[database]) ~> ~SlapdAlive

\* slapd is not left running without a watchdog.
UnwatchedServiceEnds == (slapd = "running" /\ watchdog = "silent") ~> slapd # "running"

\* A shutdown request ends the container wherever it arrives, also between
\* the fork of a child and the assignment of its process ID.
ShutdownHonoured == shutdown_requested ~> pc = "exited"

\* Why ServedIsBaseline holds.  Each part says at which commands of the shell,
\* and stages of its phase, a fact established earlier can be relied on.
PhaseIsWaitedFor ==
  /\ phase \in VerifyStages => pc \in {"verify.pid", "verify.wait"}
  /\ phase \in InitStages => pc \in {"init.pid", "init.wait"}
  /\ phase = "done" => pc \in {"verify.pid", "verify.wait", "init.pid", "init.wait"}

PhaseSucceeded == phase = "done" /\ phase_status = 0

Verified ==
  \/ phase \in {"verify.times", "verify.files"} \cup InitStages
  \/ PhaseSucceeded
  \/ pc \in {"revision", "init.fork", "remove", "expiry", "record"}

Copied ==
  \/ PhaseSucceeded /\ pc \in {"verify.pid", "verify.wait"}
  \/ pc \in {"revision", "init.fork"}
  \/ phase \in InitStages

Admitted == pc \in {"init.fork", "init.pid", "init.wait", "remove", "expiry", "record"}

Built ==
  \/ phase = "init.clean"
  \/ PhaseSucceeded /\ pc \in {"init.pid", "init.wait"}
  \/ pc \in {"remove", "expiry", "record"}

Recorded == pc \in {"truncate", "activate", "slapd.fork"} \cup Supervision

Activated == pc \in {"slapd.fork"} \cup Supervision

BuildInv ==
  /\ PhaseIsWaitedFor
  /\ Verified => verified_manifest \in Trusted
  /\ Copied => verified_files = verified_manifest
  /\ Admitted => Validate(verified_manifest, revision_state) = 0
  /\ Built => database = verified_manifest

ServingInv ==
  /\ Recorded => /\ verified_manifest \in Trusted
                 /\ database = verified_manifest
                 /\ revision_state = Accepted(verified_manifest)
  /\ Activated => active_manifest = verified_manifest
  /\ SlapdAlive => pc \in Supervision \cup {"cleanup"}
  /\ ServedIsBaseline

\* The signals of the watchdog are not lost: until the trap has run, the signal
\* is pending, and afterwards the flag of the trap is set.
WatchdogInv ==
  /\ pc \in Startup \cup {"slapd.pid", "shutdown.check", "watchdog.fork", "exited"} =>
       watchdog = "none"
  /\ "USR1" \in signals \/ (snapshot_expired /\ pc # "exited") => watchdog = "reported"
  /\ "USR2" \in signals => watchdog = "erred"
  /\ (watchdog_failed /\ pc # "exited") => watchdog \in {"erred", "silent"}
  /\ watchdog = "reported" => "USR1" \in signals \/ snapshot_expired
  /\ watchdog = "erred" => "USR2" \in signals \/ watchdog_failed
  /\ pc = "poll.flags" => watchdog \in {"reported", "erred", "silent"}
  /\ pc \in {"result", "cleanup", "slapd.wait"} => watchdog # "watching"
  /\ pc = "slapd.wait" => exit_code = EXIT_INTERNAL \/ watchdog = "none"
  /\ WatchdogVerdictKept

\* What the shell has checked is still so when it relies on it: nothing that
\* runs beside it, and no restart, invalidates a check it has made.
Inv == TypeOK /\ BuildInv /\ ServingInv /\ WatchdogInv

\* The promise of DirectoryService: the entrypoint implements it.
Serving == IF SlapdAlive THEN database ELSE None

Service == INSTANCE DirectoryService WITH
  baseline <- revision_state,
  serving  <- Serving

ServiceSpec == Service!Spec
=============================================================================
