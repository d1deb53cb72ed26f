---------------------------- MODULE HealthMonitor ----------------------------
(***************************************************************************)
(* How the health of a running directory is found out and acted upon: the  *)
(* probe scripts/status.sh with healthcheck.sh, which reads the active     *)
(* manifest in several commands, and examples/systemd/                     *)
(* openldap-expiry-backstop, which a timer of the host runs against the    *)
(* container's name.  Both run while the container starts, expires, fails, *)
(* is suspended, restarted, and while the host replaces the snapshot.      *)
(* Entrypoint models the container in full; here are its steps that the    *)
(* two can observe.                                                        *)
(***************************************************************************)
EXTENDS Integers

CONSTANTS Revisions,    \* revisions of the snapshots
          Soft, Hard,   \* soft_expires_at and expires_at of each
          MaxTime,      \* bound: the clock stops there
          KeepsRuntime, \* /run/openldap is a volume that outlives the container
          CanHang,      \* slapd may stop answering without closing its socket
          MaxFailures,  \* bound: how often a tool of the backstop fails
          Callers,      \* who asks for the status: "backstop" and others
          None, Torn    \* no file; a file that cp has opened and not yet written

States == {"healthy", "soft-expired", "expired", "unavailable"}

ASSUME HealthMonitorAssumption ==
  /\ Revisions \subseteq Nat \ {0}
  /\ Soft \in [Revisions -> Nat] /\ Hard \in [Revisions -> Nat]
  /\ \A r \in Revisions : Soft[r] < Hard[r]
  /\ MaxTime \in Nat /\ MaxFailures \in Nat /\ {KeepsRuntime, CanHang} \subseteq BOOLEAN
  /\ "backstop" \in Callers
  /\ None \notin Revisions /\ None \notin States /\ Torn \notin Revisions \cup {None}

VARIABLES
  now,
  published,  \* the snapshot directory of the host: a signed snapshot, or None
  phase,      \* what entrypoint.sh is at; "down": no container
  version,    \* the snapshot that this run of the container verified
  highest,    \* the accepted revision on the state volume
  active,     \* active-manifest.json
  slapd,      \* "none", "up" or "hung"
  suspended,  \* entrypoint.sh and its watchdog are stopped
  probe,      \* status.sh of each caller
  backstop,   \* next command of openldap-expiry-backstop
  failures,   \* how often a tool of it has failed
  sound       \* history: nothing was wrong, and no tool failed, since it was activated

container == <<phase, version, highest, active, slapd, suspended>>
vars == <<now, published, container, probe, backstop, failures, sound>>

Phases  == {"down", "verify", "expiry", "open", "write", "launch", "serving"}
Idle    == [pc |-> "idle", clock |-> 0, revision |-> None, deadlines |-> None,
            answered |-> None, state |-> None]
Probes  == [pc : {"idle", "test", "revision", "deadlines", "ask", "done"}, clock : 0..MaxTime,
            revision : Revisions \cup {None}, deadlines : Revisions \cup {None},
            answered : Revisions \cup {None}, state : States \cup {None}]

TypeOK ==
  /\ now \in 0..MaxTime /\ published \in Revisions \cup {None}
  /\ phase \in Phases /\ version \in Revisions \cup {None} /\ highest \in Nat
  /\ active \in Revisions \cup {None, Torn} /\ slapd \in {"none", "up", "hung"}
  /\ suspended \in BOOLEAN /\ probe \in [Callers -> Probes]
  /\ backstop \in {"idle", "paths", "verify", "health", "stop"} /\ sound \in BOOLEAN
  /\ failures \in 0..MaxFailures

Init ==
  /\ now = 0 /\ published \in Revisions
  /\ phase = "down" /\ version = None /\ highest = 0 /\ active = None /\ slapd = "none" /\ suspended = FALSE
  /\ probe = [c \in Callers |-> Idle] /\ backstop = "idle" /\ sound = FALSE
  /\ failures = 0

Wholesome ==
  /\ published # None /\ now < Hard[published]
  /\ phase = "serving" /\ slapd = "up" /\ now < Hard[version]

\* Of every step of the system while an activation of the backstop is under way.
Watch == sound' = (sound /\ Wholesome')

-----------------------------------------------------------------------------
(* The container, as far as it can be observed.                            *)

Observers == <<now, published, probe, backstop, failures>>

\* The commands that were started inside end with it, and a scratch directory.
Gone ==
  /\ phase' = "down" /\ version' = None /\ slapd' = "none" /\ suspended' = FALSE
  /\ active' = IF KeepsRuntime THEN active ELSE None
  /\ probe' = [c \in Callers |-> IF probe[c].pc = "done" THEN probe[c] ELSE Idle]

StartContainer ==
  /\ phase = "down" /\ phase' = "verify"
  /\ UNCHANGED <<version, highest, active, slapd, suspended, Observers>> /\ Watch

Enter(label) == phase' = label /\ UNCHANGED <<suspended, Observers>> /\ Watch
Exit == Gone /\ UNCHANGED <<now, published, highest, backstop, failures>> /\ Watch

\* verify-snapshot.sh and validate_snapshot_revision.
Verify ==
  /\ phase = "verify"
  /\ IF published # None /\ now < Hard[published] /\ published >= highest
       THEN version' = published /\ Enter("expiry") /\ UNCHANGED <<highest, active, slapd>>
       ELSE Exit

\* Variant: nothing is recorded.
RecordNothing ==
  /\ phase = "expiry"
  /\ IF now < Hard[version]
       THEN Enter("open") /\ UNCHANGED <<version, highest, active, slapd>>
       ELSE Exit

\* check_snapshot_expiry and record_snapshot_revision.
Record ==
  /\ phase = "expiry"
  /\ IF now < Hard[version]
       THEN highest' = version /\ Enter("open") /\ UNCHANGED <<version, active, slapd>>
       ELSE Exit

\* cp truncates the file and then writes it.
CopyOpens ==
  /\ phase = "open" /\ active' = Torn
  /\ Enter("write") /\ UNCHANGED <<version, highest, slapd>>

CopyWrites ==
  /\ phase = "write" /\ active' = version
  /\ Enter("launch") /\ UNCHANGED <<version, highest, slapd>>

Launch ==
  /\ phase = "launch" /\ slapd' = "up"
  /\ Enter("serving") /\ UNCHANGED <<version, highest, active>>

\* The watchdog of the container, unless it is suspended.
Expire == phase = "serving" /\ ~suspended /\ now >= Hard[version] /\ Exit

\* A failure in any phase, SIGKILL and systemctl stop.
ContainerEnds == phase # "down" /\ Exit

Suspend ==
  /\ phase = "serving" /\ ~suspended /\ suspended' = TRUE
  /\ UNCHANGED <<phase, version, highest, active, slapd, Observers>> /\ Watch

\* slapd dies and nobody is there to notice.
SlapdDies ==
  /\ suspended /\ slapd # "none" /\ slapd' = "none"
  /\ UNCHANGED <<phase, version, highest, active, suspended, Observers>> /\ Watch

SlapdHangs ==
  /\ CanHang /\ slapd = "up" /\ slapd' = "hung"
  /\ UNCHANGED <<phase, version, highest, active, suspended, Observers>> /\ Watch

Container ==
  \/ StartContainer \/ Verify \/ Record \/ CopyOpens \/ CopyWrites
  \/ Launch \/ Expire \/ ContainerEnds \/ Suspend \/ SlapdDies \/ SlapdHangs

-----------------------------------------------------------------------------
(* status.sh, a process inside the container.                              *)

Surroundings == <<now, published, container, backstop, failures>>
Set(c, record) == probe' = [probe EXCEPT ![c] = record] /\ UNCHANGED Surroundings /\ Watch

\* Without a readable manifest of the right form, the state is "unavailable".
Unusable(c) == Set(c, [Idle EXCEPT !.pc = "done", !.state = "unavailable"])

TestFile(c) ==
  /\ probe[c].pc = "test"
  /\ IF active = None THEN Unusable(c)
                      ELSE Set(c, [probe[c] EXCEPT !.pc = "revision", !.clock = now])

ReadRevision(c) ==
  /\ probe[c].pc = "revision"
  /\ IF active \in Revisions
       THEN Set(c, [probe[c] EXCEPT !.pc = "deadlines", !.revision = active])
       ELSE Unusable(c)

\* The times, then base_dn.
ReadDeadlines(c) ==
  /\ probe[c].pc = "deadlines"
  /\ IF active \in Revisions
       THEN Set(c, [probe[c] EXCEPT !.pc = "ask", !.deadlines = active])
       ELSE Unusable(c)

\* Variant: the soft deadline is compared first.
SoftFirst(clock, deadlines, answered) ==
  IF answered = None THEN "unavailable"
  ELSE IF clock >= Soft[deadlines] THEN "soft-expired"
  ELSE IF clock >= Hard[deadlines] THEN "expired" ELSE "healthy"

Judge(clock, deadlines, answered) ==
  IF clock >= Hard[deadlines] THEN "expired"
  ELSE IF answered = None THEN "unavailable"
  ELSE IF clock >= Soft[deadlines] THEN "soft-expired" ELSE "healthy"

\* ldap_is_available: ldapsearch has no time limit, so that it waits for a
\* slapd that accepts the connection and does not answer.
ldap_is_available(c) ==
  /\ probe[c].pc = "ask" /\ slapd # "hung"
  /\ LET answered == IF slapd = "up" THEN version ELSE None IN
     Set(c, [probe[c] EXCEPT !.pc = "done", !.answered = answered,
               !.state = Judge(probe[c].clock, probe[c].deadlines, answered)])

Status(c) == TestFile(c) \/ ReadRevision(c) \/ ReadDeadlines(c) \/ ldap_is_available(c)

\* podman exec, by somebody other than the backstop.
AskStatus(c) ==
  /\ c # "backstop" /\ probe[c].pc = "idle" /\ phase # "down"
  /\ Set(c, [Idle EXCEPT !.pc = "test"])

Forget(c) == c # "backstop" /\ probe[c].pc = "done" /\ Set(c, Idle)

-----------------------------------------------------------------------------
(* openldap-expiry-backstop.                                               *)

Backstop(label) == backstop' = label /\ UNCHANGED <<now, published, failures>>

\* The timer starts no second activation while one is under way.
InspectContainer ==
  /\ backstop = "idle" /\ phase # "down"
  /\ Backstop("paths") /\ sound' = Wholesome /\ UNCHANGED <<container, probe>>

CheckPaths ==
  /\ backstop = "paths"
  /\ Backstop(IF published = None THEN "stop" ELSE "verify")
  /\ UNCHANGED <<container, probe>> /\ Watch

\* Variant: what verifies is taken for healthy.
VerifyAlone ==
  /\ backstop = "verify"
  /\ IF published = None \/ now >= Hard[published]
       THEN Backstop("stop")
       ELSE Backstop("idle")
  /\ UNCHANGED <<container, probe>> /\ Watch

\* verify-snapshot.sh in a container of its own; then podman exec.
VerifyHostSnapshot ==
  /\ backstop = "verify"
  /\ IF published = None \/ now >= Hard[published]
       THEN Backstop("stop") /\ UNCHANGED probe
       ELSE IF phase = "down" THEN Backstop("stop") /\ UNCHANGED probe
       ELSE /\ Backstop("health")
            /\ probe' = [probe EXCEPT !["backstop"] = [Idle EXCEPT !.pc = "test"]]
  /\ UNCHANGED container /\ Watch

\* Variant: only status 0 is healthy.
HealthyOnly(state) == state = "healthy"

\* healthcheck.sh: soft expiry is a warning.
Healthy(state) == state \in {"healthy", "soft-expired"}

HealthCheck ==
  /\ backstop = "health" /\ probe["backstop"].pc \in {"idle", "done"}
  /\ Backstop(IF Healthy(probe["backstop"].state) THEN "idle" ELSE "stop")
  /\ probe' = [probe EXCEPT !["backstop"] = Idle]
  /\ UNCHANGED container /\ Watch

\* podman stop: TERM, and KILL after ten seconds.
StopContainer ==
  /\ backstop = "stop" /\ Backstop("idle")
  /\ IF phase = "down" THEN UNCHANGED <<container, probe>> ELSE Gone /\ UNCHANGED highest
  /\ Watch

\* The key is not readable, or podman run or exec fails by itself: the script takes
\* that for an unsafe container.  It gives up if podman inspect or stop fails.
ToolFails ==
  /\ failures < MaxFailures /\ failures' = failures + 1
  /\ \/ backstop \in {"paths", "verify", "health"} /\ backstop' = "stop"
     \/ backstop \in {"verify", "stop"} /\ backstop' = "idle"
  /\ probe' = [probe EXCEPT !["backstop"] = Idle]
  /\ sound' = FALSE
  /\ UNCHANGED <<now, published, container>>

BackstopSteps ==
  InspectContainer \/ CheckPaths \/ VerifyHostSnapshot \/ HealthCheck \/ StopContainer

-----------------------------------------------------------------------------
(* The host.                                                               *)

\* A directory is moved away and another one is moved into its place.
Retire ==
  /\ published # None /\ published' = None
  /\ UNCHANGED <<now, container, probe, backstop, failures>> /\ Watch

Activate ==
  /\ published = None /\ published' \in Revisions
  /\ UNCHANGED <<now, container, probe, backstop, failures>> /\ Watch

Tick ==
  /\ now < MaxTime /\ now' = now + 1
  /\ UNCHANGED <<published, container, probe, backstop, failures>> /\ Watch

Next == \/ Container \/ BackstopSteps \/ ToolFails \/ Retire \/ Activate \/ Tick
        \/ \E c \in Callers : Status(c) \/ AskStatus(c) \/ Forget(c)

Spec == Init /\ [][Next]_vars

\* The timer, its commands and the probes go on.  Nothing is assumed of the
\* container, whose watchdog may be suspended.
Fairness ==
  /\ WF_vars(BackstopSteps)
  /\ \A c \in Callers : WF_vars(Status(c))

FairSpec == Spec /\ Fairness

-----------------------------------------------------------------------------
(* Properties.                                                             *)

\* status.sh reports "the active snapshot revision, freshness, and LDAP
\* availability": a state in which LDAP is available goes with the revision
\* that slapd answered from, and with that revision's deadlines.
ReportIsOfServed ==
  \A c \in Callers : probe[c].state \in {"healthy", "soft-expired"} =>
    /\ probe[c].answered # None /\ probe[c].revision = probe[c].answered
    /\ probe[c].clock < Hard[probe[c].answered]
    /\ (probe[c].state = "healthy") = (probe[c].clock < Soft[probe[c].answered])

\* Why: without leftovers the active manifest follows the phases of the run,
\* and a probe that has read it goes on in that run only.  What LDAP answers
\* from is what was recorded as accepted.
Aligned ==
  /\ phase \in {"down", "verify"} \/ version # None
  /\ phase \in {"down", "verify", "expiry", "open"} /\ ~KeepsRuntime => active = None
  /\ phase = "write" => active = Torn
  /\ phase \in {"launch", "serving"} => active = version
  /\ phase \in {"open", "write", "launch", "serving"} => highest = version
  /\ slapd # "none" => phase = "serving"

Follows(p) ==
  /\ p.pc # "done" => p.state = None /\ p.answered = None
  /\ p.pc \in {"deadlines", "ask"} =>
       phase \in {"launch", "serving"} /\ p.revision = version
  /\ p.pc = "ask" => p.deadlines = version

Inv ==
  /\ TypeOK /\ Aligned
  /\ ~KeepsRuntime => ReportIsOfServed /\ \A c \in Callers : Follows(probe[c])

\* A directory that served an unexpired snapshot, beside a valid one at the
\* host's path, since an activation of the backstop began is not stopped by it,
\* past the soft deadline neither, unless one of its tools has failed.
StopHasCause == [][backstop = "stop" /\ backstop' = "idle" => ~sound]_vars

\* Why: soundness is lost with the first thing that is wrong, and a probe that
\* runs in a sound directory reads the manifest of what is served, finds it
\* unexpired and is answered, so that only an unsound one is judged unhealthy.
Cleared(p) ==
  /\ p.pc # "idle"
  /\ p.pc \in {"revision", "deadlines", "ask"} => p.clock < Hard[version]
  /\ p.pc = "ask" => p.deadlines = version
  /\ p.pc = "done" => Healthy(p.state)

Caused ==
  /\ sound => Wholesome
  /\ backstop = "stop" => ~sound
  /\ backstop = "health" /\ sound => Cleared(probe["backstop"])

\* Hard expiry takes LDAP out of service even if the container's own supervisor
\* is suspended: the backstop "can stop a suspended or unhealthy container"
\* (ARCHITECTURE.md), if not at one activation whose tools fail, then at another.  Of a slapd that hangs this says nothing: it no longer
\* answers, and the probe of the backstop waits for it.
ExpiredNotAnswered ==
  version # None /\ now >= Hard[version] /\ slapd = "up" ~> slapd # "up"
=============================================================================
