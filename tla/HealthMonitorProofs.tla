------------------------- MODULE HealthMonitorProofs -------------------------
(* Proofs about HealthMonitor: where the runtime directory does not outlive   *)
(* the container, a status that calls LDAP available is about the revision    *)
(* that LDAP answered from, however commands and phases interleave.           *)
EXTENDS HealthMonitor, TLAPS

Times == now \in 0..MaxTime /\ published \in Revisions \cup {None}
ContainerTypes ==
  /\ phase \in Phases /\ version \in Revisions \cup {None} /\ highest \in Nat
  /\ active \in Revisions \cup {None, Torn} /\ slapd \in {"none", "up", "hung"}
  /\ suspended \in BOOLEAN
BackstopTypes ==
  /\ backstop \in {"idle", "paths", "verify", "health", "stop"} /\ sound \in BOOLEAN
  /\ failures \in 0..MaxFailures

\* What a report says of the revision that was answered from.
Truthful(p) ==
  p.state \in {"healthy", "soft-expired"} =>
    /\ p.answered # None /\ p.revision = p.answered
    /\ p.clock < Hard[p.answered]
    /\ (p.state = "healthy") = (p.clock < Soft[p.answered])

Sane(p) == p \in Probes /\ (~KeepsRuntime => Truthful(p) /\ Follows(p))

LEMMA InvParts ==
  Inv <=> /\ Times /\ ContainerTypes /\ BackstopTypes /\ Aligned
          /\ probe \in [Callers -> Probes] /\ \A c \in Callers : Sane(probe[c])
BY DEF Inv, TypeOK, Times, ContainerTypes, BackstopTypes, Sane, Truthful, ReportIsOfServed

\* The same of the next state.
LEMMA NextParts ==
  ASSUME Times', ContainerTypes', BackstopTypes', Aligned', probe' \in [Callers -> Probes],
         \A c \in Callers : Sane(probe[c])'
  PROVE  Inv'
<1>1. TypeOK' /\ Aligned'
  BY DEF TypeOK, Times, ContainerTypes, BackstopTypes
<1>2. (~KeepsRuntime => ReportIsOfServed /\ \A c \in Callers : Follows(probe[c]))'
  BY DEF Sane, Truthful, ReportIsOfServed
<1>3. QED
  BY <1>1, <1>2 DEF Inv

LEMMA IdleIsSane == Sane(Idle) /\ Sane([Idle EXCEPT !.pc = "test"])
<1>1. 0 \in 0..MaxTime
  BY HealthMonitorAssumption
<1>2. Idle \in Probes /\ [Idle EXCEPT !.pc = "test"] \in Probes
  BY <1>1 DEF Idle, Probes
<1>3. ASSUME NEW p, p = Idle \/ p = [Idle EXCEPT !.pc = "test"]
      PROVE  p.state = None /\ p.answered = None /\ p.pc \in {"idle", "test"}
  BY <1>3 DEF Idle
<1>4. None \notin {"healthy", "soft-expired"}
  BY HealthMonitorAssumption DEF States
<1>5. QED
  BY <1>2, <1>3, <1>4 DEF Sane, Truthful, Follows

LEMMA SoundType == Watch /\ sound \in BOOLEAN => sound' \in BOOLEAN
BY DEF Watch

LEMMA InitInv == Init => Inv
<1>. SUFFICES ASSUME Init PROVE Inv
  OBVIOUS
<1>1. Times /\ BackstopTypes
  <2>1. 0 \in 0..MaxTime /\ 0 \in 0..MaxFailures
    BY HealthMonitorAssumption
  <2>2. QED
    BY <2>1 DEF Init, Times, BackstopTypes
<1>3. ContainerTypes
  BY DEF Init, ContainerTypes, Phases
<1>4. Aligned
  BY DEF Init, Aligned
<1>2. probe \in [Callers -> Probes] /\ \A c \in Callers : Sane(probe[c])
  BY IdleIsSane DEF Init, Sane
<1>5. QED
  BY <1>1, <1>2, <1>3, <1>4, InvParts

\* The container goes from one phase to a later one.
LEMMA PhaseStep ==
  ASSUME Inv, ContainerTypes', Aligned', UNCHANGED <<now, published, probe, backstop, failures>>, Watch,
         version' = version \/ phase \notin {"launch", "serving"},
         phase \in {"launch", "serving"} => phase' \in {"launch", "serving"}
  PROVE  Inv'
<1>1. Times' /\ BackstopTypes'
  BY InvParts, SoundType DEF Times, BackstopTypes
<1>2. ASSUME NEW c \in Callers PROVE Sane(probe[c])'
  BY InvParts DEF Sane, Truthful, Follows
<1>3. probe' \in [Callers -> Probes]
  BY InvParts
<1>4. QED
  BY <1>1, <1>2, <1>3, NextParts

\* The container ends, and what runs in it.
LEMMA GoneStep ==
  ASSUME Inv, Gone, UNCHANGED <<now, published, highest>>, BackstopTypes'
  PROVE  Inv'
<1>1. Times'
  BY InvParts DEF Times
<1>2. ContainerTypes' /\ Aligned'
  BY InvParts DEF ContainerTypes, Aligned, Gone, Phases
<1>3. probe' = [c \in Callers |-> IF probe[c].pc = "done" THEN probe[c] ELSE Idle]
  BY DEF Gone
<1>4. probe' \in [Callers -> Probes]
  BY <1>3, InvParts, IdleIsSane DEF Sane
<1>5. ASSUME NEW c \in Callers PROVE Sane(probe[c])'
  <2>1. CASE probe[c].pc = "done"
    BY <1>3, <2>1, InvParts DEF Sane, Truthful, Follows
  <2>2. CASE probe[c].pc # "done"
    BY <1>3, <2>2, IdleIsSane DEF Sane, Truthful, Follows, Idle
  <2>3. QED
    BY <2>1, <2>2
<1>6. QED
  BY <1>1, <1>2, <1>4, <1>5, NextParts

LEMMA ContainerStep == Inv /\ Container => Inv'
<1>. SUFFICES ASSUME Inv, Container PROVE Inv'
  OBVIOUS
<1>0. Times /\ ContainerTypes /\ BackstopTypes /\ Aligned
  BY InvParts
<1>1. ASSUME Exit PROVE Inv'
  BY <1>0, <1>1, GoneStep, SoundType DEF Exit, BackstopTypes
<1>2. CASE StartContainer
  <2>1. ContainerTypes' /\ Aligned'
    BY <1>0, <1>2 DEF StartContainer, ContainerTypes, Aligned, Phases
  <2>2. QED
    BY <1>2, <2>1, PhaseStep DEF StartContainer, Observers
<1>3. CASE Verify /\ ~Exit
  <2>1. ContainerTypes' /\ Aligned'
    BY <1>0, <1>3 DEF Verify, Enter, ContainerTypes, Aligned, Phases, Times
  <2>2. QED
    BY <1>3, <2>1, PhaseStep DEF Verify, Enter, Observers
<1>4. CASE Record /\ ~Exit
  <2>1. ContainerTypes' /\ Aligned'
    BY <1>0, <1>4, HealthMonitorAssumption
    DEF Record, Enter, ContainerTypes, Aligned, Phases
  <2>2. QED
    BY <1>4, <2>1, PhaseStep DEF Record, Enter, Observers
<1>5. CASE CopyOpens
  <2>1. ContainerTypes' /\ Aligned'
    BY <1>0, <1>5 DEF CopyOpens, Enter, ContainerTypes, Aligned, Phases
  <2>2. QED
    BY <1>5, <2>1, PhaseStep DEF CopyOpens, Enter, Observers
<1>6. CASE CopyWrites
  <2>1. ContainerTypes' /\ Aligned'
    BY <1>0, <1>6 DEF CopyWrites, Enter, ContainerTypes, Aligned, Phases
  <2>2. QED
    BY <1>6, <2>1, PhaseStep DEF CopyWrites, Enter, Observers
<1>7. CASE Launch
  <2>1. ContainerTypes' /\ Aligned'
    BY <1>0, <1>7 DEF Launch, Enter, ContainerTypes, Aligned, Phases
  <2>2. QED
    BY <1>7, <2>1, PhaseStep DEF Launch, Enter, Observers
<1>8. CASE Suspend \/ SlapdDies \/ SlapdHangs
  <2>0. /\ UNCHANGED <<phase, version, highest, active>> /\ suspended' \in BOOLEAN
        /\ slapd' \in {"none", "up", "hung"} /\ (slapd' # "none" => phase = "serving")
    BY <1>0, <1>8 DEF Suspend, SlapdDies, SlapdHangs, ContainerTypes, Aligned
  <2>1. ContainerTypes' /\ Aligned'
    BY <1>0, <2>0 DEF ContainerTypes, Aligned
  <2>2. QED
    BY <1>8, <2>1, PhaseStep DEF Suspend, SlapdDies, SlapdHangs, Observers
<1>9. CASE Expire \/ ContainerEnds
  BY <1>1, <1>9 DEF Expire, ContainerEnds
<1>10. QED
  BY <1>1, <1>2, <1>3, <1>4, <1>5, <1>6, <1>7, <1>8, <1>9 DEF Container

\* One command of a probe.
LEMMA SetStep ==
  ASSUME Inv, NEW c \in Callers, NEW p, Set(c, p), Sane(p)
  PROVE  Inv'
<1>1. UNCHANGED <<now, published, container, backstop, failures>> /\ probe' = [probe EXCEPT ![c] = p] /\ Watch
  BY DEF Set, Surroundings
<1>2. Times' /\ ContainerTypes' /\ BackstopTypes' /\ Aligned'
  BY <1>1, InvParts, SoundType DEF Times, ContainerTypes, BackstopTypes, Aligned, container
<1>3. probe' \in [Callers -> Probes]
  BY <1>1, InvParts DEF Sane
<1>4. ASSUME NEW d \in Callers PROVE Sane(probe[d])'
  BY <1>1, InvParts DEF Sane, Truthful, Follows, container
<1>5. QED
  BY <1>2, <1>3, <1>4, NextParts

LEMMA StatusStep ==
  ASSUME Inv, NEW c \in Callers, Status(c)
  PROVE  Inv'
<1>. DEFINE p == probe[c]
<1>0. /\ Times /\ ContainerTypes /\ Aligned /\ p \in Probes /\ Sane(p)
  BY InvParts
<1>1. Sane([Idle EXCEPT !.pc = "done", !.state = "unavailable"])
  <2>1. 0 \in 0..MaxTime
    BY HealthMonitorAssumption
  <2>2. [Idle EXCEPT !.pc = "done", !.state = "unavailable"] \in Probes
    BY <2>1 DEF Idle, Probes, States
  <2>3. QED
    BY <2>2 DEF Sane, Idle, Truthful, Follows
<1>2. ASSUME Unusable(c) PROVE Inv'
  BY <1>1, <1>2, SetStep DEF Unusable
<1>3. CASE TestFile(c) /\ ~Unusable(c)
  <2>1. Sane([p EXCEPT !.pc = "revision", !.clock = now])
    BY <1>0, <1>3 DEF TestFile, Sane, Probes, Truthful, Follows, Times, States
  <2>2. QED
    BY <1>3, <2>1, SetStep DEF TestFile
<1>4. CASE ReadRevision(c) /\ ~Unusable(c)
  <2>1. active \in Revisions /\ p.pc = "revision"
    BY <1>4 DEF ReadRevision
  <2>2. ~KeepsRuntime => phase \in {"launch", "serving"} /\ active = version
    BY <1>0, <2>1, HealthMonitorAssumption DEF Aligned, ContainerTypes, Phases
  <2>3. Sane([p EXCEPT !.pc = "deadlines", !.revision = active])
    BY <1>0, <2>1, <2>2 DEF Sane, Probes, Truthful, Follows, States
  <2>4. QED
    BY <1>4, <2>3, SetStep DEF ReadRevision
<1>5. CASE ReadDeadlines(c) /\ ~Unusable(c)
  <2>1. active \in Revisions /\ p.pc = "deadlines"
    BY <1>5 DEF ReadDeadlines
  <2>2. ~KeepsRuntime => active = version
    BY <1>0, <2>1 DEF Aligned, Sane, Follows
  <2>3. Sane([p EXCEPT !.pc = "ask", !.deadlines = active])
    BY <1>0, <2>1, <2>2 DEF Sane, Probes, Truthful, Follows, States
  <2>4. QED
    BY <1>5, <2>3, SetStep DEF ReadDeadlines
<1>6. CASE ldap_is_available(c)
  <2>. DEFINE answered == IF slapd = "up" THEN version ELSE None
              state    == Judge(p.clock, p.deadlines, answered)
              new      == [p EXCEPT !.pc = "done", !.answered = answered, !.state = state]
  <2>1. p.pc = "ask" /\ Set(c, new)
    BY <1>6 DEF ldap_is_available
  <2>2. answered \in Revisions \cup {None} /\ state \in States
    BY <1>0 DEF ContainerTypes, Judge, States
  <2>3. new \in Probes
    BY <1>0, <2>2 DEF Probes
  <2>4. ~KeepsRuntime => p.revision = version /\ p.deadlines = version
    BY <1>0, <2>1 DEF Sane, Follows
  <2>5. ~KeepsRuntime => Truthful(new)
    <3>1. /\ new.state = state /\ new.answered = answered /\ new.revision = p.revision
          /\ new.clock = p.clock
      BY <1>0 DEF Probes
    <3>2. state \in {"healthy", "soft-expired"} =>
            /\ answered # None /\ ~(p.clock >= Hard[p.deadlines])
            /\ (state = "healthy") = ~(p.clock >= Soft[p.deadlines])
      BY DEF Judge
    <3>3. answered # None => answered = version /\ version \in Revisions
      BY <1>0 DEF ContainerTypes
    <3>6. p.clock \in 0..MaxTime
      BY <1>0 DEF Probes
    <3>7. p.clock \in Int
      BY <3>6
    <3>8. \A r \in Revisions : Hard[r] \in Int /\ Soft[r] \in Int
      <4>1. Hard \in [Revisions -> Nat] /\ Soft \in [Revisions -> Nat]
        BY HealthMonitorAssumption
      <4>2. QED
        BY <4>1
    <3>. HIDE DEF p
    <3>4. p.clock \in Int /\ (answered # None => Hard[answered] \in Int /\ Soft[answered] \in Int)
      <4>1. answered # None => answered \in Revisions
        BY <3>3
      <4>. HIDE DEF answered
      <4>2. QED
        BY <3>7, <3>8, <4>1
    <3>. HIDE DEF new, state, answered
    <3>5. QED
      BY <2>4, <3>1, <3>2, <3>3, <3>4 DEF Truthful
  <2>6. Follows(new)
    BY <1>0 DEF Follows, Probes
  <2>7. QED
    BY <2>1, <2>3, <2>5, <2>6, SetStep DEF Sane
<1>7. QED
  BY <1>2, <1>3, <1>4, <1>5, <1>6 DEF Status

LEMMA BackstopStep == Inv /\ (BackstopSteps \/ ToolFails) => Inv'
<1>. SUFFICES ASSUME Inv, BackstopSteps \/ ToolFails PROVE Inv'
  OBVIOUS
<1>0. /\ Times /\ ContainerTypes /\ BackstopTypes /\ Aligned
      /\ probe \in [Callers -> Probes] /\ "backstop" \in Callers
  BY InvParts, HealthMonitorAssumption
<1>1. ASSUME BackstopTypes', UNCHANGED <<now, published, container>>,
             NEW p, Sane(p), probe' = [probe EXCEPT !["backstop"] = p] \/ UNCHANGED probe
      PROVE  Inv'
  <2>1. Times' /\ ContainerTypes' /\ Aligned'
    BY <1>0, <1>1 DEF Times, ContainerTypes, Aligned, container
  <2>2. probe' \in [Callers -> Probes]
    BY <1>0, <1>1 DEF Sane
  <2>3. ASSUME NEW d \in Callers PROVE Sane(probe[d])'
    BY <1>0, <1>1, InvParts DEF Sane, Truthful, Follows, container
  <2>4. QED
    BY <1>1, <2>1, <2>2, <2>3, NextParts
<1>2. CASE InspectContainer
  <2>1. BackstopTypes'
    BY <1>0, <1>2 DEF InspectContainer, Backstop, BackstopTypes, Wholesome
  <2>2. QED
    BY <1>1, <1>2, <2>1, IdleIsSane DEF InspectContainer, Backstop
<1>3. CASE CheckPaths
  <2>1. BackstopTypes'
    BY <1>0, <1>3, SoundType DEF CheckPaths, Backstop, BackstopTypes
  <2>2. QED
    BY <1>1, <1>3, <2>1, IdleIsSane DEF CheckPaths, Backstop
<1>4. CASE VerifyHostSnapshot
  <2>1. BackstopTypes'
    BY <1>0, <1>4, SoundType DEF VerifyHostSnapshot, Backstop, BackstopTypes
  <2>2. /\ UNCHANGED <<now, published, container>>
        /\ \/ probe' = [probe EXCEPT !["backstop"] = [Idle EXCEPT !.pc = "test"]]
           \/ UNCHANGED probe
    BY <1>4 DEF VerifyHostSnapshot, Backstop
  <2>3. QED
    BY <1>1, <2>1, <2>2, IdleIsSane
<1>5. CASE HealthCheck
  <2>1. BackstopTypes'
    BY <1>0, <1>5, SoundType DEF HealthCheck, Backstop, BackstopTypes
  <2>2. QED
    BY <1>1, <1>5, <2>1, IdleIsSane DEF HealthCheck, Backstop
<1>6. CASE StopContainer
  <2>1. BackstopTypes'
    BY <1>0, <1>6, SoundType DEF StopContainer, Backstop, BackstopTypes
  <2>2. QED
    BY <1>1, <1>6, <2>1, GoneStep, IdleIsSane DEF StopContainer, Backstop
<1>7. CASE ToolFails
  <2>1. failures' \in 0..MaxFailures
    BY <1>0, <1>7, HealthMonitorAssumption DEF ToolFails, BackstopTypes
  <2>2. BackstopTypes'
    BY <1>7, <2>1 DEF ToolFails, BackstopTypes
  <2>3. QED
    BY <1>1, <1>7, <2>2, IdleIsSane DEF ToolFails
<1>8. QED
  BY <1>2, <1>3, <1>4, <1>5, <1>6, <1>7 DEF BackstopSteps

LEMMA HostStep == Inv /\ (Retire \/ Activate \/ Tick \/ UNCHANGED vars) => Inv'
<1>. SUFFICES ASSUME Inv, Retire \/ Activate \/ Tick \/ UNCHANGED vars PROVE Inv'
  OBVIOUS
<1>1. UNCHANGED <<container, probe, backstop, failures>> /\ (Watch \/ UNCHANGED sound)
  BY DEF Retire, Activate, Tick, vars
<1>2. Times'
  BY InvParts, HealthMonitorAssumption DEF Times, Retire, Activate, Tick, vars
<1>3. ContainerTypes' /\ BackstopTypes' /\ Aligned'
  BY <1>1, InvParts, SoundType DEF ContainerTypes, BackstopTypes, Aligned, container
<1>4. ASSUME NEW c \in Callers PROVE Sane(probe[c])'
  BY <1>1, InvParts DEF Sane, Truthful, Follows, container
<1>6. probe' \in [Callers -> Probes]
  BY <1>1, InvParts
<1>5. QED
  BY <1>2, <1>3, <1>4, <1>6, NextParts

\* The active manifest and the probes keep step with the run.
THEOREM ProbesFollow == Spec => []Inv
<1>1. Inv /\ [Next]_vars => Inv'
  <2>. SUFFICES ASSUME Inv, [Next]_vars PROVE Inv'
    OBVIOUS
  <2>1. ASSUME NEW c \in Callers, AskStatus(c) \/ Forget(c) PROVE Inv'
    BY <2>1, SetStep, IdleIsSane DEF AskStatus, Forget
  <2>2. QED
    BY <2>1, ContainerStep, BackstopStep, HostStep, StatusStep DEF Next
<1>2. QED
  BY <1>1, InitInv, PTL DEF Spec

\* Where the runtime directory is scratch storage, no interleaving of a start
\* and a status lets the status name a revision other than the one served.
THEOREM ReportsServed == ~KeepsRuntime /\ Spec => []ReportIsOfServed
<1>1. CASE KeepsRuntime
  BY <1>1
<1>2. CASE ~KeepsRuntime
  <2>1. Inv => ReportIsOfServed
    BY <1>2 DEF Inv
  <2>2. QED
    BY <2>1, ProbesFollow, PTL
<1>3. QED
  BY <1>1, <1>2

(***************************************************************************)
(* The backstop.                                                           *)
(***************************************************************************)

\* A sound directory is up, and its active manifest is of what it serves.
LEMMA SoundServes ==
  ASSUME Inv, sound, Caused
  PROVE  /\ phase = "serving" /\ slapd = "up" /\ active = version /\ version \in Revisions
         /\ now < Hard[version] /\ published # None /\ now < Hard[published]
BY InvParts DEF Caused, Wholesome, Aligned, ContainerTypes

\* Steps that neither the backstop nor its probe takes: one that leaves the
\* directory sound leaves version alone, too.
LEMMA OthersKeepCause ==
  ASSUME Inv, Caused, Watch, UNCHANGED backstop,
         sound' => UNCHANGED version /\ (backstop = "health" => UNCHANGED probe["backstop"])
  PROVE  Caused'
BY DEF Caused, Watch, Cleared

LEMMA ContainerKeepsCause == Inv /\ Caused /\ Container => Caused'
<1>. SUFFICES ASSUME Inv, Caused, Container PROVE Caused'
  OBVIOUS
<1>1. Watch /\ UNCHANGED backstop
  BY DEF Container, StartContainer, Verify, Record, CopyOpens, CopyWrites, Launch, Expire,
     ContainerEnds, Suspend, SlapdDies, SlapdHangs, Enter, Exit, Observers
<1>2. ASSUME sound' PROVE UNCHANGED <<version, probe>>
  <2>1. sound /\ phase = "serving" /\ phase' = "serving"
    BY <1>1, <1>2, SoundServes DEF Watch, Wholesome
  <2>2. ~Exit
    BY <2>1 DEF Exit, Gone
  <2>3. QED
    BY <2>1, <2>2 DEF Container, StartContainer, Verify, Record, CopyOpens, CopyWrites, Launch,
       Expire, ContainerEnds, Suspend, SlapdDies, SlapdHangs, Enter, Observers
<1>3. QED
  BY <1>1, <1>2, OthersKeepCause

\* The probe of the backstop, in a directory that stays sound.
LEMMA ProbeKeepsCause ==
  ASSUME Inv, Caused, NEW c \in Callers, Status(c)
  PROVE  Caused'
<1>. DEFINE p == probe["backstop"]
<1>1. Watch /\ UNCHANGED <<version, backstop>> /\ probe \in [Callers -> Probes]
  BY InvParts DEF Status, TestFile, ReadRevision, ReadDeadlines, ldap_is_available, Unusable,
     Set, Surroundings, container
<1>2. CASE c # "backstop"
  <2>1. UNCHANGED probe["backstop"]
    BY <1>1, <1>2, HealthMonitorAssumption DEF Status, TestFile, ReadRevision, ReadDeadlines,
       ldap_is_available, Unusable, Set
  <2>2. QED
    BY <1>1, <2>1, OthersKeepCause
<1>3. ASSUME c = "backstop", backstop = "health", sound' PROVE Cleared(p)'
  <2>1. /\ sound /\ Cleared(p) /\ p \in Probes
        /\ slapd = "up" /\ active = version /\ version \in Revisions /\ now < Hard[version]
    BY <1>1, <1>3, SoundServes DEF Watch, Caused
  <2>2. active # None /\ active \in Revisions
    BY <2>1, HealthMonitorAssumption
  <2>3. CASE p.pc = "test"
    <3>1. p' = [p EXCEPT !.pc = "revision", !.clock = now]
      BY <1>1, <1>3, <2>2, <2>3 DEF Status, TestFile, ReadRevision, ReadDeadlines,
         ldap_is_available, Set
    <3>2. p'.pc = "revision" /\ p'.clock = now
      BY <2>1, <3>1 DEF Probes
    <3>3. QED
      BY <1>1, <2>1, <3>2 DEF Cleared
  <2>4. CASE p.pc = "revision"
    <3>1. p' = [p EXCEPT !.pc = "deadlines", !.revision = active]
      BY <1>1, <1>3, <2>2, <2>4 DEF Status, TestFile, ReadRevision, ReadDeadlines,
         ldap_is_available, Set
    <3>2. p'.pc = "deadlines" /\ p'.clock = p.clock
      BY <2>1, <3>1 DEF Probes
    <3>3. QED
      BY <1>1, <2>1, <2>4, <3>2 DEF Cleared
  <2>5. CASE p.pc = "deadlines"
    <3>1. p' = [p EXCEPT !.pc = "ask", !.deadlines = active]
      BY <1>1, <1>3, <2>2, <2>5 DEF Status, TestFile, ReadRevision, ReadDeadlines,
         ldap_is_available, Set
    <3>2. p'.pc = "ask" /\ p'.clock = p.clock /\ p'.deadlines = version
      BY <2>1, <3>1 DEF Probes
    <3>3. QED
      BY <1>1, <2>1, <2>5, <3>2 DEF Cleared
  <2>6. CASE p.pc = "ask"
    <3>1. p' = [p EXCEPT !.pc = "done", !.answered = version,
                         !.state = Judge(p.clock, p.deadlines, version)]
      BY <1>1, <1>3, <2>1, <2>6 DEF Status, TestFile, ReadRevision, ReadDeadlines,
         ldap_is_available, Set
    <3>2. p'.pc = "done" /\ p'.state = Judge(p.clock, p.deadlines, version)
      BY <2>1, <3>1 DEF Probes
    <3>3. p.clock < Hard[version] /\ p.deadlines = version /\ version # None
      BY <2>1, <2>6, HealthMonitorAssumption DEF Cleared
    <3>4. p.clock \in Int /\ Hard[version] \in Int
      BY <2>1, HealthMonitorAssumption DEF Probes
    <3>5. Judge(p.clock, p.deadlines, version) \in {"healthy", "soft-expired"}
      BY <3>3, <3>4 DEF Judge
    <3>6. QED
      BY <3>2, <3>5 DEF Cleared, Healthy
  <2>7. p.pc \in {"test", "revision", "deadlines", "ask"}
    BY <1>3 DEF Status, TestFile, ReadRevision, ReadDeadlines, ldap_is_available
  <2>8. QED
    BY <2>3, <2>4, <2>5, <2>6, <2>7
<1>4. QED
  BY <1>1, <1>2, <1>3 DEF Caused, Watch

\* The commands of the backstop: nothing in a sound directory sends it to stop.
LEMMA BackstopKeepsCause == Inv /\ Caused /\ (BackstopSteps \/ ToolFails) => Caused'
<1>. SUFFICES ASSUME Inv, Caused, BackstopSteps \/ ToolFails PROVE Caused'
  OBVIOUS
<1>1. probe \in [Callers -> Probes] /\ "backstop" \in Callers
  BY InvParts, HealthMonitorAssumption
<1>2. CASE InspectContainer
  BY <1>2 DEF InspectContainer, Backstop, Caused, Wholesome, container
<1>3. CASE CheckPaths
  <2>1. sound' => backstop' = "verify"
    BY <1>3, SoundServes DEF CheckPaths, Backstop, Watch
  <2>2. QED
    BY <1>3, <2>1 DEF CheckPaths, Watch, Caused
<1>4. CASE VerifyHostSnapshot
  <2>1. ASSUME sound'
        PROVE  backstop' = "health" /\ probe' = [probe EXCEPT !["backstop"] = [Idle EXCEPT !.pc = "test"]]
    <3>1. sound /\ published # None /\ now < Hard[published] /\ phase = "serving"
      BY <1>4, <2>1, SoundServes DEF VerifyHostSnapshot, Watch
    <3>2. now \in 0..MaxTime /\ published \in Revisions /\ Hard \in [Revisions -> Nat]
      BY <3>1, InvParts, HealthMonitorAssumption DEF Times
    <3>3. ~(now >= Hard[published])
      BY <3>1, <3>2
    <3>4. QED
      BY <1>4, <3>1, <3>2, <3>3 DEF VerifyHostSnapshot, Backstop
  <2>2. [Idle EXCEPT !.pc = "test"].pc = "test"
    BY DEF Idle
  <2>3. sound' => Cleared(probe["backstop"])'
    BY <1>1, <2>1, <2>2 DEF Cleared
  <2>4. QED
    BY <1>4, <2>1, <2>3 DEF VerifyHostSnapshot, Watch, Caused
<1>5. CASE HealthCheck
  <2>1. sound' => Healthy(probe["backstop"].state)
    BY <1>5 DEF HealthCheck, Watch, Caused, Cleared
  <2>2. QED
    BY <1>5, <2>1 DEF HealthCheck, Backstop, Watch, Caused
<1>6. CASE StopContainer
  BY <1>6 DEF StopContainer, Backstop, Watch, Caused
<1>7. CASE ToolFails
  BY <1>7 DEF ToolFails, Caused
<1>8. QED
  BY <1>2, <1>3, <1>4, <1>5, <1>6, <1>7 DEF BackstopSteps

THEOREM CauseKept == Spec => [](Inv /\ Caused)
<1>1. Init => Caused
  BY DEF Init, Caused
<1>2. Inv /\ Caused /\ [Next]_vars => Caused'
  <2>. SUFFICES ASSUME Inv, Caused, [Next]_vars PROVE Caused'
    OBVIOUS
  <2>1. CASE Retire \/ Activate \/ Tick
    <3>1. Watch /\ UNCHANGED <<version, backstop, probe>>
      BY <2>1 DEF Retire, Activate, Tick, container
    <3>2. QED
      BY <3>1, OthersKeepCause
  <2>2. ASSUME NEW c \in Callers, AskStatus(c) \/ Forget(c) PROVE Caused'
    <3>1. Watch /\ UNCHANGED <<version, backstop, probe["backstop"]>>
      BY <2>2, InvParts, HealthMonitorAssumption DEF AskStatus, Forget, Set, Surroundings, container
    <3>2. QED
      BY <3>1, OthersKeepCause
  <2>3. CASE UNCHANGED vars
    BY <2>3 DEF vars, container, Caused, Wholesome, Cleared
  <2>4. QED
    BY <2>1, <2>2, <2>3, ContainerKeepsCause, ProbeKeepsCause, BackstopKeepsCause DEF Next
<1>3. QED
  BY <1>1, <1>2, ProbesFollow, PTL DEF Spec

\* The backstop stops no directory that was in order throughout its activation
\* unless one of its tools has failed, on either kind of runtime directory and with any number of other probes.
THEOREM StopsWithCause == Spec => StopHasCause
<1>1. Caused /\ [Next]_vars => [backstop = "stop" /\ backstop' = "idle" => ~sound]_vars
  BY DEF Caused
<1>2. QED
  BY <1>1, CauseKept, PTL DEF Spec, StopHasCause
=============================================================================
