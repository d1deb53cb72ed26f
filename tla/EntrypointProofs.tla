-------------------------- MODULE EntrypointProofs --------------------------
(***************************************************************************)
(* Proofs about Entrypoint, for every set of snapshots, every clock and    *)
(* any number of restarts: type correctness, the inductive invariant Inv,  *)
(* and the safety properties that follow from it.                          *)
(***************************************************************************)
EXTENDS Entrypoint, TLAPS

\* A fresh deployment satisfies the invariant, whatever the state volume holds.
LEMMA InitialInv == Init => Inv
<1> SUFFICES ASSUME Init PROVE Inv
  OBVIOUS
<1> USE SnapshotsAssumption, EntrypointAssumption DEF Init
<1>1. StorageTypes
  BY DEF StorageTypes, Opt, Records, NoRecord, BadRecord, Accepted, LegacyRecord
<1>2. ShellTypes
  BY DEF ShellTypes
<1>3. ChildTypes
  BY DEF ChildTypes
<1>4. BuildInv
  BY DEF BuildInv, PhaseIsWaitedFor, PhaseSucceeded, Verified, Copied, Admitted, Built,
         VerifyStages, InitStages
<1>5. ServingInv
  BY DEF ServingInv, Recorded, Activated, ServedIsBaseline, SlapdAlive, Supervision
<1>6. WatchdogInv
  BY DEF WatchdogInv, WatchdogVerdictKept, Startup
<1> QED
  BY <1>1, <1>2, <1>3, <1>4, <1>5, <1>6 DEF Inv, TypeOK

\* The files keep their types: what is recorded is a snapshot, never nothing.
LEMMA StorageStep == Inv /\ [Next]_vars => StorageTypes'
<1> SUFFICES ASSUME Inv, [Next]_vars PROVE StorageTypes'
  OBVIOUS
<1> USE DEF Inv, TypeOK, vars, host, files, flags, phaseVars, servers, storage, shell,
      children, StorageTypes, Opt
<1>1. CASE Prepare
  BY <1>1 DEF Prepare, At, Goto
<1>2. CASE PrepareFails
  BY <1>2 DEF PrepareFails, At, Exit
<1>3. CASE RemoveVerified
  BY <1>3 DEF RemoveVerified, At, Goto
<1>4. CASE RecordRevision
  BY <1>4, SnapshotsAssumption, EntrypointAssumption DEF RecordRevision, At, Goto,
         BuildInv, Verified, Records, Accepted
<1>5. CASE TruncateActive
  BY <1>5 DEF TruncateActive, At, Goto
<1>6. CASE CopyActive
  BY <1>6 DEF CopyActive, At, Goto
<1>7. CASE Cleanup
  BY <1>7 DEF Cleanup, At, Exit
<1>8. CASE VerifyManifest
  BY <1>8 DEF VerifyManifest, PhaseGoto
<1>9. CASE VerifyManifestFails
  BY <1>9 DEF VerifyManifestFails, PhaseExit
<1>10. CASE VerifyFiles
  BY <1>10 DEF VerifyFiles, PhaseExit
<1>11. CASE InitTrapped
  BY <1>11 DEF InitTrapped, PhaseExit
<1>12. CASE InitFails
  BY <1>12 DEF InitFails, PhaseExit
<1>13. CASE InitReset
  BY <1>13 DEF InitReset, PhaseGoto
<1>14. CASE InitImport
  BY <1>14 DEF InitImport, PhaseGoto
<1>15. CASE InitClean
  BY <1>15 DEF InitClean, PhaseExit
<1>16. CASE Deploy
  BY <1>16 DEF Deploy
<1>17. CASE Tick
  BY <1>17 DEF Tick
<1>18. CASE ForkVerify \/ AssignPhasePid \/ VerifyReturns \/ ValidateRevision \/
            ForkInit \/ InitReturns \/ CheckExpiry \/ FindExpired \/ StorageFails \/
            Start \/ Terminate \/ Kill \/ VerifyKilled \/ VerifyTimes
  BY <1>18 DEF ForkVerify, ForkPhase, At, Goto, AssignPhasePid, AssignPid,
         VerifyReturns, PhaseReturns, Leave, ValidateRevision, ForkInit, InitReturns,
         CheckExpiry, FindExpired, Exit, StorageFails, Start, Terminate, Kill,
         VerifyKilled, PhaseExit, VerifyTimes, PhaseGoto
<1>19. CASE ForkSlapd \/ AssignSlapdPid \/ CheckShutdown \/ SlapdWaitReturns \/
            ForkWatchdog \/ WritePidFile \/ PidFileFails \/ PollSlapd \/ PollWatchdog \/
            PollFlags \/ Reap \/ SuperviseReturns
  BY <1>19 DEF ForkSlapd, At, Goto, AssignSlapdPid, AssignPid, CheckShutdown,
         SlapdAfterTerm, SlapdWaitReturns, Leave, ForkWatchdog, WritePidFile,
         PidFileFails, KillWatchdog, PollSlapd, PollWatchdog, PollFlags, Reap,
         SuperviseReturns, Verdict
<1>20. CASE Traps \/ Watchdog \/ SlapdStops \/ SlapdQuits
  BY <1>20 DEF Traps, forward_shutdown, SlapdAfterTerm, expire_snapshot, fail_watchdog,
         Watchdog, WatchdogReports, WatchdogErrs, WatchdogVanishes, SlapdStops,
         SlapdQuits
<1>21. CASE UNCHANGED vars
  BY <1>21
<1> QED
  BY <1>1, <1>2, <1>3, <1>4, <1>5, <1>6, <1>7, <1>8, <1>9, <1>10, <1>11, <1>12, <1>13,
     <1>14, <1>15, <1>16, <1>17, <1>18, <1>19, <1>20, <1>21 DEF Next, Shell, Traps,
     Phase, Watchdog, Host

\* The shell stays within its commands and leaves with a proper exit status.
LEMMA ShellStep == Inv /\ [Next]_vars => ShellTypes'
<1> SUFFICES ASSUME Inv, [Next]_vars PROVE ShellTypes'
  OBVIOUS
<1> USE DEF Inv, TypeOK, vars, host, files, flags, phaseVars, servers, storage, shell,
      children, EXIT_USAGE, EXIT_SNAPSHOT, EXIT_INPUT, EXIT_INTERNAL, EXIT_RUNTIME,
      EXIT_EXPIRED, ShellTypes, ChildTypes, Startup, Supervision
<1>1. CASE PrepareFails
  BY <1>1 DEF PrepareFails, At, Exit
<1>2. CASE VerifyReturns
  BY <1>2 DEF VerifyReturns, PhaseReturns, At, Goto, Leave
<1>3. CASE ValidateRevision
  BY <1>3 DEF ValidateRevision, At, Goto, Leave, Validate
<1>4. CASE InitReturns
  BY <1>4 DEF InitReturns, PhaseReturns, At, Goto, Leave
<1>5. CASE FindExpired
  BY <1>5 DEF FindExpired, At, Exit
<1>6. CASE StorageFails
  BY <1>6 DEF StorageFails, Exit
<1>7. CASE CheckShutdown
  BY <1>7 DEF CheckShutdown, At, Goto, SlapdAfterTerm
<1>8. CASE SlapdWaitReturns
  BY <1>8 DEF SlapdWaitReturns, At, Leave
<1>9. CASE PidFileFails
  BY <1>9 DEF PidFileFails, At, KillWatchdog, SlapdAfterTerm
<1>10. CASE PollFlags
  BY <1>10 DEF PollFlags, At, Goto, SlapdAfterTerm
<1>11. CASE SuperviseReturns
  BY <1>11 DEF SuperviseReturns, At, Leave, Verdict
<1>12. CASE Cleanup
  BY <1>12 DEF Cleanup, At, Exit
<1>13. CASE forward_shutdown
  BY <1>13 DEF forward_shutdown, SlapdAfterTerm
<1>14. CASE expire_snapshot
  BY <1>14 DEF expire_snapshot, SlapdAfterTerm
<1>15. CASE fail_watchdog
  BY <1>15 DEF fail_watchdog, SlapdAfterTerm
<1>16. CASE WatchdogReports
  BY <1>16 DEF WatchdogReports
<1>17. CASE WatchdogErrs
  BY <1>17 DEF WatchdogErrs
<1>18. CASE Start
  BY <1>18 DEF Start, Goto
<1>19. CASE Terminate
  BY <1>19 DEF Terminate
<1>20. CASE Kill
  BY <1>20 DEF Kill, Exit
<1>21. CASE Prepare \/ ForkVerify \/ AssignPhasePid \/ ForkInit \/ RemoveVerified \/
            CheckExpiry \/ RecordRevision \/ TruncateActive \/ CopyActive \/ ForkSlapd
            \/ AssignSlapdPid \/ ForkWatchdog \/ WritePidFile \/ PollSlapd \/
            PollWatchdog \/ Reap
  BY <1>21 DEF Prepare, At, Goto, ForkVerify, ForkPhase, AssignPhasePid, AssignPid,
         ForkInit, RemoveVerified, CheckExpiry, RecordRevision, TruncateActive,
         CopyActive, ForkSlapd, AssignSlapdPid, ForkWatchdog, WritePidFile, PollSlapd,
         PollWatchdog, Reap, KillWatchdog
<1>22. CASE Phase \/ WatchdogVanishes \/ SlapdStops \/ SlapdQuits \/ Deploy \/ Tick
  BY <1>22 DEF Phase, VerifyKilled, PhaseExit, VerifyManifest, PhaseGoto,
         VerifyManifestFails, VerifyTimes, VerifyFiles, InitTrapped, InitFails,
         InitReset, InitImport, InitClean, WatchdogVanishes, SlapdStops, SlapdQuits,
         Deploy, Tick
<1>23. CASE UNCHANGED vars
  BY <1>23
<1> QED
  BY <1>1, <1>2, <1>3, <1>4, <1>5, <1>6, <1>7, <1>8, <1>9, <1>10, <1>11, <1>12, <1>13,
     <1>14, <1>15, <1>16, <1>17, <1>18, <1>19, <1>20, <1>21, <1>22, <1>23 DEF Next,
     Shell, Traps, Phase, Watchdog, Host

\* The phase, slapd and the watchdog stay within their life cycles.
LEMMA ChildStep == Inv /\ [Next]_vars => ChildTypes'
<1> SUFFICES ASSUME Inv, [Next]_vars PROVE ChildTypes'
  OBVIOUS
<1> USE DEF Inv, TypeOK, vars, host, files, flags, phaseVars, servers, storage, shell,
      children, EXIT_USAGE, EXIT_SNAPSHOT, EXIT_INPUT, EXIT_INTERNAL, EXIT_RUNTIME,
      EXIT_EXPIRED, ChildTypes, VerifyStages, InitStages
<1>1. CASE PrepareFails
  <2> PICK status \in {EXIT_USAGE, EXIT_INTERNAL} : Exit(status)
    BY <1>1 DEF PrepareFails
  <2> QED
    BY DEF Exit
<1>2. CASE ForkVerify
  BY <1>2 DEF ForkVerify, ForkPhase, At, Goto
<1>3. CASE VerifyReturns
  BY <1>3 DEF VerifyReturns, PhaseReturns, At, Goto, Leave
<1>4. CASE ForkInit
  BY <1>4 DEF ForkInit, ForkPhase, At, Goto
<1>5. CASE InitReturns
  BY <1>5 DEF InitReturns, PhaseReturns, At, Goto, Leave
<1>6. CASE FindExpired
  BY <1>6 DEF FindExpired, At, Exit
<1>7. CASE StorageFails
  BY <1>7 DEF StorageFails, Exit
<1>8. CASE ForkSlapd
  BY <1>8 DEF ForkSlapd, At, Goto
<1>9. CASE CheckShutdown
  BY <1>9 DEF CheckShutdown, At, Goto, SlapdAfterTerm
<1>10. CASE ForkWatchdog
  BY <1>10 DEF ForkWatchdog, At, Goto
<1>11. CASE PidFileFails
  BY <1>11 DEF PidFileFails, At, KillWatchdog, SlapdAfterTerm
<1>12. CASE PollFlags
  BY <1>12 DEF PollFlags, At, Goto, SlapdAfterTerm
<1>13. CASE Reap
  BY <1>13 DEF Reap, At, Goto, KillWatchdog
<1>14. CASE Cleanup
  BY <1>14 DEF Cleanup, At, Exit
<1>15. CASE forward_shutdown
  BY <1>15 DEF forward_shutdown, SlapdAfterTerm
<1>16. CASE expire_snapshot
  BY <1>16 DEF expire_snapshot, SlapdAfterTerm
<1>17. CASE fail_watchdog
  BY <1>17 DEF fail_watchdog, SlapdAfterTerm
<1>18. CASE VerifyKilled
  BY <1>18 DEF VerifyKilled, PhaseExit
<1>19. CASE VerifyManifest
  BY <1>19 DEF VerifyManifest, PhaseGoto
<1>20. CASE VerifyManifestFails
  BY <1>20 DEF VerifyManifestFails, PhaseExit
<1>21. CASE VerifyTimes
  BY <1>21 DEF VerifyTimes, PhaseGoto, PhaseExit
<1>22. CASE VerifyFiles
  BY <1>22 DEF VerifyFiles, PhaseExit
<1>23. CASE InitTrapped
  BY <1>23 DEF InitTrapped, PhaseExit
<1>24. CASE InitFails
  BY <1>24 DEF InitFails, PhaseExit
<1>25. CASE InitReset
  BY <1>25 DEF InitReset, PhaseGoto
<1>26. CASE InitImport
  BY <1>26 DEF InitImport, PhaseGoto
<1>27. CASE InitClean
  BY <1>27 DEF InitClean, PhaseExit
<1>28. CASE WatchdogReports
  BY <1>28 DEF WatchdogReports
<1>29. CASE WatchdogErrs
  BY <1>29 DEF WatchdogErrs
<1>30. CASE WatchdogVanishes
  BY <1>30 DEF WatchdogVanishes
<1>31. CASE SlapdStops
  BY <1>31 DEF SlapdStops
<1>32. CASE SlapdQuits
  BY <1>32 DEF SlapdQuits
<1>33. CASE Kill
  BY <1>33 DEF Kill, Exit
<1>34. CASE Prepare \/ AssignPhasePid \/ ValidateRevision \/ RemoveVerified \/
            CheckExpiry \/ RecordRevision \/ TruncateActive \/ CopyActive \/
            AssignSlapdPid \/ SlapdWaitReturns \/ WritePidFile \/ PollSlapd \/
            PollWatchdog \/ SuperviseReturns \/ Start \/ Deploy \/ Tick \/ Terminate
  BY <1>34 DEF Prepare, At, Goto, AssignPhasePid, AssignPid, ValidateRevision, Leave,
         RemoveVerified, CheckExpiry, RecordRevision, TruncateActive, CopyActive,
         AssignSlapdPid, SlapdWaitReturns, WritePidFile, PollSlapd, PollWatchdog,
         SuperviseReturns, Verdict, Start, Deploy, Tick, Terminate
<1>35. CASE UNCHANGED vars
  BY <1>35
<1> QED
  BY <1>1, <1>2, <1>3, <1>4, <1>5, <1>6, <1>7, <1>8, <1>9, <1>10, <1>11, <1>12, <1>13,
     <1>14, <1>15, <1>16, <1>17, <1>18, <1>19, <1>20, <1>21, <1>22, <1>23, <1>24, <1>25,
     <1>26, <1>27, <1>28, <1>29, <1>30, <1>31, <1>32, <1>33, <1>34, <1>35 DEF Next,
     Shell, Traps, Phase, Watchdog, Host

\* Nothing that runs beside the shell, and no restart, invalidates what the
\* startup has verified, copied, admitted or built before the shell uses it.
LEMMA BuildStep == Inv /\ [Next]_vars => BuildInv'
<1> SUFFICES ASSUME Inv, [Next]_vars PROVE BuildInv'
  OBVIOUS
<1> USE DEF Inv, TypeOK, vars, host, files, flags, phaseVars, servers, storage, shell,
      children, EXIT_USAGE, EXIT_SNAPSHOT, EXIT_INPUT, EXIT_INTERNAL, EXIT_RUNTIME,
      EXIT_EXPIRED, ChildTypes, BuildInv, PhaseIsWaitedFor, PhaseSucceeded, Verified,
      Copied, Admitted, Built, PhasePidKnown, VerifyStages, InitStages, Startup,
      Supervision
<1>1. CASE Prepare
  BY <1>1 DEF Prepare, At, Goto
<1>2. CASE ForkVerify
  BY <1>2 DEF ForkVerify, ForkPhase, At, Goto
<1>3. CASE AssignPhasePid
  BY <1>3 DEF AssignPhasePid, AssignPid, At, Goto
<1>4. CASE VerifyReturns
  BY <1>4 DEF VerifyReturns, PhaseReturns, At, Goto, Leave
<1>5. CASE ValidateRevision
  BY <1>5 DEF ValidateRevision, At, Goto, Leave
<1>6. CASE ForkInit
  BY <1>6 DEF ForkInit, ForkPhase, At, Goto
<1>7. CASE InitReturns
  BY <1>7 DEF InitReturns, PhaseReturns, At, Goto, Leave
<1>8. CASE RemoveVerified
  BY <1>8 DEF RemoveVerified, At, Goto
<1>9. CASE CheckExpiry
  BY <1>9 DEF CheckExpiry, At, Goto
<1>10. CASE RecordRevision
  BY <1>10 DEF RecordRevision, At, Goto
<1>11. CASE TruncateActive
  BY <1>11 DEF TruncateActive, At, Goto
<1>12. CASE CopyActive
  BY <1>12 DEF CopyActive, At, Goto
<1>13. CASE ForkSlapd
  BY <1>13 DEF ForkSlapd, At, Goto
<1>14. CASE VerifyKilled
  BY <1>14 DEF VerifyKilled, PhaseExit
<1>15. CASE VerifyManifest
  BY <1>15 DEF VerifyManifest, PhaseGoto
<1>16. CASE VerifyManifestFails
  BY <1>16 DEF VerifyManifestFails, PhaseExit
<1>17. CASE VerifyTimes
  BY <1>17 DEF VerifyTimes, PhaseGoto, PhaseExit
<1>18. CASE VerifyFiles
  BY <1>18 DEF VerifyFiles, PhaseExit
<1>19. CASE InitTrapped
  BY <1>19 DEF InitTrapped, PhaseExit
<1>20. CASE InitFails
  BY <1>20 DEF InitFails, PhaseExit
<1>21. CASE InitReset
  BY <1>21 DEF InitReset, PhaseGoto
<1>22. CASE InitImport
  BY <1>22 DEF InitImport, PhaseGoto
<1>23. CASE InitClean
  BY <1>23 DEF InitClean, PhaseExit
<1>24. CASE Start
  BY <1>24 DEF Start, Goto
<1>25. CASE FindExpired \/ StorageFails \/ Kill \/ PrepareFails
  BY <1>25 DEF FindExpired, At, Exit, StorageFails, Kill, PrepareFails
<1>26. CASE AssignSlapdPid \/ CheckShutdown \/ SlapdWaitReturns \/ ForkWatchdog \/
            WritePidFile \/ PidFileFails \/ PollSlapd \/ PollWatchdog \/ PollFlags \/
            Reap \/ SuperviseReturns \/ Cleanup
  BY <1>26 DEF AssignSlapdPid, AssignPid, At, Goto, CheckShutdown, SlapdAfterTerm,
         SlapdWaitReturns, Leave, ForkWatchdog, WritePidFile, PidFileFails,
         KillWatchdog, PollSlapd, PollWatchdog, PollFlags, Reap, SuperviseReturns,
         Verdict, Cleanup, Exit
<1>27. CASE Traps \/ Watchdog \/ SlapdStops \/ SlapdQuits \/ Deploy \/ Tick \/ Terminate
  BY <1>27 DEF Traps, forward_shutdown, SlapdAfterTerm, expire_snapshot, fail_watchdog,
         Watchdog, WatchdogReports, WatchdogErrs, WatchdogVanishes, SlapdStops,
         SlapdQuits, Deploy, Tick, Terminate
<1>28. CASE UNCHANGED vars
  BY <1>28
<1> QED
  BY <1>1, <1>2, <1>3, <1>4, <1>5, <1>6, <1>7, <1>8, <1>9, <1>10, <1>11, <1>12, <1>13,
     <1>14, <1>15, <1>16, <1>17, <1>18, <1>19, <1>20, <1>21, <1>22, <1>23, <1>24, <1>25,
     <1>26, <1>27, <1>28 DEF Next, Shell, Traps, Phase, Watchdog, Host

\* Record, active manifest and database agree from the record until the exit:
\* only commands before it write them, and slapd runs only after them.
LEMMA ServingStep == Inv /\ [Next]_vars => ServingInv'
<1> SUFFICES ASSUME Inv, [Next]_vars PROVE ServingInv'
  OBVIOUS
<1> USE DEF Inv, TypeOK, vars, host, files, flags, phaseVars, servers, storage, shell,
      children, EXIT_USAGE, EXIT_SNAPSHOT, EXIT_INPUT, EXIT_INTERNAL, EXIT_RUNTIME,
      EXIT_EXPIRED, ChildTypes, BuildInv, PhaseIsWaitedFor, Verified, Built, ServingInv,
      Recorded, Activated, SlapdAlive, ServedIsBaseline, VerifyStages, InitStages,
      Startup, Supervision
<1>1. CASE Prepare
  BY <1>1 DEF Prepare, At, Goto
<1>2. CASE ForkVerify
  BY <1>2 DEF ForkVerify, ForkPhase, At, Goto
<1>3. CASE AssignPhasePid
  BY <1>3 DEF AssignPhasePid, AssignPid, At, Goto
<1>4. CASE VerifyReturns
  BY <1>4 DEF VerifyReturns, PhaseReturns, At, Goto, Leave
<1>5. CASE ValidateRevision
  BY <1>5 DEF ValidateRevision, At, Goto, Leave
<1>6. CASE ForkInit
  BY <1>6 DEF ForkInit, ForkPhase, At, Goto
<1>7. CASE InitReturns
  BY <1>7 DEF InitReturns, PhaseReturns, At, Goto, Leave
<1>8. CASE RemoveVerified
  BY <1>8 DEF RemoveVerified, At, Goto
<1>9. CASE CheckExpiry
  BY <1>9 DEF CheckExpiry, At, Goto
<1>10. CASE RecordRevision
  BY <1>10 DEF RecordRevision, At, Goto
<1>11. CASE TruncateActive
  BY <1>11 DEF TruncateActive, At, Goto
<1>12. CASE CopyActive
  BY <1>12 DEF CopyActive, At, Goto
<1>13. CASE ForkSlapd
  BY <1>13 DEF ForkSlapd, At, Goto
<1>14. CASE CheckShutdown
  BY <1>14 DEF CheckShutdown, At, Goto, SlapdAfterTerm
<1>15. CASE PidFileFails
  BY <1>15 DEF PidFileFails, At, KillWatchdog, SlapdAfterTerm
<1>16. CASE PollFlags
  BY <1>16 DEF PollFlags, At, Goto, SlapdAfterTerm
<1>17. CASE forward_shutdown
  BY <1>17 DEF forward_shutdown, SlapdAfterTerm
<1>18. CASE expire_snapshot
  BY <1>18 DEF expire_snapshot, SlapdAfterTerm
<1>19. CASE fail_watchdog
  BY <1>19 DEF fail_watchdog, SlapdAfterTerm
<1>20. CASE VerifyManifest
  BY <1>20 DEF VerifyManifest, PhaseGoto
<1>21. CASE VerifyManifestFails
  BY <1>21 DEF VerifyManifestFails, PhaseExit
<1>22. CASE InitReset
  BY <1>22 DEF InitReset, PhaseGoto
<1>23. CASE InitImport
  BY <1>23 DEF InitImport, PhaseGoto
<1>24. CASE SlapdStops
  BY <1>24 DEF SlapdStops
<1>25. CASE SlapdQuits
  BY <1>25 DEF SlapdQuits
<1>26. CASE Start
  BY <1>26 DEF Start, Goto
<1>27. CASE FindExpired \/ StorageFails \/ Kill \/ PrepareFails \/ Cleanup
  BY <1>27 DEF FindExpired, At, Exit, StorageFails, Kill, PrepareFails, Cleanup
<1>28. CASE AssignSlapdPid \/ SlapdWaitReturns \/ ForkWatchdog \/ WritePidFile \/
            PollSlapd \/ PollWatchdog \/ Reap \/ SuperviseReturns
  BY <1>28 DEF AssignSlapdPid, AssignPid, At, Goto, SlapdWaitReturns, Leave,
         ForkWatchdog, WritePidFile, PollSlapd, PollWatchdog, Reap, KillWatchdog,
         SuperviseReturns, Verdict
<1>29. CASE VerifyKilled \/ VerifyTimes \/ VerifyFiles \/ InitTrapped \/ InitFails \/
            InitClean
  BY <1>29 DEF VerifyKilled, PhaseExit, VerifyTimes, PhaseGoto, VerifyFiles,
         InitTrapped, InitFails, InitClean
<1>30. CASE Watchdog \/ Deploy \/ Tick \/ Terminate
  BY <1>30 DEF Watchdog, WatchdogReports, WatchdogErrs, WatchdogVanishes, Deploy, Tick,
         Terminate
<1>31. CASE UNCHANGED vars
  BY <1>31
<1> QED
  BY <1>1, <1>2, <1>3, <1>4, <1>5, <1>6, <1>7, <1>8, <1>9, <1>10, <1>11, <1>12, <1>13,
     <1>14, <1>15, <1>16, <1>17, <1>18, <1>19, <1>20, <1>21, <1>22, <1>23, <1>24, <1>25,
     <1>26, <1>27, <1>28, <1>29, <1>30, <1>31 DEF Next, Shell, Traps, Phase, Watchdog,
     Host

\* The watchdog's signal stays pending until its trap sets the flag, and the
\* flag is set before the shell reaches its verdict.
LEMMA WatchdogStep == Inv /\ [Next]_vars => WatchdogInv'
<1> SUFFICES ASSUME Inv, [Next]_vars PROVE WatchdogInv'
  OBVIOUS
<1> USE DEF Inv, TypeOK, vars, host, files, flags, phaseVars, servers, storage, shell,
      children, EXIT_USAGE, EXIT_SNAPSHOT, EXIT_INPUT, EXIT_INTERNAL, EXIT_RUNTIME,
      EXIT_EXPIRED, ShellTypes, ChildTypes, WatchdogInv, WatchdogVerdictKept, Startup,
      Supervision
<1>1. CASE VerifyReturns
  BY <1>1 DEF VerifyReturns, PhaseReturns, At, Goto, Leave
<1>2. CASE ValidateRevision
  BY <1>2 DEF ValidateRevision, At, Goto, Leave
<1>3. CASE InitReturns
  BY <1>3 DEF InitReturns, PhaseReturns, At, Goto, Leave
<1>4. CASE CheckShutdown
  BY <1>4 DEF CheckShutdown, At, Goto, SlapdAfterTerm
<1>5. CASE SlapdWaitReturns
  BY <1>5 DEF SlapdWaitReturns, At, Leave
<1>6. CASE ForkWatchdog
  BY <1>6 DEF ForkWatchdog, At, Goto
<1>7. CASE PidFileFails
  BY <1>7 DEF PidFileFails, At, KillWatchdog, SlapdAfterTerm
<1>8. CASE PollFlags
  BY <1>8 DEF PollFlags, At, Goto, SlapdAfterTerm
<1>9. CASE Reap
  BY <1>9 DEF Reap, At, Goto, KillWatchdog
<1>10. CASE SuperviseReturns
  BY <1>10 DEF SuperviseReturns, At, Leave, Verdict
<1>11. CASE forward_shutdown
  BY <1>11 DEF forward_shutdown, SlapdAfterTerm
<1>12. CASE expire_snapshot
  BY <1>12 DEF expire_snapshot, SlapdAfterTerm
<1>13. CASE fail_watchdog
  BY <1>13 DEF fail_watchdog, SlapdAfterTerm
<1>14. CASE WatchdogReports
  BY <1>14 DEF WatchdogReports
<1>15. CASE WatchdogErrs
  BY <1>15 DEF WatchdogErrs
<1>16. CASE WatchdogVanishes
  BY <1>16 DEF WatchdogVanishes
<1>17. CASE Start
  <2>1. /\ pc = "exited" /\ pc' = "prepare" /\ watchdog = "none" /\ watchdog' = "none"
         /\ signals' = signals /\ ~watchdog_failed' /\ ~snapshot_expired'
    BY <1>17 DEF Start, Goto
  <2> QED
    BY <2>1
<1>18. CASE Terminate
  BY <1>18 DEF Terminate
<1>19. CASE Prepare \/ ForkVerify \/ AssignPhasePid \/ ForkInit \/ RemoveVerified \/
            CheckExpiry \/ RecordRevision \/ TruncateActive \/ CopyActive \/ ForkSlapd
            \/ AssignSlapdPid \/ WritePidFile \/ PollSlapd \/ PollWatchdog
  BY <1>19 DEF Prepare, At, Goto, ForkVerify, ForkPhase, AssignPhasePid, AssignPid,
         ForkInit, RemoveVerified, CheckExpiry, RecordRevision, TruncateActive,
         CopyActive, ForkSlapd, AssignSlapdPid, WritePidFile, PollSlapd, PollWatchdog
<1>20. CASE FindExpired \/ StorageFails \/ Kill \/ PrepareFails \/ Cleanup
  BY <1>20 DEF FindExpired, At, Exit, StorageFails, Kill, PrepareFails, Cleanup
<1>21. CASE Deploy \/ Tick \/ SlapdStops \/ SlapdQuits \/ Phase
  BY <1>21 DEF Deploy, Tick, SlapdStops, SlapdQuits, Phase, VerifyKilled, PhaseExit,
         VerifyManifest, PhaseGoto, VerifyManifestFails, VerifyTimes, VerifyFiles,
         InitTrapped, InitFails, InitReset, InitImport, InitClean
<1>22. CASE UNCHANGED vars
  BY <1>22
<1> QED
  BY <1>1, <1>2, <1>3, <1>4, <1>5, <1>6, <1>7, <1>8, <1>9, <1>10, <1>11, <1>12, <1>13,
     <1>14, <1>15, <1>16, <1>17, <1>18, <1>19, <1>20, <1>21, <1>22 DEF Next, Shell,
     Traps, Phase, Watchdog, Host

-----------------------------------------------------------------------------
(* The theorems.                                                           *)

\* Inv holds in every reachable state: each check the shell makes is still
\* good when it is relied on, and no signal of the watchdog is lost.
THEOREM Invariance == Spec => []Inv
<1>1. Inv /\ [Next]_vars => Inv'
  BY StorageStep, ShellStep, ChildStep, BuildStep, ServingStep, WatchdogStep DEF Inv, TypeOK
<1> QED
  BY InitialInv, <1>1, PTL DEF Spec

\* Type correctness, for every set of snapshots and any number of restarts.
THEOREM TypeCorrect == Spec => []TypeOK
<1>1. Inv => TypeOK
  BY DEF Inv
<1> QED
  BY Invariance, <1>1, PTL

\* Whenever slapd answers, it answers from the trusted snapshot that is the
\* recorded baseline, the watchdog's manifest and the reported manifest.
THEOREM ServedBaseline == Spec => []ServedIsBaseline
<1>1. Inv => ServedIsBaseline
  BY DEF Inv, ServingInv
<1> QED
  BY Invariance, <1>1, PTL

\* The exit status after supervision is the one the watchdog's signal calls for.
THEOREM VerdictOfWatchdog == Spec => []WatchdogVerdictKept
<1>1. Inv => WatchdogVerdictKept
  BY DEF Inv, WatchdogInv
<1> QED
  BY Invariance, <1>1, PTL

\* Nothing but record_snapshot_revision writes the state file.
LEMMA OnlyRecordRevision == [Next]_vars => RecordRevision \/ UNCHANGED revision_state
<1> SUFFICES ASSUME [Next]_vars PROVE RecordRevision \/ UNCHANGED revision_state
  OBVIOUS
<1> USE DEF vars, host, files, flags, phaseVars, servers, storage, shell, children
<1>1. CASE RecordRevision
  BY <1>1
<1>2. CASE Prepare \/ PrepareFails \/ ForkVerify \/ AssignPhasePid \/ VerifyReturns \/
            ValidateRevision \/ ForkInit \/ InitReturns \/ RemoveVerified \/ CheckExpiry
            \/ FindExpired \/ TruncateActive \/ CopyActive \/ StorageFails
  BY <1>2 DEF Prepare, At, Goto, PrepareFails, Exit, ForkVerify, ForkPhase,
         AssignPhasePid, AssignPid, VerifyReturns, PhaseReturns, Leave,
         ValidateRevision, ForkInit, InitReturns, RemoveVerified, CheckExpiry,
         FindExpired, TruncateActive, CopyActive, StorageFails
<1>3. CASE ForkSlapd \/ AssignSlapdPid \/ CheckShutdown \/ SlapdWaitReturns \/
            ForkWatchdog \/ WritePidFile \/ PidFileFails \/ PollSlapd \/ PollWatchdog \/
            PollFlags \/ Reap \/ SuperviseReturns \/ Cleanup
  BY <1>3 DEF ForkSlapd, At, Goto, AssignSlapdPid, AssignPid, CheckShutdown,
         SlapdAfterTerm, SlapdWaitReturns, Leave, ForkWatchdog, WritePidFile,
         PidFileFails, KillWatchdog, PollSlapd, PollWatchdog, PollFlags, Reap,
         SuperviseReturns, Verdict, Cleanup, Exit
<1>4. CASE Traps \/ Watchdog \/ SlapdStops \/ SlapdQuits \/ Host
  BY <1>4 DEF Traps, forward_shutdown, SlapdAfterTerm, expire_snapshot, fail_watchdog,
         Watchdog, WatchdogReports, WatchdogErrs, WatchdogVanishes, SlapdStops,
         SlapdQuits, Host, Start, Goto, Deploy, Tick, Terminate, Kill, Exit
<1>5. CASE Phase
  BY <1>5 DEF Phase, VerifyKilled, PhaseExit, VerifyManifest, PhaseGoto,
         VerifyManifestFails, VerifyTimes, VerifyFiles, InitTrapped, InitFails,
         InitReset, InitImport, InitClean
<1>6. CASE UNCHANGED vars
  BY <1>6
<1> QED
  BY <1>1, <1>2, <1>3, <1>4, <1>5, <1>6 DEF Next, Shell, Traps, Phase, Watchdog, Host

\* The write of the state file, seen from the invariant.
LEMMA RecordingStep ==
  ASSUME Inv, RecordRevision
  PROVE  /\ database \in Trusted /\ revision_state' = Accepted(database)
         /\ Validate(database, revision_state) = 0
  BY DEF Inv, BuildInv, Verified, Built, Admitted, RecordRevision, At

\* Rollback protection across any sequence of deployments, failures, kills
\* and restarts: the baseline never goes back and never changes its meaning.
THEOREM RollbackProtection == Spec => BaselineMovesForward
<1> DEFINE Forward == /\ revision_state.form # "malformed"
                      /\ \/ revision_state'.revision > revision_state.revision
                         \/ /\ revision_state'.revision = revision_state.revision
                            /\ revision_state.digest = None
<1>1. ASSUME Inv, [Next]_vars PROVE [Forward]_revision_state
  <2>1. CASE RecordRevision
    <3> DEFINE s == database
    <3>1. /\ s \in Snapshots /\ Revision[s] \in Nat \ {0}
          /\ revision_state' = Accepted(s) /\ Validate(s, revision_state) = 0
          /\ revision_state \in Records
      BY <1>1, <2>1, RecordingStep, SnapshotsAssumption, EntrypointAssumption
         DEF Inv, TypeOK, StorageTypes
    <3>2. revision_state # BadRecord
      BY <3>1 DEF Validate, BadRecord, EXIT_INPUT
    <3>3. CASE revision_state = NoRecord
      BY <3>1, <3>3 DEF NoRecord, Accepted
    <3>4. CASE revision_state \in [form : {"record"}, revision : Nat \ {0},
                                  digest : Snapshots \cup {None}]
      <4>1. ~Older(s, revision_state) /\ ~Conflicts(s, revision_state)
        BY <3>1, <3>4 DEF Validate, EXIT_SNAPSHOT
      <4>2. CASE Revision[s] > revision_state.revision
        BY <3>1, <3>4, <4>2 DEF Accepted
      <4>3. CASE Revision[s] = revision_state.revision /\ revision_state.digest = None
        BY <3>1, <3>4, <4>3 DEF Accepted
      <4>4. CASE Revision[s] = revision_state.revision /\ revision_state.digest = s
        BY <3>1, <3>4, <4>4 DEF Accepted
      <4> QED
        BY <3>1, <3>4, <4>1, <4>2, <4>3, <4>4 DEF Older, Conflicts
    <3> QED
      BY <3>1, <3>2, <3>3, <3>4 DEF Records
  <2> QED
    BY <1>1, <2>1, OnlyRecordRevision
<1> QED
  BY Invariance, <1>1, PTL DEF Spec, BaselineMovesForward

\* A snapshot is recorded only when its directory has been built.
THEOREM RecordedAfterBuild == Spec => BaselineWasBuilt
<1>1. Inv /\ [Next]_vars => [/\ database \in Trusted
                              /\ revision_state' = Accepted(database)]_revision_state
  BY RecordingStep, OnlyRecordRevision
<1> QED
  BY Invariance, <1>1, PTL DEF Spec, BaselineWasBuilt

\* What answers LDAP changes only when slapd is started or is gone.
LEMMA ServingChange ==
  Inv /\ [Next]_vars => \/ RecordRevision \/ ForkSlapd
                        \/ Serving' = None \/ Serving' = Serving
<1> SUFFICES ASSUME Inv, [Next]_vars
             PROVE  \/ RecordRevision \/ ForkSlapd
                    \/ Serving' = None \/ Serving' = Serving
  OBVIOUS
<1> USE DEF Serving, SlapdAlive, vars, host, files, flags, phaseVars, servers, storage,
      shell, children
<1>1. CASE RecordRevision
  BY <1>1 DEF RecordRevision, At, Goto
<1>2. CASE ForkSlapd
  BY <1>2 DEF ForkSlapd, At, Goto
<1>3. CASE Prepare \/ ForkVerify \/ AssignPhasePid \/ VerifyReturns \/ ValidateRevision
            \/ ForkInit \/ InitReturns \/ RemoveVerified \/ CheckExpiry \/
            TruncateActive \/ CopyActive \/ Start
  BY <1>3 DEF Prepare, At, Goto, ForkVerify, ForkPhase, AssignPhasePid, AssignPid,
         VerifyReturns, PhaseReturns, Leave, ValidateRevision, ForkInit, InitReturns,
         RemoveVerified, CheckExpiry, TruncateActive, CopyActive, Start
<1>4. CASE FindExpired \/ StorageFails \/ Kill \/ PrepareFails \/ Cleanup
  BY <1>4 DEF FindExpired, At, Exit, StorageFails, Kill, PrepareFails, Cleanup
<1>5. CASE AssignSlapdPid \/ SlapdWaitReturns \/ ForkWatchdog \/ WritePidFile \/
            PollSlapd \/ PollWatchdog \/ Reap \/ SuperviseReturns
  BY <1>5 DEF AssignSlapdPid, AssignPid, At, Goto, SlapdWaitReturns, Leave,
         ForkWatchdog, WritePidFile, PollSlapd, PollWatchdog, Reap, KillWatchdog,
         SuperviseReturns, Verdict
<1>6. CASE CheckShutdown \/ PidFileFails \/ PollFlags
  BY <1>6 DEF CheckShutdown, At, Goto, SlapdAfterTerm, PidFileFails, KillWatchdog,
         PollFlags
<1>7. CASE Traps
  BY <1>7 DEF Traps, forward_shutdown, SlapdAfterTerm, expire_snapshot, fail_watchdog
<1>8. CASE VerifyKilled \/ VerifyManifest \/ VerifyManifestFails \/ VerifyTimes \/
            VerifyFiles \/ InitTrapped \/ InitFails \/ InitClean
  BY <1>8 DEF VerifyKilled, PhaseExit, VerifyManifest, PhaseGoto, VerifyManifestFails,
         VerifyTimes, VerifyFiles, InitTrapped, InitFails, InitClean
<1>9. CASE InitReset \/ InitImport
  BY <1>9 DEF InitReset, PhaseGoto, InitImport, Inv, BuildInv, PhaseIsWaitedFor,
         ServingInv, InitStages, Supervision
<1>10. CASE Watchdog
  BY <1>10 DEF Watchdog, WatchdogReports, WatchdogErrs, WatchdogVanishes
<1>11. CASE SlapdStops \/ SlapdQuits
  BY <1>11 DEF SlapdStops, SlapdQuits
<1>12. CASE Deploy \/ Tick \/ Terminate
  BY <1>12 DEF Deploy, Tick, Terminate
<1>13. CASE UNCHANGED vars
  BY <1>13
<1> QED
  BY <1>1, <1>2, <1>3, <1>4, <1>5, <1>6, <1>7, <1>8, <1>9, <1>10, <1>11, <1>12, <1>13
     DEF Next, Shell, Traps, Phase, Watchdog, Host

\* The entrypoint implements DirectoryService.
THEOREM Implementation == Spec => ServiceSpec
<1>1. ASSUME Init PROVE Service!Init
  BY <1>1, InitialInv DEF Service!Init, Init, Inv, TypeOK, StorageTypes, Serving, SlapdAlive,
                            Service!Records, Records, Service!NoRecord, NoRecord,
                            Service!BadRecord, BadRecord
<1>2. ASSUME Inv, [Next]_vars PROVE [Service!Next]_(Service!vars)
  <2>1. CASE RecordRevision
    <3>1. database \in Snapshots /\ revision_state' = Accepted(database)
      BY <1>2, <2>1, RecordingStep, EntrypointAssumption
    <3>2. Service!MayFollow(database, revision_state)
      BY <1>2, <2>1, <3>1, RecordingStep, SnapshotsAssumption
         DEF Service!MayFollow, Validate, Older, Conflicts, EXIT_INPUT, EXIT_SNAPSHOT, Inv, TypeOK,
             StorageTypes, Records, NoRecord, BadRecord
    <3>3. Serving = None /\ Serving' = None
      BY <1>2, <2>1 DEF RecordRevision, At, Serving, SlapdAlive, Inv, ServingInv, Supervision,
                        Goto, children, servers
    <3> QED
      BY <3>1, <3>2, <3>3 DEF Service!Next, Service!Accept, Service!vars,
                                  Service!Accepted, Accepted
  <2>2. CASE ForkSlapd
    <3>1. revision_state' = revision_state /\ revision_state.digest = database
          /\ database \in Snapshots
      BY <1>2, <2>2, EntrypointAssumption
         DEF ForkSlapd, At, storage, Inv, ServingInv, Recorded, Accepted
    <3>2. Serving = None /\ Serving' = database
      BY <1>2, <2>2 DEF ForkSlapd, At, Goto, storage, files, Serving, SlapdAlive, Inv, ServingInv,
                        Supervision
    <3> QED
      BY <3>1, <3>2 DEF Service!Next, Service!Serve, Service!vars
  <2>3. CASE UNCHANGED revision_state /\ (Serving' = None \/ Serving' = Serving)
    BY <2>3 DEF Service!Next, Service!Withdraw, Service!vars
  <2> QED
    BY <1>2, <2>1, <2>2, <2>3, OnlyRecordRevision, ServingChange
<1> QED
  BY Invariance, <1>1, <1>2, PTL DEF Spec, ServiceSpec, Service!Spec
=============================================================================
