------------------------ MODULE ExpiryWatchdogProofs ------------------------
(***************************************************************************)
(* The overrun of an expired snapshot is bounded, and a stop is near its   *)
(* expiry, for every deadline, every length of the two sleeps and every    *)
(* sequence of clock changes.                                              *)
(***************************************************************************)
EXTENDS ExpiryWatchdog, TLAPS

\* The sleeps start within their limits.
LEMMA InitialInv == Init => Inv
<1> SUFFICES ASSUME Init PROVE Inv
  OBVIOUS
<1>1. TypeOK
  <2>1. LongAgo \in Nat /\ since \in {0, LongAgo}
    BY WatchdogAssumption DEF Init, LongAgo
  <2>2. since \in 0..LongAgo
    BY <2>1
  <2> QED
    BY <2>2, WatchdogAssumption DEF Init, TypeOK
<1>2. Covered
  BY WatchdogAssumption DEF Init, Covered
<1> QED
  BY <1>1, <1>2 DEF Inv

\* While one quantity grows by at most a unit, another shrinks by a unit.
LEMMA Compensation ==
  ASSUME NEW more \in Nat, NEW more1 \in Nat, more1 <= more + 1,
         NEW less \in Nat, NEW less1 \in Nat, less1 = less - 1
  PROVE  more1 + less1 <= more + less
  OBVIOUS

\* A report is no older than what has elapsed of the nap that it came in.
LEMMA Pending ==
  ASSUME Inv, Elapse, usr1
  PROVE  since' + nap' <= PollSleep
<1>1. since \in Nat /\ nap \in Nat /\ PollSleep \in Nat /\ since + nap <= PollSleep
  BY WatchdogAssumption DEF Inv, TypeOK, Covered, LongAgo
<1>2. since' \in Nat /\ since' <= since + 1
  BY <1>1 DEF Elapse, LongAgo
<1>3. nap' \in Nat /\ nap' = nap - 1
  BY <1>1 DEF Elapse, Less
<1>4. since' + nap' <= since + nap
  BY <1>1, <1>2, <1>3, Compensation
<1>5. since + nap \in Int /\ since' + nap' \in Int
  BY <1>1, <1>2, <1>3
<1> QED
  BY <1>1, <1>4, <1>5

\* One step: only a sleep that starts, ends or elapses moves the bound.
LEMMA StepInv == Inv /\ [Next]_vars => Inv'
<1> SUFFICES ASSUME Inv, [Next]_vars PROVE Inv'
  OBVIOUS
<1> USE WatchdogAssumption DEF Inv, TypeOK, Covered, Expired, LongAgo, history
<1>1. CASE Sleep
  <2>1. overrun = 0 /\ alarm' = Capped(ExpiresAt - wall)
    BY <1>1 DEF Sleep
  <2>2. Capped(ExpiresAt - wall) \in Nat /\ Capped(ExpiresAt - wall) <= MaxSleep
    BY <1>1 DEF Sleep, Capped
  <2> QED
    BY <1>1, <2>1, <2>2 DEF Sleep
<1>2. CASE Wake
  BY <1>2 DEF Wake
<1>3. CASE Report
  BY <1>3 DEF Report
<1>4. CASE ExpireSnapshot
  BY <1>4 DEF ExpireSnapshot
<1>5. CASE Poll
  BY <1>5 DEF Poll
<1>6. CASE Elapse
  <2>1. /\ wall \in Int /\ nap \in Nat /\ alarm \in Nat /\ overrun \in Nat
        /\ MaxSleep \in Nat /\ PollSleep \in Nat /\ ExpiresAt \in Int
    OBVIOUS
  <2>2. /\ UNCHANGED <<watchdog, usr1, slapd>>
        /\ wall' = wall + 1 /\ nap > 0 /\ (watchdog # "gone" => alarm > 0)
        /\ nap' = Less(nap) /\ alarm' = Less(alarm)
        /\ overrun' = IF slapd = "running" /\ wall' >= ExpiresAt THEN overrun + 1 ELSE 0
        /\ since' = IF wall' >= ExpiresAt THEN 0 ELSE IF since < LongAgo THEN since + 1 ELSE LongAgo
    BY <1>6 DEF Elapse
  <2>3. /\ wall' \in Int /\ nap' \in Nat /\ nap' = nap - 1
        /\ alarm' \in Nat /\ alarm' <= alarm /\ (watchdog # "gone" => alarm' = alarm - 1)
    BY <2>1, <2>2 DEF Less
  <2>4. overrun' \in Nat /\ overrun' <= overrun + 1 /\ (~Expired' => overrun' = 0)
    BY <2>1, <2>2, <2>3
  <2>5. /\ since' \in 0..LongAgo /\ (Expired' => since' = 0) /\ since' <= since + 1
    BY <2>1, <2>2, <2>3
  <2>6. usr1 => since' + nap' <= PollSleep
    BY <1>6, Pending
  <2>7. TypeOK'
    BY <2>2, <2>3, <2>4, <2>5
  <2>8. CASE watchdog = "gone"
    <3>1. overrun' + nap' <= overrun + nap
      BY <2>1, <2>3, <2>4, Compensation
    <3> QED
      BY <2>1, <2>2, <2>3, <2>4, <2>7, <2>8, <2>5, <2>6, <3>1
  <2>9. CASE watchdog # "gone"
    <3>1. overrun' + alarm' <= overrun + alarm
      BY <2>1, <2>3, <2>4, <2>9, Compensation
    <3> QED
      BY <2>1, <2>2, <2>3, <2>4, <2>7, <2>9, <2>5, <2>6, <3>1
  <2> QED
    BY <2>8, <2>9
<1>7. CASE SetClock
  BY <1>7 DEF SetClock
<1>8. CASE UNCHANGED vars
  BY <1>8 DEF vars
<1> QED
  BY <1>1, <1>2, <1>3, <1>4, <1>5, <1>6, <1>7, <1>8 DEF Next

\* slapd is told to stop at most one capped sleep and one poll after expiry.
THEOREM BoundedOverrun == Spec => []OverrunBounded
<1>1. Inv => OverrunBounded
  BY WatchdogAssumption DEF Inv, TypeOK, Covered, OverrunBounded
<1> QED
  BY InitialInv, StepInv, <1>1, PTL DEF Spec

\* slapd is told to stop only within one poll after the clock was past expiry.
THEOREM StopNearExpiry == Spec => StoppedNearExpiry
<1>1. Inv /\ [Next]_vars => [slapd' # slapd => since <= PollSleep]_vars
  BY WatchdogAssumption DEF Inv, TypeOK, Covered, LongAgo, Next, Sleep, Wake, Report, ExpireSnapshot,
     Poll, Elapse, SetClock, vars
<1> QED
  BY InitialInv, StepInv, <1>1, PTL DEF Spec, StoppedNearExpiry
=============================================================================
