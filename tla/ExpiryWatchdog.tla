---------------------------- MODULE ExpiryWatchdog ----------------------------
(***************************************************************************)
(* The expiry watchdog of scripts/entrypoint.sh in real time.  date reads  *)
(* the wall clock, which the host may set, and which leaps ahead of every  *)
(* sleep when the host was suspended; sleep counts time that elapses.      *)
(* Commands take no time: time passes only while every process sleeps.     *)
(***************************************************************************)
EXTENDS Integers

CONSTANTS ExpiresAt,   \* expires_at of the manifest
          MaxSleep,    \* the longest sleep of the watchdog, 60 s
          PollSleep,   \* the sleep of the polling loop, 1 s
          Start,       \* the wall clock when the watchdog is forked
          MaxTime,     \* bound on the wall clock
          Leaps        \* by how much the wall clock may be set at once

ASSUME WatchdogAssumption ==
  /\ ExpiresAt \in Int /\ Start \in Int /\ MaxTime \in Int
  /\ MaxSleep \in Nat \ {0} /\ PollSleep \in Nat \ {0}
  /\ Leaps \subseteq Int

VARIABLES wall,       \* the wall clock
          watchdog,   \* what the subshell is doing
          alarm,      \* what is left of its sleep
          nap,        \* what is left of the sleep of the polling loop
          usr1,       \* USR1 is pending at the shell
          slapd,
          overrun,    \* for how long slapd was left running past expiry
          since       \* how long ago the wall clock last was past expiry

history == <<overrun, since>>
vars    == <<wall, watchdog, alarm, nap, usr1, slapd, history>>

\* Longer ago than any stop may come; or never.
LongAgo == PollSleep + 1

TypeOK ==
  /\ wall \in Int
  /\ watchdog \in {"awake", "asleep", "gone"}
  /\ alarm \in Nat /\ nap \in Nat /\ overrun \in Nat /\ since \in 0..LongAgo
  /\ usr1 \in BOOLEAN
  /\ slapd \in {"running", "stopping"}

Expired == wall >= ExpiresAt

Init ==
  /\ wall = Start
  /\ watchdog = "awake" /\ alarm = 0 /\ nap = 0
  /\ usr1 = FALSE /\ slapd = "running" /\ overrun = 0
  /\ since = IF Expired THEN 0 ELSE LongAgo

Capped(seconds) == IF seconds > MaxSleep THEN MaxSleep ELSE seconds

\* Variant: sleep until expiry without looking at the clock in between.
SleepThroughout ==
  /\ watchdog = "awake" /\ ~Expired
  /\ watchdog' = "asleep" /\ alarm' = ExpiresAt - wall
  /\ UNCHANGED <<wall, nap, usr1, slapd, history>>

Sleep ==
  /\ watchdog = "awake" /\ ~Expired
  /\ watchdog' = "asleep" /\ alarm' = Capped(ExpiresAt - wall)
  /\ UNCHANGED <<wall, nap, usr1, slapd, history>>

\* Variant: the end of the sleep is taken for the expiry of the snapshot.
WakeAndReport ==
  /\ watchdog = "asleep" /\ alarm = 0
  /\ watchdog' = "gone" /\ usr1' = TRUE
  /\ UNCHANGED <<wall, alarm, nap, slapd, history>>

Wake ==
  /\ watchdog = "asleep" /\ alarm = 0
  /\ watchdog' = "awake"
  /\ UNCHANGED <<wall, alarm, nap, usr1, slapd, history>>

Report ==
  /\ watchdog = "awake" /\ Expired
  /\ watchdog' = "gone" /\ usr1' = TRUE
  /\ UNCHANGED <<wall, alarm, nap, slapd, history>>

\* A trap waits until the foreground command, sleep, has ended.
ExpireSnapshot ==
  /\ usr1 /\ nap = 0
  /\ usr1' = FALSE /\ slapd' = "stopping"
  /\ UNCHANGED <<wall, watchdog, alarm, nap, history>>

Poll ==
  /\ ~usr1 /\ nap = 0
  /\ nap' = PollSleep
  /\ UNCHANGED <<wall, watchdog, alarm, usr1, slapd, history>>

Less(time) == IF time = 0 THEN 0 ELSE time - 1

Elapse ==
  /\ nap > 0 /\ (watchdog = "gone" \/ alarm > 0)
  /\ wall < MaxTime
  /\ wall' = wall + 1
  /\ nap' = Less(nap) /\ alarm' = Less(alarm)
  /\ overrun' = IF slapd = "running" /\ wall' >= ExpiresAt THEN overrun + 1 ELSE 0
  /\ since' = IF wall' >= ExpiresAt THEN 0 ELSE IF since < LongAgo THEN since + 1 ELSE LongAgo
  /\ UNCHANGED <<watchdog, usr1, slapd>>

SetClock ==
  /\ \E leap \in Leaps : wall' = wall + leap /\ wall' \in Start .. MaxTime
  /\ overrun' = IF wall' >= ExpiresAt THEN overrun ELSE 0
  /\ since' = IF wall' >= ExpiresAt THEN 0 ELSE since
  /\ UNCHANGED <<watchdog, alarm, nap, usr1, slapd>>

Next == Sleep \/ Wake \/ Report \/ ExpireSnapshot \/ Poll \/ Elapse \/ SetClock

Spec == Init /\ [][Next]_vars

-----------------------------------------------------------------------------
\* However the wall clock is set, slapd is told to stop at most one capped
\* sleep and one poll after its snapshot expired by that clock (IP0004).
OverrunBounded == slapd = "running" => overrun <= MaxSleep + PollSleep

\* slapd is told to stop only if the wall clock was past expiry no longer than
\* one poll ago.  A clock that is set back after the report does not revoke the
\* stop, but no report is ever older, nor the end of a sleep taken for expiry.
StoppedNearExpiry == [][slapd' # slapd => since <= PollSleep]_vars

\* Why both hold: a sleep begins before expiry, and what has overrun since is
\* covered by what has elapsed of the sleep; and while a report is pending only
\* the nap that it came in elapses.
Covered ==
  /\ ~Expired => overrun = 0
  /\ Expired => since = 0
  /\ usr1 => since + nap <= PollSleep
  /\ alarm <= MaxSleep /\ nap <= PollSleep
  /\ usr1 => watchdog = "gone"
  /\ watchdog = "awake" => alarm = 0
  /\ slapd = "running" =>
       /\ watchdog = "asleep" => overrun + alarm <= MaxSleep
       /\ watchdog = "awake" => overrun <= MaxSleep
       /\ watchdog = "gone" => usr1 /\ overrun + nap <= MaxSleep + PollSleep

Inv == TypeOK /\ Covered
=============================================================================
