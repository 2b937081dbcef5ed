------------------------------ MODULE BootLadder ------------------------------
(***************************************************************************)
(* boot() and waitReady(): the wait until a simulator can be driven         *)
(* (packages/simgadget/src/lifecycle.ts, waitUntilDriveable), with the      *)
(* simctl boot and the window that precede it (simulator.ts).               *)
(*                                                                         *)
(* One wait on one simulator, in its own clock: `now` is the time since     *)
(* waitUntilDriveable began.  A step takes as long as what it awaits, so it *)
(* jumps the clock by any length its timer, deadline or child allows.  The  *)
(* guest is the outcome of the reads.                                       *)
(***************************************************************************)
EXTENDS Integers

CONSTANTS
  Budget,      \* timeoutMs
  Cap,         \* BOOTSTATUS_CAP_MS
  Settle,      \* BOOT_SETTLE_MS
  Tail,        \* RECOVERY_TAIL_MS
  MinPoll,     \* BRIDGE_RECOVERY_MIN_POLL_MS
  Poll,        \* BOOT_POLL_INTERVAL_MS
  MaxLate,     \* how late a timer may fire
  MaxRead,     \* how long a read may take: the companion's start and the RPC's deadline
  MaxRestart,  \* how long simctl may take to restart the bridge
  None

ASSUME TimesAssumption ==
  /\ Budget \in Nat /\ Cap \in Nat /\ Settle \in Nat /\ Tail \in Nat /\ MinPoll \in Nat
  /\ Poll \in Nat \ {0} /\ MaxLate \in Nat /\ MaxRead \in Nat /\ MaxRestart \in Nat
  /\ None \notin Int

VARIABLES
  pc,        \* where the call is
  now,       \* deps.now() - started
  pollStart, \* pollingStarted, or None
  tried,     \* recoveryTried
  restartAt, \* history: when the restart was ordered, or None
  probed,    \* history: a read was begun after the restart
  child,     \* the bootstatus process: "none", "running", "over", "killed"
  timer      \* the cap's timer is pending

waitVars == <<now, pollStart, tried, restartAt, probed>>
bootVars == <<pc, waitVars, child, timer>>

BootInit ==
  /\ pc \in {"boot", "wait"}   \* boot() or waitReady()
  /\ now = 0 /\ pollStart = None
  /\ tried = FALSE /\ restartAt = None /\ probed = FALSE
  /\ child = "none" /\ timer = FALSE

--------------------------------------------------------------------------------
(***************************************************************************)
(* boot(): simctl boot, where "already booted" is no failure, and the       *)
(* window.  Either may throw, and the second finds a handle deleted since.  *)
(***************************************************************************)
Throws ==
  /\ pc \in {"boot", "window"}
  /\ pc' = "threw"
  /\ UNCHANGED <<waitVars, child, timer>>

BootIssued ==
  /\ pc = "boot"
  /\ pc' = "window"
  /\ UNCHANGED <<waitVars, child, timer>>

WindowShown ==
  /\ pc = "window"
  /\ pc' = "wait"
  /\ UNCHANGED <<waitVars, child, timer>>

--------------------------------------------------------------------------------
(***************************************************************************)
(* waitForBootStatus and the settle.                                        *)
(***************************************************************************)
StatusAsked ==
  /\ pc = "wait"
  /\ pc' = "status"
  /\ child' = "running" /\ timer' = TRUE
  /\ UNCHANGED waitVars

\* The child's exit or error calls the timer off, or the cap fires and the child,
\* which has no exit code, is killed.
\* Fault: the timer that lost the race is left pending.
StatusOverForgetful ==
  /\ pc = "status"
  /\ \/ now' \in 0 .. Cap + MaxLate /\ child' = "over"
     \/ now' \in Cap .. Cap + MaxLate /\ child' = "killed"
  /\ timer' = (timer /\ child' = "over")
  /\ pc' = "settling"
  /\ UNCHANGED <<pollStart, tried, restartAt, probed>>

StatusOver ==
  /\ pc = "status"
  /\ \/ now' \in 0 .. Cap + MaxLate /\ child' = "over"
     \/ now' \in Cap .. Cap + MaxLate /\ child' = "killed"
  /\ timer' = FALSE
  /\ pc' = "settling"
  /\ UNCHANGED <<pollStart, tried, restartAt, probed>>

\* The head of the polling loop, at time t.
LoopHead(t) ==
  /\ pc' = IF t < Budget THEN "reading" ELSE "notReady"
  /\ probed' = (probed \/ (tried /\ t < Budget))

Settled ==
  /\ pc = "settling"
  /\ now' \in now + Settle .. now + Settle + MaxLate
  /\ pollStart' = now'
  /\ LoopHead(now')
  /\ UNCHANGED <<tried, restartAt, child, timer>>

--------------------------------------------------------------------------------
(***************************************************************************)
(* The polling loop.                                                        *)
(***************************************************************************)

\* Fault: a fixed age of the polling decides, not the end of the budget.
ShouldAttemptAtAge(t) == t - pollStart > Budget - Cap
ShouldAttemptBootRecovery(t) == Budget - t <= Tail /\ t - pollStart > MinPoll

\* A frame of non-zero size: markAnswered, and the wait is over.
ReadAnswers ==
  /\ pc = "reading"
  /\ now' \in now .. now + MaxRead
  /\ pc' = "ready"
  /\ UNCHANGED <<pollStart, tried, restartAt, probed, child, timer>>

ReadFails ==
  /\ pc = "reading"
  /\ now' \in now .. now + MaxRead
  /\ IF ~tried /\ ShouldAttemptBootRecovery(now')
     THEN pc' = "restarting" /\ tried' = TRUE /\ restartAt' = now'
     ELSE pc' = "sleeping" /\ UNCHANGED <<tried, restartAt>>
  /\ UNCHANGED <<pollStart, probed, child, timer>>

\* The restart returned or failed, which makes no difference.
RestartOver ==
  /\ pc = "restarting"
  /\ now' \in now .. now + MaxRestart
  /\ pc' = "sleeping"
  /\ UNCHANGED <<pollStart, tried, restartAt, probed, child, timer>>

\* Fault: the failed read is repeated at once.
SleptNot ==
  /\ pc = "sleeping"
  /\ LoopHead(now)
  /\ UNCHANGED <<now, pollStart, tried, restartAt, child, timer>>

Slept ==
  /\ pc = "sleeping"
  /\ now' \in now + Poll .. now + Poll + MaxLate
  /\ LoopHead(now')
  /\ UNCHANGED <<pollStart, tried, restartAt, child, timer>>

Ended == pc \in {"ready", "notReady", "threw"}

--------------------------------------------------------------------------------
Step ==
  \/ Throws \/ BootIssued \/ WindowShown
  \/ StatusAsked \/ StatusOver \/ Settled
  \/ ReadAnswers \/ ReadFails \/ RestartOver \/ Slept

BootNext == Step

BootSpec == BootInit /\ [][BootNext]_bootVars

\* Every child, timer and read ends: a read has a deadline, a child that hangs is
\* killed.  That simctl returns from the restart is assumed; it has no timeout.
FairBootSpec == BootSpec /\ WF_bootVars(Step)

--------------------------------------------------------------------------------
Started == pollStart # None

\* The shape of the state, and how far the clock can be at each place.
BootTypeOK ==
  /\ pc \in {"boot", "window", "wait", "status", "settling", "reading", "restarting",
             "sleeping", "ready", "notReady", "threw"}
  /\ now \in Nat /\ pollStart \in Nat \cup {None} /\ restartAt \in Nat \cup {None}
  /\ tried \in BOOLEAN /\ probed \in BOOLEAN
  /\ child \in {"none", "running", "over", "killed"} /\ timer \in BOOLEAN
  /\ tried <=> restartAt # None

Polling ==
  /\ Started <=> pc \in {"reading", "restarting", "sleeping", "ready", "notReady"}
  /\ ~Started => ~tried /\ now <= Cap + MaxLate
  /\ Started => pollStart <= Cap + Settle + 2 * MaxLate
  /\ pc = "restarting" => tried
  /\ pc = "reading" => now < Budget
  /\ pc = "notReady" => now >= Budget

\* Once the polling may begin, neither the bootstatus process nor the timer that
\* caps it is left behind: a pending timer would keep the caller's process alive.
LeavesNothingRunning ==
  /\ timer <=> child = "running"
  /\ pc \in {"settling", "reading", "restarting", "sleeping", "ready", "notReady"} =>
       child \in {"over", "killed"}

\* A failed read that did not earn the restart had time left, or had polled too little.
Unearned ==
  pc = "sleeping" /\ ~tried => ~ShouldAttemptBootRecovery(now)

Overrun ==
  /\ pc = "restarting" => now < Budget + MaxRead
  /\ pc = "sleeping" => now < Budget + MaxRead + MaxRestart
  /\ pc = "ready" => now < Budget + MaxRead

\* The first read after the restart comes one interval after it.
Unprobed ==
  /\ ~tried => ~probed
  /\ pc = "restarting" => ~probed /\ now = restartAt
  /\ pc = "reading" /\ tried => probed
  /\ pc = "sleeping" /\ tried /\ ~probed => now <= restartAt + MaxRestart
  /\ pc = "notReady" /\ tried /\ ~probed => Budget <= restartAt + MaxRestart + Poll + MaxLate

\* The budget is not a ceiling, but the wait outlives it by no more than one read,
\* one restart and one interval, or by the bootstatus wait when the budget is shorter.
Longest(a, b) == IF a > b THEN a ELSE b

EndsInTime ==
  now <= Longest(Budget + MaxRead + MaxRestart + Poll + MaxLate, Cap + Settle + 2 * MaxLate)

BootIInv == BootTypeOK /\ Polling /\ LeavesNothingRunning /\ Unearned /\ Overrun /\ Unprobed
        /\ EndsInTime

\* The shortest budget that leaves room for the longest boot, the shortest polling
\* and one interval; the default has it.
EnoughBudget ==
  /\ Cap + Settle + MinPoll + Poll + 3 * MaxLate < Budget
  /\ Poll + MaxLate <= Tail

\* lifecycle.ts:300 "Carving the attempt out of the end of the budget, instead, means
\* it is always made": given EnoughBudget no wait gives up without having tried the
\* restart, however long the boot took; and it reads again after a restart that a slow
\* read has not pushed to within one restart and one interval of the end.
AttemptBeforeGivingUp ==
  EnoughBudget /\ pc = "notReady" =>
    tried /\ (restartAt + MaxRestart + Poll + MaxLate < Budget => probed)

\* A wait ends, ready or not; it never hangs in the boot, the polling or the restart.
EveryWaitEnds == <>Ended
================================================================================
