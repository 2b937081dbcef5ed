---------------------------- MODULE SimulatorProofs ----------------------------
(***************************************************************************)
(* Proofs about what a Simulator does with the device itself: Teardown, for *)
(* any number of handles and calls, and BootLadder, for every budget, cap,  *)
(* settle and interval.                                                    *)
(***************************************************************************)
EXTENDS Teardown, BootLadder, TLAPS

\* A deletion that is told of is somebody's, and a block has somebody to lift it.  The
\* second claim is what makes the first inductive: a refusal needs a delete to blame.
IInv == TypeOK /\ NotFoundIsOfADelete /\ NotShutOut

LEMMA InitIInv == Init => IInv
<1> SUFFICES ASSUME Init PROVE IInv
  OBVIOUS
<1>1. NewUse \in [pc : UsePlaces, again : BOOLEAN, during : SUBSET Deletes]
      /\ NewCall \in [pc : DelPlaces, h : Handles \cup {NoHandle}]
  BY DEF NewUse, NewCall, UsePlaces, DelPlaces
<1>2. TypeOK
  BY <1>1 DEF Init, TypeOK
<1>3. NotFoundIsOfADelete /\ NotShutOut
  BY DEF Init, NewUse, NewCall, NotFoundIsOfADelete, NotShutOut
<1> QED
  BY <1>2, <1>3 DEF IInv

LEMMA StepTypeOK == TypeOK /\ [Next]_vars => TypeOK'
<1> SUFFICES ASSUME TypeOK, [Next]_vars PROVE TypeOK'
  OBVIOUS
<1> USE DEF TypeOK, UsePlaces, DelPlaces
<1>1. CASE UNCHANGED vars
  BY <1>1 DEF vars
<1>2. ASSUME NEW h \in Handles, AttachFinds(h) \/ AttachReopens(h) PROVE TypeOK'
  BY <1>2 DEF AttachFinds, AttachReopens
<1>3. ASSUME NEW d \in Deletes, DeleteStep(d) PROVE TypeOK'
  <2>1. ASSUME NEW place \in DelPlaces, DelAt(d, place)
        PROVE  del' \in [Deletes -> [pc : DelPlaces, h : Handles \cup {NoHandle}]]
    BY <2>1 DEF DelAt
  <2>2. CASE CompanionRetired(d)
    BY <2>1, <2>2 DEF CompanionRetired
  <2>3. CASE SimctlDeletes(d)
    BY <2>1, <2>3 DEF SimctlDeletes
  <2>4. CASE SimctlFails(d)
    BY <2>1, <2>4 DEF SimctlFails
  <2>5. CASE SimctlFindsNone(d)
    BY <2>1, <2>5 DEF SimctlFindsNone
  <2> QED
    BY <1>3, <2>2, <2>3, <2>4, <2>5 DEF DeleteStep
<1>4. ASSUME NEW d \in Deletes, NEW h \in Handles, DeleteRefused(d, h) \/ DeleteCloses(d, h)
      PROVE  TypeOK'
  <2>1. CASE DeleteRefused(d, h)
    BY <2>1 DEF DeleteRefused
  <2>2. CASE DeleteCloses(d, h)
    BY <2>2 DEF DeleteCloses
  <2> QED
    BY <1>4, <2>1, <2>2
<1>5. ASSUME NEW u \in Uses, UseStep(u) PROVE TypeOK'
  <2>1. ASSUME NEW place \in UsePlaces, UseAt(u, place)
        PROVE  use' \in [Uses -> [pc : UsePlaces, again : BOOLEAN, during : SUBSET Deletes]]
    BY <2>1 DEF UseAt
  <2>2. CASE UseGets(u)
    BY <2>1, <2>2 DEF UseGets
  <2>3. CASE UseReturns(u) \/ UseFails(u) \/ FailureResolved(u)
    BY <2>1, <2>3 DEF UseReturns, UseFails, FailureResolved
  <2>4. CASE UseRetries(u)
    BY <2>4 DEF UseRetries
  <2> QED
    BY <1>5, <2>2, <2>3, <2>4 DEF UseStep
<1>6. ASSUME NEW u \in Uses, NEW h \in Handles, UseRefused(u, h) \/ UseAsks(u, h) PROVE TypeOK'
  BY <1>6 DEF UseRefused, UseAsks, UseAt
<1>7. CASE CompanionDies \/ DeviceVanishes
  BY <1>7 DEF CompanionDies, DeviceVanishes
<1> QED
  BY <1>1, <1>2, <1>3, <1>4, <1>5, <1>6, <1>7 DEF Next

\* Whoever says that the simulator is gone has it from simctl, from somebody who had,
\* or from the block of a delete, which NotShutOut finds.
LEMMA StepNotFoundIsOfADelete ==
  TypeOK /\ NotFoundIsOfADelete /\ NotShutOut /\ [Next]_vars => NotFoundIsOfADelete'
<1> SUFFICES ASSUME TypeOK, NotFoundIsOfADelete, NotShutOut, [Next]_vars
             PROVE  NotFoundIsOfADelete'
  OBVIOUS
<1> USE DEF TypeOK, NotFoundIsOfADelete, Past
<1>1. CASE UNCHANGED vars
  BY <1>1 DEF vars
<1>2. ASSUME NEW h \in Handles, AttachFinds(h) \/ AttachReopens(h) PROVE NotFoundIsOfADelete'
  BY <1>2 DEF AttachFinds, AttachReopens
<1>3. ASSUME NEW d \in Deletes, DeleteStep(d) PROVE NotFoundIsOfADelete'
  <2>1. CASE CompanionRetired(d)
    BY <2>1 DEF CompanionRetired, DelAt
  <2>2. CASE SimctlFails(d)
    BY <2>2 DEF SimctlFails, DelAt
  <2>3. CASE SimctlDeletes(d) \/ SimctlFindsNone(d)
    BY <2>3 DEF SimctlDeletes, SimctlFindsNone
  <2> QED
    BY <1>3, <2>1, <2>2, <2>3 DEF DeleteStep
<1>4. ASSUME NEW d \in Deletes, NEW h \in Handles, DeleteRefused(d, h) \/ DeleteCloses(d, h)
      PROVE  NotFoundIsOfADelete'
  <2>1. CASE DeleteRefused(d, h)
    BY <2>1 DEF DeleteRefused
  <2>2. CASE DeleteCloses(d, h)
    BY <2>2 DEF DeleteCloses
  <2> QED
    BY <1>4, <2>1, <2>2
<1>5. ASSUME NEW u \in Uses, UseStep(u) PROVE NotFoundIsOfADelete'
  <2>1. CASE UseGets(u) /\ closed
    <3>1. use'[u].during = {d \in Deletes : Past(d)}
      BY <2>1 DEF UseGets
    <3>2. device = "there" => \E d \in Deletes : Past(d)
      BY <2>1 DEF NotShutOut
    <3> QED
      BY <2>1, <3>1, <3>2 DEF UseGets
  <2>2. CASE UseGets(u) /\ ~closed
    BY <2>2 DEF UseGets, UseAt
  <2>3. CASE UseRetries(u)
    BY <2>3 DEF UseRetries
  <2>4. CASE UseReturns(u) \/ UseFails(u)
    BY <2>4 DEF UseReturns, UseFails, UseAt
  <2>5. CASE FailureResolved(u)
    BY <2>5 DEF FailureResolved, UseAt
  <2> QED
    BY <1>5, <2>1, <2>2, <2>3, <2>4, <2>5 DEF UseStep
<1>6. ASSUME NEW u \in Uses, NEW h \in Handles, UseRefused(u, h) \/ UseAsks(u, h)
      PROVE  NotFoundIsOfADelete'
  BY <1>6 DEF UseRefused, UseAsks, UseAt
<1>7. CASE CompanionDies \/ DeviceVanishes
  BY <1>7 DEF CompanionDies, DeviceVanishes
<1> QED
  BY <1>1, <1>2, <1>3, <1>4, <1>5, <1>6, <1>7 DEF Next

\* Every way out of a delete lifts the block or leaves no simulator behind.
LEMMA StepNotShutOut == TypeOK /\ NotShutOut /\ [Next]_vars => NotShutOut'
<1> SUFFICES ASSUME TypeOK, NotShutOut, [Next]_vars, closed', device' = "there"
             PROVE  \E d \in Deletes : Past(d)'
  BY DEF NotShutOut
<1> USE DEF TypeOK, NotShutOut, Past
<1>1. CASE UNCHANGED vars
  BY <1>1 DEF vars
<1>2. ASSUME NEW h \in Handles, AttachFinds(h) \/ AttachReopens(h)
      PROVE  \E d \in Deletes : Past(d)'
  BY <1>2 DEF AttachFinds, AttachReopens
<1>3. ASSUME NEW d \in Deletes, DeleteStep(d) PROVE \E e \in Deletes : Past(e)'
  <2>1. CASE CompanionRetired(d)
    BY <2>1 DEF CompanionRetired, DelAt
  <2>2. CASE SimctlDeletes(d) \/ SimctlFails(d) \/ SimctlFindsNone(d)
    BY <2>2 DEF SimctlDeletes, SimctlFails, SimctlFindsNone
  <2> QED
    BY <1>3, <2>1, <2>2 DEF DeleteStep
<1>4. ASSUME NEW d \in Deletes, NEW h \in Handles, DeleteRefused(d, h) \/ DeleteCloses(d, h)
      PROVE  \E e \in Deletes : Past(e)'
  <2>1. CASE DeleteCloses(d, h)
    BY <2>1 DEF DeleteCloses
  <2>2. CASE DeleteRefused(d, h)
    BY <2>2 DEF DeleteRefused
  <2> QED
    BY <1>4, <2>1, <2>2
<1>5. ASSUME NEW u \in Uses, UseStep(u) PROVE \E d \in Deletes : Past(d)'
  BY <1>5 DEF UseStep, UseGets, UseRetries, UseReturns, UseFails, FailureResolved
<1>6. ASSUME NEW u \in Uses, NEW h \in Handles, UseRefused(u, h) \/ UseAsks(u, h)
      PROVE  \E d \in Deletes : Past(d)'
  BY <1>6 DEF UseRefused, UseAsks
<1>7. CASE CompanionDies \/ DeviceVanishes
  BY <1>7 DEF CompanionDies, DeviceVanishes
<1> QED
  BY <1>1, <1>2, <1>3, <1>4, <1>5, <1>6, <1>7 DEF Next

LEMMA Inductive == Spec => []IInv
<1>1. IInv /\ [Next]_vars => IInv'
  BY StepTypeOK, StepNotFoundIsOfADelete, StepNotShutOut DEF IInv
<1> QED
  BY <1>1, InitIInv, PTL DEF Spec

\* While the simulator is there nothing makes a SimulatorNotFoundError or a stale handle
\* but a delete that is under way or has failed (companionFor, delete, withClient).
THEOREM OnlyDeletesOverstate == Spec => []NotFoundIsOfADelete
<1>1. IInv => NotFoundIsOfADelete
  BY DEF IInv
<1> QED
  BY <1>1, Inductive, PTL

\* A simulator that exists is refused companions only while a delete of it is under
\* way (closeCompanion and reopen around delete).
THEOREM NobodyIsShutOut == Spec => []NotShutOut
<1>1. IInv => NotShutOut
  BY DEF IInv
<1> QED
  BY <1>1, Inductive, PTL

--------------------------------------------------------------------------------
(***************************************************************************)
(* The boot ladder.  Its arithmetic does not depend on the numbers the code *)
(* chose, except where EnoughBudget says so.                               *)
(***************************************************************************)
LEMMA InitBootIInv == BootInit => BootIInv
<1> SUFFICES ASSUME BootInit PROVE BootIInv
  OBVIOUS
<1> USE TimesAssumption DEF BootInit
<1>1. BootTypeOK
  BY DEF BootTypeOK
<1>2. Polling
  BY DEF Polling, Started
<1>3. LeavesNothingRunning
  BY DEF LeavesNothingRunning
<1>4. Unearned /\ Overrun /\ Unprobed
  BY DEF Unearned, Overrun, Unprobed
<1>5. EndsInTime
  BY DEF EndsInTime, Longest
<1> QED
  BY <1>1, <1>2, <1>3, <1>4, <1>5 DEF BootIInv

\* Every step keeps the inductive invariant, one step of the proof per action.
LEMMA StepBootIInv == BootIInv /\ [BootNext]_bootVars => BootIInv'
<1> SUFFICES ASSUME BootIInv, [BootNext]_bootVars PROVE BootIInv'
  OBVIOUS
<1> USE TimesAssumption
    DEF BootIInv, BootTypeOK, Polling, Started, LeavesNothingRunning, Unearned, Overrun,
        Unprobed, EndsInTime, Longest, ShouldAttemptBootRecovery
<1>1. CASE Throws
  BY <1>1 DEF Throws, waitVars
<1>2. CASE BootIssued
  BY <1>2 DEF BootIssued, waitVars
<1>3. CASE WindowShown
  BY <1>3 DEF WindowShown, waitVars
<1>4. CASE StatusAsked
  BY <1>4 DEF StatusAsked, waitVars
<1>5. CASE StatusOver
  BY <1>5 DEF StatusOver
<1>6. CASE Settled
  BY <1>6 DEF Settled, LoopHead
<1>7. CASE ReadAnswers
  BY <1>7 DEF ReadAnswers
<1>8. CASE ReadFails
  <2>1. now' \in Nat /\ now' <= now + MaxRead
    BY <1>8 DEF ReadFails
  <2>2. CASE ~tried /\ ShouldAttemptBootRecovery(now')
    BY <1>8, <2>1, <2>2 DEF ReadFails
  <2>3. CASE ~(~tried /\ ShouldAttemptBootRecovery(now'))
    <3>1. pc' = "sleeping" /\ UNCHANGED <<pollStart, tried, restartAt, probed, child, timer>>
      BY <1>8, <2>3 DEF ReadFails
    <3>2. pc = "reading" /\ now < Budget
      BY <1>8 DEF ReadFails
    <3>3. Unearned'
      BY <2>3, <3>1
    <3>4. BootTypeOK' /\ Polling' /\ LeavesNothingRunning' /\ Overrun' /\ Unprobed' /\ EndsInTime'
      BY <2>1, <3>1, <3>2
    <3> QED
      BY <3>3, <3>4
  <2> QED
    BY <2>2, <2>3
<1>9. CASE RestartOver
  BY <1>9 DEF RestartOver
<1>10. CASE Slept
  BY <1>10 DEF Slept, LoopHead
<1>11. CASE UNCHANGED bootVars
  BY <1>11 DEF bootVars, waitVars
<1> QED
  BY <1>1, <1>2, <1>3, <1>4, <1>5, <1>6, <1>7, <1>8, <1>9, <1>10, <1>11 DEF BootNext, Step

\* The clock, the polling, the restart and the bootstatus child stay in step for
\* every choice of the times (waitUntilDriveable, waitForBootStatus).
THEOREM BootInductive == BootSpec => []BootIInv
BY InitBootIInv, StepBootIInv, PTL DEF BootSpec

--------------------------------------------------------------------------------
\* A wait can only give up at the head of the loop.  If it does so without an attempt,
\* its last failed read came too early, and one interval later the budget was not over.
LEMMA GivingUpStep ==
  BootIInv /\ [BootNext]_bootVars /\ AttemptBeforeGivingUp => AttemptBeforeGivingUp'
<1> SUFFICES ASSUME BootIInv, [BootNext]_bootVars, AttemptBeforeGivingUp, EnoughBudget, pc' = "notReady"
             PROVE tried'
  <2>1. ASSUME BootIInv', pc' = "notReady", tried'
        PROVE restartAt' + MaxRestart + Poll + MaxLate < Budget => probed'
    <3>1. PICK r \in Nat : restartAt' = r
      BY <2>1 DEF BootIInv, BootTypeOK
    <3>2. ~probed' => Budget <= r + MaxRestart + Poll + MaxLate
      BY <2>1, <3>1 DEF BootIInv, Unprobed
    <3>3. r + MaxRestart + Poll + MaxLate < Budget => ~(Budget <= r + MaxRestart + Poll + MaxLate)
      BY TimesAssumption
    <3> QED
      BY <3>1, <3>2, <3>3
  <2>2. BootIInv /\ [BootNext]_bootVars => BootIInv'
    BY StepBootIInv
  <2> QED
    BY <2>1, <2>2 DEF AttemptBeforeGivingUp, EnoughBudget
<1> USE TimesAssumption
<1>1. CASE pc = "notReady"
  <2>1. UNCHANGED bootVars
    BY <1>1 DEF BootNext, Step, Throws, BootIssued, WindowShown, StatusAsked, StatusOver,
                Settled, ReadAnswers, ReadFails, RestartOver, Slept
  <2> QED
    BY <1>1, <2>1 DEF bootVars, waitVars, AttemptBeforeGivingUp
<1>2. CASE Settled
  <2>1. now' <= Cap + Settle + 2 * MaxLate
    BY <1>2 DEF Settled, BootIInv, BootTypeOK, Polling, Started
  <2>2. now' < Budget
    BY <1>2, <2>1 DEF EnoughBudget, Settled, BootIInv, BootTypeOK
  <2> QED
    BY <1>2, <2>2 DEF Settled, LoopHead
<1>3. CASE Slept
  <2> SUFFICES ASSUME ~tried PROVE FALSE
    BY <1>3 DEF Slept
  <2>1. now' <= now + Poll + MaxLate /\ now \in Nat /\ now' >= Budget
    BY <1>3 DEF Slept, LoopHead, BootIInv, BootTypeOK
  <2>2. Budget - now > Tail \/ now - pollStart <= MinPoll
    BY <1>3 DEF Slept, BootIInv, BootTypeOK, Polling, Started, Unearned, ShouldAttemptBootRecovery
  <2>3. CASE Budget - now > Tail
    BY <2>1, <2>3 DEF EnoughBudget, BootIInv, BootTypeOK, Slept
  <2>4. CASE now - pollStart <= MinPoll
    BY <1>3, <2>1, <2>4 DEF EnoughBudget, BootIInv, BootTypeOK, Polling, Started, Slept
  <2> QED
    BY <2>2, <2>3, <2>4
<1> QED
  BY <1>1, <1>2, <1>3
  DEF BootNext, Step, Throws, BootIssued, WindowShown, StatusAsked, StatusOver,
      ReadAnswers, ReadFails, RestartOver, bootVars

\* "It is always made": whatever the boot, the reads and the restart cost, a wait whose
\* budget covers the longest boot never gives up on a bridge it did not restart.
THEOREM AttemptIsMade == BootSpec => []AttemptBeforeGivingUp
<1>1. BootInit => AttemptBeforeGivingUp
  BY DEF BootInit, AttemptBeforeGivingUp
<1> QED
  BY <1>1, BootInductive, GivingUpStep, PTL DEF BootSpec

\* The caller waits for no longer than its budget, one read, one restart and one
\* interval, or for the bootstatus wait and the settle where the budget is shorter.
THEOREM WaitIsBounded == BootSpec => []EndsInTime
<1>1. BootIInv => EndsInTime
  BY DEF BootIInv
<1> QED
  BY <1>1, BootInductive, PTL
================================================================================
