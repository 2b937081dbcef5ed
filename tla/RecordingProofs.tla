---------------------------- MODULE RecordingProofs ----------------------------
(***************************************************************************)
(* Recorders and the slot of a handle, for any number of starts, stops and  *)
(* deletes.                                                                *)
(***************************************************************************)
EXTENDS Recording, TLAPS

USE CallsAssumption DEF Calls

LEMMA InitIInv == Init => IInv
<1> SUFFICES ASSUME Init PROVE IInv
  OBVIOUS
<1>1. TypeOK
  <2>1. interrupts \in [Starts -> 0 .. 1]
    <3>1. 0 \in 0 .. 1
      OBVIOUS
    <3> QED
      BY <3>1 DEF Init
  <2>2. pc \in [Calls -> {"idle"}] /\ proc \in [Starts -> {"none"}]
        /\ target \in [Stops \cup Deletes -> {None}]
    BY DEF Init
  <2>3. recording = None /\ deleted = FALSE /\ tracked = {}
    BY DEF Init
  <2> QED
    BY <2>1, <2>2, <2>3 DEF TypeOK
<1>2. ASSUME NEW s \in Starts PROVE StartInv(s)
  <2>1. pc[s] = "idle" /\ proc[s] = "none" /\ interrupts[s] = 0 /\ recording # s
    BY DEF Init
  <2> QED
    BY <2>1 DEF StartInv
<1>3. ASSUME NEW c \in Stops \cup Deletes PROVE StopInv(c)
  <2>1. target[c] = None
    BY DEF Init
  <2> QED
    BY <2>1 DEF StopInv
<1> QED
  BY <1>1, <1>2, <1>3 DEF IInv

\* Steps of a start and of its child: they disturb what is said of that start
\* alone, but for the slot, which may pass from one child to another.
LEMMA StartStepIInv ==
  ASSUME IInv, NEW s \in Starts, StartStep(s) \/ ChildStep(s)
  PROVE  IInv'
<1> USE DEF IInv, TypeOK, StartInv, StopInv, childVars, Go
<1>1. CASE StartRefused(s)
  BY <1>1 DEF StartRefused
<1>2. CASE Start(s)
  BY <1>2 DEF Start
<1>3. CASE TimerFires(s)
  BY <1>3 DEF TimerFires
<1>4. CASE Publish(s)
  BY <1>4 DEF Publish
<1>5. CASE StartThrows(s)
  BY <1>5 DEF StartThrows
<1>6. CASE SaysStarted(s)
  BY <1>6 DEF SaysStarted
<1>7. CASE Exits(s)
  BY <1>7 DEF Exits
<1>8. CASE CloseEvent(s)
  BY <1>8 DEF CloseEvent
<1> QED
  BY <1>1, <1>2, <1>3, <1>4, <1>5, <1>6, <1>7, <1>8 DEF StartStep, ChildStep

\* A stop or a delete takes the child out of the slot: it was interrupted by nobody,
\* so that nobody is waiting for it.
LEMMA InterruptIInv ==
  ASSUME IInv, NEW c \in Stops \cup Deletes, NEW place \in {"finalizing", "stopping"},
         pc[c] = "idle", recording # None, Interrupt(c), Go(c, place)
  PROVE  IInv'
<1> USE DEF IInv, TypeOK, Interrupt, Go
<1>1. recording \in Starts /\ interrupts[recording] = 0 /\ pc[recording] = "returned"
  BY DEF StartInv
<1>2. TypeOK'
  BY <1>1
<1>3. ASSUME NEW s \in Starts PROVE StartInv(s)'
  BY <1>1 DEF StartInv
<1>4. \A d \in Stops \cup Deletes : target[d] # recording
  BY <1>1 DEF StopInv
<1>5. ASSUME NEW d \in Stops \cup Deletes PROVE StopInv(d)'
  BY <1>1, <1>4 DEF StopInv
<1> QED
  BY <1>2, <1>3, <1>5

LEMMA StopStepIInv ==
  ASSUME IInv, NEW c \in Stops, StopStep(c)
  PROVE  IInv'
<1>1. CASE StopRefused(c)
  BY <1>1 DEF StopRefused, IInv, TypeOK, StartInv, StopInv, childVars, Go
<1>2. CASE Stop(c)
  BY <1>2, InterruptIInv DEF Stop
<1>3. CASE StopReturns(c)
  BY <1>3 DEF StopReturns, IInv, TypeOK, StartInv, StopInv, childVars, Go
<1> QED
  BY <1>1, <1>2, <1>3 DEF StopStep

LEMMA DeleteStepIInv ==
  ASSUME IInv, NEW d \in Deletes, DeleteStep(d)
  PROVE  IInv'
<1>1. CASE DeleteRefused(d)
  BY <1>1 DEF DeleteRefused, IInv, TypeOK, StartInv, StopInv, childVars, Go
<1>2. CASE DeleteStops(d)
  BY <1>2, InterruptIInv DEF DeleteStops
<1>3. CASE DeleteBegins(d)
  BY <1>3 DEF DeleteBegins, IInv, TypeOK, StartInv, StopInv, childVars, Go
<1>4. CASE DeleteEnds(d)
  BY <1>4 DEF DeleteEnds, IInv, TypeOK, StartInv, StopInv, childVars, Go
<1> QED
  BY <1>1, <1>2, <1>3, <1>4 DEF DeleteStep

LEMMA StepIInv == IInv /\ [Next]_vars => IInv'
<1> SUFFICES ASSUME IInv, [Next]_vars PROVE IInv'
  OBVIOUS
<1>1. CASE UNCHANGED vars
  BY <1>1 DEF vars, IInv, TypeOK, StartInv, StopInv
<1>2. CASE Next
  BY <1>2, StartStepIInv, StopStepIInv, DeleteStepIInv DEF Next
<1> QED
  BY <1>1, <1>2

\* The inductive invariant: slot, children and calls stay in step.
THEOREM InductiveInvariant == Spec => []IInv
BY InitIInv, StepIInv, PTL DEF Spec

\* A recorder that is alive and was not interrupted is one that the exit hook knows
\* (capture.ts trackRecording).
THEOREM NoRecorderOutlivesUs == Spec => []NoneOutlivesUs
<1>1. IInv => NoneOutlivesUs
  BY DEF IInv, StartInv, NoneOutlivesUs
<1> QED
  BY <1>1, InductiveInvariant, PTL

\* No recorder whose close was delivered is left in the slot (startRecording after
\* its await).
THEOREM SlotHoldsNoCorpse == Spec => []SlotIsNotACorpse
<1>1. IInv => SlotIsNotACorpse
  BY DEF IInv, TypeOK, StartInv, SlotIsNotACorpse
<1> QED
  BY <1>1, InductiveInvariant, PTL

\* The slot is emptied by the close of its own child or by the one interrupt that
\* this child gets (the close handler of startRecording, stopRecording).
THEOREM SlotIsLostOnlyByItsOwn == Spec => SlotLostOnlyByItsOwn
<1> DEFINE Kept ==
      \A s \in Starts :
        /\ recording = s /\ recording' = None => proc'[s] = "closed" \/ interrupts'[s] = 1
        /\ interrupts'[s] # interrupts[s] =>
             recording = s /\ recording' = None /\ interrupts'[s] = 1
<1>1. IInv /\ [Next]_vars => Kept
  <2> SUFFICES ASSUME IInv, [Next]_vars, NEW s \in Starts
               PROVE  /\ recording = s /\ recording' = None =>
                           proc'[s] = "closed" \/ interrupts'[s] = 1
                      /\ interrupts'[s] # interrupts[s] =>
                           recording = s /\ recording' = None /\ interrupts'[s] = 1
    OBVIOUS
  <2> USE DEF IInv, TypeOK, StartInv, childVars
  <2>1. CASE UNCHANGED vars
    BY <2>1 DEF vars
  <2>2. ASSUME NEW t \in Starts, StartStep(t) \/ ChildStep(t)
        PROVE  /\ interrupts' = interrupts
               /\ recording = s /\ recording' = None => proc'[s] = "closed"
    BY <2>2 DEF StartStep, ChildStep, StartRefused, Start, TimerFires, Publish, StartThrows,
                SaysStarted, Exits, CloseEvent
  <2>3. ASSUME NEW c \in Stops \cup Deletes, recording # None, Interrupt(c)
        PROVE  /\ recording' = None
               /\ interrupts'[s] = IF recording = s THEN 1 ELSE interrupts[s]
    BY <2>3 DEF Interrupt
  <2>4. ASSUME NEW c \in Stops, StopStep(c)
        PROVE  \/ recording # None /\ Interrupt(c)
               \/ recording' = recording /\ interrupts' = interrupts
    BY <2>4 DEF StopStep, StopRefused, Stop, StopReturns
  <2>5. ASSUME NEW d \in Deletes, DeleteStep(d)
        PROVE  \/ recording # None /\ Interrupt(d)
               \/ recording' = recording /\ interrupts' = interrupts
    BY <2>5 DEF DeleteStep, DeleteRefused, DeleteStops, DeleteBegins, DeleteEnds
  <2> QED
    BY <2>1, <2>2, <2>3, <2>4, <2>5 DEF Next
<1>2. IInv /\ [Next]_vars => [Kept]_vars
  BY <1>1
<1> QED
  BY <1>2, InductiveInvariant, PTL DEF Spec, SlotLostOnlyByItsOwn
================================================================================
