--------------------------- MODULE CompanionsProofs ---------------------------
(***************************************************************************)
(* Proofs about Companions for any number of callers and spawns.            *)
(***************************************************************************)
EXTENDS Companions, TLAPS

USE DEF None

LEMMA InitIInv == Init => IInv
<1> SUFFICES ASSUME Init PROVE IInv
  OBVIOUS
<1> USE GenerationAssumption DEF Init, Fresh, Generations
<1>1. TypeOK
  <2>1. queue \in Seq(Writers)
    OBVIOUS
  <2>2. 1 \in 1 .. MaxGeneration + 1
    OBVIOUS
  <2>3. /\ proc \in [Generations -> ProcState]
        /\ client \in [Generations -> {"none", "open", "closed"}]
        /\ pc \in [Actors -> PC]
        /\ using \in [Actors -> Generations \cup {None}]
        /\ runs \in [Callers -> 0 .. 2]
    BY DEF ProcState, PC
  <2>4. QED
    BY <2>1, <2>2, <2>3 DEF TypeOK, Stage
<1>2. /\ FreshIsUntouched /\ SpawnInFlight /\ ExitIsFinal
      /\ PublishedWasSpawned /\ ActorsHoldRealInstances
  BY DEF FreshIsUntouched, SpawnInFlight, ExitIsFinal, PublishedWasSpawned,
         ActorsHoldRealInstances
<1>3. RunsByPlace /\ RunningIsHead /\ InputOnceAndAlone
  BY DEF RunsByPlace, RunningIsHead, InputOnceAndAlone, Inside, Callers, Actors
<1>4. NoOrphan /\ SigtermIsWatched /\ RegisteredIsUsable /\ ClosedIsQuiet
  BY DEF NoOrphan, SigtermIsWatched, RegisteredIsUsable, ClosedIsQuiet
<1> QED
  BY <1>1, <1>2, <1>3, <1>4 DEF IInv

LEMMA EnqueueStep ==
  ASSUME IInv, NEW w \in Writers, Enqueue(w)
  PROVE  IInv'
<1> USE GenerationAssumption, ActorsAssumption DEF IInv, TypeOK, Enqueue, instVars, spawnVars
<1>1. TypeOK'
  BY DEF Stage, ProcState, PC, Generations, Actors, Callers, SpawnInFlight, ActorsHoldRealInstances, RunsByPlace, PublishedWasSpawned, RunningIsHead, Inside
<1>2. /\ FreshIsUntouched' /\ SpawnInFlight' /\ ExitIsFinal'
      /\ PublishedWasSpawned'
  BY DEF FreshIsUntouched, SpawnInFlight, ExitIsFinal, PublishedWasSpawned, RegisteredIsUsable, ActorsHoldRealInstances, Generations
<1>3. /\ NoOrphan' /\ RegisteredIsUsable'
      /\ registered' = None \/ spawning' = None
  BY DEF SpawnInFlight, FreshIsUntouched, ExitIsFinal, PublishedWasSpawned, NoOrphan, RegisteredIsUsable, ActorsHoldRealInstances, Generations
<1>4. ActorsHoldRealInstances' /\ RunsByPlace'
  BY DEF ActorsHoldRealInstances, PublishedWasSpawned, SpawnInFlight, RunsByPlace, RegisteredIsUsable, Retryable, Callers, Actors, Generations
<1>5. RunningIsHead' /\ InputOnceAndAlone'
  BY DEF RunningIsHead, InputOnceAndAlone, Inside, RunsByPlace, Retryable, Callers, Actors
<1>6. SigtermIsWatched'
  BY DEF SigtermIsWatched, SpawnInFlight, ExitIsFinal, ActorsHoldRealInstances, RegisteredIsUsable, PC, Callers, Actors, Generations
<1>7. ClosedIsQuiet'
  BY DEF ClosedIsQuiet, ActorsHoldRealInstances, PC, Callers, Actors, Generations
<1> QED
  BY <1>1, <1>2, <1>3, <1>4, <1>5, <1>6, <1>7

LEMMA RefusedStep ==
  ASSUME IInv, NEW c \in Callers, CompanionForRefused(c)
  PROVE  IInv'
<1> USE GenerationAssumption, ActorsAssumption DEF IInv, TypeOK, CompanionForRefused, Asking, LeaveQueue, instVars, spawnVars
<1>1. TypeOK'
  BY DEF Stage, ProcState, PC, Generations, Actors, Callers, SpawnInFlight, ActorsHoldRealInstances, RunsByPlace, PublishedWasSpawned, RunningIsHead, Inside
<1>2. /\ FreshIsUntouched' /\ SpawnInFlight' /\ ExitIsFinal'
      /\ PublishedWasSpawned'
  BY DEF FreshIsUntouched, SpawnInFlight, ExitIsFinal, PublishedWasSpawned, RegisteredIsUsable, ActorsHoldRealInstances, Generations
<1>3. /\ NoOrphan' /\ RegisteredIsUsable'
      /\ registered' = None \/ spawning' = None
  BY DEF SpawnInFlight, FreshIsUntouched, ExitIsFinal, PublishedWasSpawned, NoOrphan, RegisteredIsUsable, ActorsHoldRealInstances, Generations
<1>4. ActorsHoldRealInstances' /\ RunsByPlace'
  BY DEF ActorsHoldRealInstances, PublishedWasSpawned, SpawnInFlight, RunsByPlace, RegisteredIsUsable, Retryable, Callers, Actors, Generations
<1>5. RunningIsHead' /\ InputOnceAndAlone'
  BY DEF RunningIsHead, InputOnceAndAlone, Inside, RunsByPlace, Retryable, Callers, Actors
<1>6. SigtermIsWatched'
  BY DEF SigtermIsWatched, SpawnInFlight, ExitIsFinal, ActorsHoldRealInstances, RegisteredIsUsable, PC, Callers, Actors, Generations
<1>7. ClosedIsQuiet'
  BY DEF ClosedIsQuiet, ActorsHoldRealInstances, PC, Callers, Actors, Generations
<1> QED
  BY <1>1, <1>2, <1>3, <1>4, <1>5, <1>6, <1>7

LEMMA RegisteredStep ==
  ASSUME IInv, NEW c \in Callers, CompanionForRegistered(c)
  PROVE  IInv'
<1> USE GenerationAssumption, ActorsAssumption DEF IInv, TypeOK, CompanionForRegistered, Asking, instVars, spawnVars
<1>1. TypeOK'
  BY DEF Stage, ProcState, PC, Generations, Actors, Callers, SpawnInFlight, ActorsHoldRealInstances, RunsByPlace, PublishedWasSpawned, RunningIsHead, Inside
<1>2. /\ FreshIsUntouched' /\ SpawnInFlight' /\ ExitIsFinal'
      /\ PublishedWasSpawned'
  BY DEF FreshIsUntouched, SpawnInFlight, ExitIsFinal, PublishedWasSpawned, RegisteredIsUsable, ActorsHoldRealInstances, Generations
<1>3. /\ NoOrphan' /\ RegisteredIsUsable'
      /\ registered' = None \/ spawning' = None
  BY DEF SpawnInFlight, FreshIsUntouched, ExitIsFinal, PublishedWasSpawned, NoOrphan, RegisteredIsUsable, ActorsHoldRealInstances, Generations
<1>4. ActorsHoldRealInstances' /\ RunsByPlace'
  BY DEF ActorsHoldRealInstances, PublishedWasSpawned, SpawnInFlight, RunsByPlace, RegisteredIsUsable, Retryable, Callers, Actors, Generations
<1>5. RunningIsHead' /\ InputOnceAndAlone'
  BY DEF RunningIsHead, InputOnceAndAlone, Inside, RunsByPlace, Retryable, Callers, Actors
<1>6. SigtermIsWatched'
  BY DEF SigtermIsWatched, SpawnInFlight, ExitIsFinal, ActorsHoldRealInstances, RegisteredIsUsable, PC, Callers, Actors, Generations
<1>7. ClosedIsQuiet'
  BY DEF ClosedIsQuiet, ActorsHoldRealInstances, PC, Callers, Actors, Generations
<1> QED
  BY <1>1, <1>2, <1>3, <1>4, <1>5, <1>6, <1>7

LEMMA SharedStep ==
  ASSUME IInv, NEW c \in Callers, CompanionForShared(c)
  PROVE  IInv'
<1> USE GenerationAssumption, ActorsAssumption DEF IInv, TypeOK, CompanionForShared, Asking, instVars, spawnVars
<1>1. TypeOK'
  BY DEF Stage, ProcState, PC, Generations, Actors, Callers, SpawnInFlight, ActorsHoldRealInstances, RunsByPlace, PublishedWasSpawned, RunningIsHead, Inside
<1>2. /\ FreshIsUntouched' /\ SpawnInFlight' /\ ExitIsFinal'
      /\ PublishedWasSpawned'
  BY DEF FreshIsUntouched, SpawnInFlight, ExitIsFinal, PublishedWasSpawned, RegisteredIsUsable, ActorsHoldRealInstances, Generations
<1>3. /\ NoOrphan' /\ RegisteredIsUsable'
      /\ registered' = None \/ spawning' = None
  BY DEF SpawnInFlight, FreshIsUntouched, ExitIsFinal, PublishedWasSpawned, NoOrphan, RegisteredIsUsable, ActorsHoldRealInstances, Generations
<1>4. ActorsHoldRealInstances' /\ RunsByPlace'
  BY DEF ActorsHoldRealInstances, PublishedWasSpawned, SpawnInFlight, RunsByPlace, RegisteredIsUsable, Retryable, Callers, Actors, Generations
<1>5. RunningIsHead' /\ InputOnceAndAlone'
  BY DEF RunningIsHead, InputOnceAndAlone, Inside, RunsByPlace, Retryable, Callers, Actors
<1>6. SigtermIsWatched'
  BY DEF SigtermIsWatched, SpawnInFlight, ExitIsFinal, ActorsHoldRealInstances, RegisteredIsUsable, PC, Callers, Actors, Generations
<1>7. ClosedIsQuiet'
  BY DEF ClosedIsQuiet, ActorsHoldRealInstances, PC, Callers, Actors, Generations
<1> QED
  BY <1>1, <1>2, <1>3, <1>4, <1>5, <1>6, <1>7

LEMMA SpawnStartStep ==
  ASSUME IInv, NEW c \in Callers, CompanionForSpawn(c)
  PROVE  IInv'
<1> USE GenerationAssumption, ActorsAssumption DEF IInv, TypeOK, CompanionForSpawn, Asking, instVars
<1>1. TypeOK'
  BY DEF Stage, ProcState, PC, Generations, Actors, Callers, SpawnInFlight, ActorsHoldRealInstances, RunsByPlace, PublishedWasSpawned, RunningIsHead, Inside
<1>2. /\ FreshIsUntouched' /\ SpawnInFlight' /\ ExitIsFinal'
      /\ PublishedWasSpawned'
  BY DEF FreshIsUntouched, SpawnInFlight, ExitIsFinal, PublishedWasSpawned, RegisteredIsUsable, ActorsHoldRealInstances, Generations
<1>3. /\ NoOrphan' /\ RegisteredIsUsable'
      /\ registered' = None \/ spawning' = None
  BY DEF SpawnInFlight, FreshIsUntouched, ExitIsFinal, PublishedWasSpawned, NoOrphan, RegisteredIsUsable, ActorsHoldRealInstances, Generations
<1>4. ActorsHoldRealInstances' /\ RunsByPlace'
  BY DEF ActorsHoldRealInstances, PublishedWasSpawned, SpawnInFlight, RunsByPlace, RegisteredIsUsable, Retryable, Callers, Actors, Generations
<1>5. RunningIsHead' /\ InputOnceAndAlone'
  BY DEF RunningIsHead, InputOnceAndAlone, Inside, RunsByPlace, Retryable, Callers, Actors
<1>6. SigtermIsWatched'
  BY DEF SigtermIsWatched, SpawnInFlight, ExitIsFinal, ActorsHoldRealInstances, RegisteredIsUsable, PC, Callers, Actors, Generations
<1>7. ClosedIsQuiet'
  BY DEF ClosedIsQuiet, ActorsHoldRealInstances, PC, Callers, Actors, Generations
<1> QED
  BY <1>1, <1>2, <1>3, <1>4, <1>5, <1>6, <1>7

LEMMA ArrivedStep ==
  ASSUME IInv, NEW c \in Callers, SpawnArrived(c)
  PROVE  IInv'
<1> USE GenerationAssumption, ActorsAssumption DEF IInv, TypeOK, SpawnArrived, instVars, spawnVars
<1>1. TypeOK'
  BY DEF Stage, ProcState, PC, Generations, Actors, Callers, SpawnInFlight, ActorsHoldRealInstances, RunsByPlace, PublishedWasSpawned, RunningIsHead, Inside
<1>2. /\ FreshIsUntouched' /\ SpawnInFlight' /\ ExitIsFinal'
      /\ PublishedWasSpawned'
  BY DEF FreshIsUntouched, SpawnInFlight, ExitIsFinal, PublishedWasSpawned, RegisteredIsUsable, ActorsHoldRealInstances, Generations
<1>3. /\ NoOrphan' /\ RegisteredIsUsable'
      /\ registered' = None \/ spawning' = None
  BY DEF SpawnInFlight, FreshIsUntouched, ExitIsFinal, PublishedWasSpawned, NoOrphan, RegisteredIsUsable, ActorsHoldRealInstances, Generations
<1>4. ActorsHoldRealInstances' /\ RunsByPlace'
  BY DEF ActorsHoldRealInstances, PublishedWasSpawned, SpawnInFlight, RunsByPlace, RegisteredIsUsable, Retryable, Callers, Actors, Generations
<1>5. RunningIsHead' /\ InputOnceAndAlone'
  BY DEF RunningIsHead, InputOnceAndAlone, Inside, RunsByPlace, Retryable, Callers, Actors
<1>6. SigtermIsWatched'
  BY DEF SigtermIsWatched, SpawnInFlight, ExitIsFinal, ActorsHoldRealInstances, RegisteredIsUsable, PC, Callers, Actors, Generations
<1>7. ClosedIsQuiet'
  BY DEF ClosedIsQuiet, ActorsHoldRealInstances, PC, Callers, Actors, Generations
<1> QED
  BY <1>1, <1>2, <1>3, <1>4, <1>5, <1>6, <1>7

LEMMA RejectedStep ==
  ASSUME IInv, NEW c \in Callers, SpawnRejected(c)
  PROVE  IInv'
<1> USE GenerationAssumption, ActorsAssumption DEF IInv, TypeOK, SpawnRejected, LeaveQueue, instVars, spawnVars
<1>1. TypeOK'
  BY DEF Stage, ProcState, PC, Generations, Actors, Callers, SpawnInFlight, ActorsHoldRealInstances, RunsByPlace, PublishedWasSpawned, RunningIsHead, Inside
<1>2. /\ FreshIsUntouched' /\ SpawnInFlight' /\ ExitIsFinal'
      /\ PublishedWasSpawned'
  BY DEF FreshIsUntouched, SpawnInFlight, ExitIsFinal, PublishedWasSpawned, RegisteredIsUsable, ActorsHoldRealInstances, Generations
<1>3. /\ NoOrphan' /\ RegisteredIsUsable'
      /\ registered' = None \/ spawning' = None
  BY DEF SpawnInFlight, FreshIsUntouched, ExitIsFinal, PublishedWasSpawned, NoOrphan, RegisteredIsUsable, ActorsHoldRealInstances, Generations
<1>4. ActorsHoldRealInstances' /\ RunsByPlace'
  BY DEF ActorsHoldRealInstances, PublishedWasSpawned, SpawnInFlight, RunsByPlace, RegisteredIsUsable, Retryable, Callers, Actors, Generations
<1>5. RunningIsHead' /\ InputOnceAndAlone'
  BY DEF RunningIsHead, InputOnceAndAlone, Inside, RunsByPlace, Retryable, Callers, Actors
<1>6. SigtermIsWatched'
  BY DEF SigtermIsWatched, SpawnInFlight, ExitIsFinal, ActorsHoldRealInstances, RegisteredIsUsable, PC, Callers, Actors, Generations
<1>7. ClosedIsQuiet'
  BY DEF ClosedIsQuiet, ActorsHoldRealInstances, PC, Callers, Actors, Generations
<1> QED
  BY <1>1, <1>2, <1>3, <1>4, <1>5, <1>6, <1>7

LEMMA FnReturnsStep ==
  ASSUME IInv, NEW c \in Callers, FnReturns(c)
  PROVE  IInv'
<1> USE GenerationAssumption, ActorsAssumption DEF IInv, TypeOK, FnReturns, LeaveQueue, instVars, spawnVars
<1>1. TypeOK'
  BY DEF Stage, ProcState, PC, Generations, Actors, Callers, SpawnInFlight, ActorsHoldRealInstances, RunsByPlace, PublishedWasSpawned, RunningIsHead, Inside
<1>2. /\ FreshIsUntouched' /\ SpawnInFlight' /\ ExitIsFinal'
      /\ PublishedWasSpawned'
  BY DEF FreshIsUntouched, SpawnInFlight, ExitIsFinal, PublishedWasSpawned, RegisteredIsUsable, ActorsHoldRealInstances, Generations
<1>3. /\ NoOrphan' /\ RegisteredIsUsable'
      /\ registered' = None \/ spawning' = None
  BY DEF SpawnInFlight, FreshIsUntouched, ExitIsFinal, PublishedWasSpawned, NoOrphan, RegisteredIsUsable, ActorsHoldRealInstances, Generations
<1>4. ActorsHoldRealInstances' /\ RunsByPlace'
  BY DEF ActorsHoldRealInstances, PublishedWasSpawned, SpawnInFlight, RunsByPlace, RegisteredIsUsable, Retryable, Callers, Actors, Generations
<1>5. RunningIsHead' /\ InputOnceAndAlone'
  BY DEF RunningIsHead, InputOnceAndAlone, Inside, RunsByPlace, Retryable, Callers, Actors
<1>6. SigtermIsWatched'
  BY DEF SigtermIsWatched, SpawnInFlight, ExitIsFinal, ActorsHoldRealInstances, RegisteredIsUsable, PC, Callers, Actors, Generations
<1>7. ClosedIsQuiet'
  BY DEF ClosedIsQuiet, ActorsHoldRealInstances, PC, Callers, Actors, Generations
<1> QED
  BY <1>1, <1>2, <1>3, <1>4, <1>5, <1>6, <1>7

LEMMA FnFailsStep ==
  ASSUME IInv, NEW c \in Callers, NEW code \in Codes, FnFails(c, code)
  PROVE  IInv'
<1> USE GenerationAssumption, ActorsAssumption DEF IInv, TypeOK, FnFails, LeaveQueue, instVars, spawnVars
<1>1. TypeOK'
  BY DEF Stage, ProcState, PC, Generations, Actors, Callers, SpawnInFlight, ActorsHoldRealInstances, RunsByPlace, PublishedWasSpawned, RunningIsHead, Inside
<1>2. /\ FreshIsUntouched' /\ SpawnInFlight' /\ ExitIsFinal'
      /\ PublishedWasSpawned'
  BY DEF FreshIsUntouched, SpawnInFlight, ExitIsFinal, PublishedWasSpawned, RegisteredIsUsable, ActorsHoldRealInstances, Generations
<1>3. /\ NoOrphan' /\ RegisteredIsUsable'
      /\ registered' = None \/ spawning' = None
  BY DEF SpawnInFlight, FreshIsUntouched, ExitIsFinal, PublishedWasSpawned, NoOrphan, RegisteredIsUsable, ActorsHoldRealInstances, Generations
<1>4. ActorsHoldRealInstances' /\ RunsByPlace'
  BY DEF ActorsHoldRealInstances, PublishedWasSpawned, SpawnInFlight, RunsByPlace, RegisteredIsUsable, Retryable, Callers, Actors, Generations
<1>5. RunningIsHead' /\ InputOnceAndAlone'
  BY DEF RunningIsHead, InputOnceAndAlone, Inside, RunsByPlace, Retryable, Callers, Actors
<1>6. SigtermIsWatched'
  BY DEF SigtermIsWatched, SpawnInFlight, ExitIsFinal, ActorsHoldRealInstances, RegisteredIsUsable, PC, Callers, Actors, Generations
<1>7. ClosedIsQuiet'
  BY DEF ClosedIsQuiet, ActorsHoldRealInstances, PC, Callers, Actors, Generations
<1> QED
  BY <1>1, <1>2, <1>3, <1>4, <1>5, <1>6, <1>7

(***************************************************************************)
(* The synchronous part of a retirement, whoever retires, of an instance    *)
(* that was published.                                                      *)
(***************************************************************************)
LEMMA RetireFirstStep ==
  ASSUME IInv, NEW g \in ready, RetireFirst(g), UNCHANGED spawnVars
  PROVE  /\ FreshIsUntouched' /\ SpawnInFlight' /\ ExitIsFinal'
         /\ PublishedWasSpawned'
         /\ NoOrphan' /\ RegisteredIsUsable'
         /\ registered' = None \/ spawning' = None
         /\ registered' # g
<1> USE GenerationAssumption DEF IInv, TypeOK, RetireFirst, SigTerm, spawnVars,
        Generations
<1>1. FreshIsUntouched'
  BY DEF FreshIsUntouched
<1>2. SpawnInFlight'
  BY DEF SpawnInFlight
<1>3. ExitIsFinal'
  BY DEF ExitIsFinal
<1>4. PublishedWasSpawned'
  BY DEF PublishedWasSpawned
<1>5. NoOrphan'
  BY DEF NoOrphan, ExitIsFinal
<1>6. RegisteredIsUsable'
  BY DEF RegisteredIsUsable
<1> QED
  BY <1>1, <1>2, <1>3, <1>4, <1>5, <1>6

LEMMA DeadChannelStep ==
  ASSUME IInv, NEW c \in Callers, NEW code \in Codes, FnDeadChannel(c, code)
  PROVE  IInv'
<1> USE GenerationAssumption, ActorsAssumption
        DEF IInv, FnDeadChannel, callVars
<1> DEFINE g == using[c]
<1>0. g \in ready /\ RetireFirst(g) /\ UNCHANGED spawnVars
  BY DEF ActorsHoldRealInstances, Actors
<1>1. TypeOK'
  BY DEF TypeOK, ProcState, PC, Generations, Actors, Callers, RetireFirst,
         SigTerm, AfterRetireFirst, spawnVars
<1>2. /\ FreshIsUntouched' /\ SpawnInFlight' /\ ExitIsFinal'
      /\ PublishedWasSpawned'
      /\ NoOrphan' /\ RegisteredIsUsable'
      /\ registered' = None \/ spawning' = None
      /\ registered' # g
  BY <1>0, RetireFirstStep
<1>4. ActorsHoldRealInstances' /\ RunsByPlace'
  BY <1>0, <1>2 DEF TypeOK, ActorsHoldRealInstances, RunsByPlace, RetireFirst,
     AfterRetireFirst, Retryable, spawnVars, Actors, Callers, Generations
<1>5. RunningIsHead' /\ InputOnceAndAlone'
  BY DEF TypeOK, RunningIsHead, InputOnceAndAlone, Inside, AfterRetireFirst,
         Retryable, Actors, Callers
<1>6. SigtermIsWatched'
  BY <1>0 DEF TypeOK, SigtermIsWatched, RetireFirst, SigTerm,
     AfterRetireFirst, PC, Callers, Actors
<1>7. ClosedIsQuiet'
  BY <1>0 DEF TypeOK, ClosedIsQuiet, ActorsHoldRealInstances, RetireFirst,
     AfterRetireFirst, spawnVars, Callers, Actors, Generations
<1> QED
  BY <1>1, <1>2, <1>4, <1>5, <1>6, <1>7

(***************************************************************************)
(* shutdown and close at the point where they retire what is registered:    *)
(* entered with no spawn in flight, or once the awaited one is over.        *)
(***************************************************************************)
LEMMA RetireCurrentStep ==
  ASSUME IInv, NEW s \in Stoppers,
         \/ pc[s] = "idle" /\ spawning = None
         \/ pc[s] = "draining" /\ spawning # using[s],
         RetireCurrent(s), closed' \in {closed, TRUE},
         closed' = closed \/ spawning = None,
         UNCHANGED <<spawnVars, queue, runs>>
  PROVE  IInv'
<1> USE GenerationAssumption, ActorsAssumption DEF IInv
<1>1. CASE registered = None
  <2> USE <1>1 DEF RetireCurrent
  <2>1. TypeOK'
    BY DEF TypeOK, PC, Actors, instVars, spawnVars
  <2>2. /\ FreshIsUntouched' /\ SpawnInFlight' /\ ExitIsFinal'
        /\ PublishedWasSpawned' /\ NoOrphan' /\ RegisteredIsUsable'
        /\ registered' = None \/ spawning' = None
    BY DEF FreshIsUntouched, SpawnInFlight, ExitIsFinal, PublishedWasSpawned,
           NoOrphan, RegisteredIsUsable, instVars, spawnVars
  <2>3. ActorsHoldRealInstances' /\ RunsByPlace'
    BY DEF TypeOK, ActorsHoldRealInstances, RunsByPlace, Callers, Actors,
           instVars, spawnVars
  <2>4. RunningIsHead' /\ InputOnceAndAlone'
    BY DEF TypeOK, RunningIsHead, InputOnceAndAlone, Inside, Callers, Actors
  <2>5. SigtermIsWatched'
    BY DEF TypeOK, SigtermIsWatched, Actors, instVars
  <2>6. ClosedIsQuiet'
    BY DEF TypeOK, ClosedIsQuiet, ActorsHoldRealInstances, Actors, instVars,
           spawnVars
  <2> QED
    BY <2>1, <2>2, <2>3, <2>4, <2>5, <2>6
<1>2. CASE registered # None
  <2> USE <1>2
  <2>0. /\ registered \in ready /\ registered \notin exited
        /\ RetireFirst(registered) /\ UNCHANGED spawnVars
        /\ pc' = [pc EXCEPT ![s] = "retiring"]
        /\ using' = [using EXCEPT ![s] = registered]
        /\ registered' = None
    BY DEF RetireCurrent, RetireFirst, AfterRetireFirst, PublishedWasSpawned,
           RegisteredIsUsable
  <2>1. TypeOK'
    BY <2>0 DEF TypeOK, ProcState, PC, Generations, Actors, RetireFirst,
       SigTerm, spawnVars
  <2>2. /\ FreshIsUntouched' /\ SpawnInFlight' /\ ExitIsFinal'
        /\ PublishedWasSpawned'
        /\ NoOrphan' /\ RegisteredIsUsable'
        /\ registered' = None \/ spawning' = None
    BY <2>0, RetireFirstStep
  <2>3. ActorsHoldRealInstances' /\ RunsByPlace'
    BY <2>0 DEF TypeOK, ActorsHoldRealInstances, RunsByPlace, spawnVars,
       Callers, Actors, Generations
  <2>4. RunningIsHead' /\ InputOnceAndAlone'
    BY <2>0 DEF TypeOK, RunningIsHead, InputOnceAndAlone, Inside, Callers,
       Actors
  <2>5. SigtermIsWatched'
    BY <2>0 DEF TypeOK, SigtermIsWatched, RetireFirst, SigTerm, Actors
  <2>6. ClosedIsQuiet'
    BY <2>0 DEF ClosedIsQuiet, spawnVars
  <2> QED
    BY <2>1, <2>2, <2>3, <2>4, <2>5, <2>6
<1> QED
  BY <1>1, <1>2

LEMMA RetireSeesExitStep ==
  ASSUME IInv, NEW a \in Actors, RetireSeesExit(a)
  PROVE  IInv'
<1> USE GenerationAssumption, ActorsAssumption DEF IInv, TypeOK, RetireSeesExit, AfterRetire, instVars, callVars, spawnVars
<1>1. TypeOK'
  BY DEF Stage, ProcState, PC, Generations, Actors, Callers, SpawnInFlight, ActorsHoldRealInstances, RunsByPlace, PublishedWasSpawned, RunningIsHead, Inside
<1>2. /\ FreshIsUntouched' /\ SpawnInFlight' /\ ExitIsFinal'
      /\ PublishedWasSpawned'
  BY DEF FreshIsUntouched, SpawnInFlight, ExitIsFinal, PublishedWasSpawned, RegisteredIsUsable, ActorsHoldRealInstances, Generations
<1>3. /\ NoOrphan' /\ RegisteredIsUsable'
      /\ registered' = None \/ spawning' = None
  BY DEF SpawnInFlight, FreshIsUntouched, ExitIsFinal, PublishedWasSpawned, NoOrphan, RegisteredIsUsable, ActorsHoldRealInstances, Generations
<1>4. ActorsHoldRealInstances' /\ RunsByPlace'
  BY DEF ActorsHoldRealInstances, PublishedWasSpawned, SpawnInFlight, RunsByPlace, RegisteredIsUsable, Retryable, Callers, Actors, Generations
<1>5. RunningIsHead' /\ InputOnceAndAlone'
  BY DEF RunningIsHead, InputOnceAndAlone, Inside, RunsByPlace, Retryable, Callers, Actors
<1>6. SigtermIsWatched'
  BY DEF SigtermIsWatched, SpawnInFlight, ExitIsFinal, ActorsHoldRealInstances, RegisteredIsUsable, PC, Callers, Actors, Generations
<1>7. ClosedIsQuiet'
  BY DEF ClosedIsQuiet, ActorsHoldRealInstances, PC, Callers, Actors, Generations
<1> QED
  BY <1>1, <1>2, <1>3, <1>4, <1>5, <1>6, <1>7

LEMMA RetireTimesOutStep ==
  ASSUME IInv, NEW a \in Actors, RetireTimesOut(a)
  PROVE  IInv'
<1> USE GenerationAssumption, ActorsAssumption DEF IInv, TypeOK, RetireTimesOut, AfterRetire, SigKill, callVars, spawnVars
<1>1. TypeOK'
  BY DEF Stage, ProcState, PC, Generations, Actors, Callers, SpawnInFlight, ActorsHoldRealInstances, RunsByPlace, PublishedWasSpawned, RunningIsHead, Inside
<1>2. /\ FreshIsUntouched' /\ SpawnInFlight' /\ ExitIsFinal'
      /\ PublishedWasSpawned'
  BY DEF FreshIsUntouched, SpawnInFlight, ExitIsFinal, PublishedWasSpawned, RegisteredIsUsable, ActorsHoldRealInstances, Generations
<1>3. /\ NoOrphan' /\ RegisteredIsUsable'
      /\ registered' = None \/ spawning' = None
  BY DEF SpawnInFlight, FreshIsUntouched, ExitIsFinal, PublishedWasSpawned, NoOrphan, RegisteredIsUsable, ActorsHoldRealInstances, Generations
<1>4. ActorsHoldRealInstances' /\ RunsByPlace'
  BY DEF ActorsHoldRealInstances, PublishedWasSpawned, SpawnInFlight, RunsByPlace, RegisteredIsUsable, Retryable, Callers, Actors, Generations
<1>5. RunningIsHead' /\ InputOnceAndAlone'
  BY DEF RunningIsHead, InputOnceAndAlone, Inside, RunsByPlace, Retryable, Callers, Actors
<1>6. SigtermIsWatched'
  BY DEF SigtermIsWatched, SpawnInFlight, ExitIsFinal, ActorsHoldRealInstances, RegisteredIsUsable, PC, Callers, Actors, Generations
<1>7. ClosedIsQuiet'
  BY DEF ClosedIsQuiet, ActorsHoldRealInstances, PC, Callers, Actors, Generations
<1> QED
  BY <1>1, <1>2, <1>3, <1>4, <1>5, <1>6, <1>7

LEMMA NoBinaryStep ==
  ASSUME IInv, SpawnHasNoBinary
  PROVE  IInv'
<1> USE GenerationAssumption, ActorsAssumption DEF IInv, TypeOK, SpawnHasNoBinary, SpawnOver, instVars, callVars
<1>1. TypeOK'
  BY DEF Stage, ProcState, PC, Generations, Actors, Callers, SpawnInFlight, ActorsHoldRealInstances, RunsByPlace, PublishedWasSpawned, RunningIsHead, Inside
<1>2. /\ FreshIsUntouched' /\ SpawnInFlight' /\ ExitIsFinal'
      /\ PublishedWasSpawned'
  BY DEF FreshIsUntouched, SpawnInFlight, ExitIsFinal, PublishedWasSpawned, RegisteredIsUsable, ActorsHoldRealInstances, Generations
<1>3. /\ NoOrphan' /\ RegisteredIsUsable'
      /\ registered' = None \/ spawning' = None
  BY DEF SpawnInFlight, FreshIsUntouched, ExitIsFinal, PublishedWasSpawned, NoOrphan, RegisteredIsUsable, ActorsHoldRealInstances, Generations
<1>4. ActorsHoldRealInstances' /\ RunsByPlace'
  BY DEF ActorsHoldRealInstances, PublishedWasSpawned, SpawnInFlight, RunsByPlace, RegisteredIsUsable, Retryable, Callers, Actors, Generations
<1>5. RunningIsHead' /\ InputOnceAndAlone'
  BY DEF RunningIsHead, InputOnceAndAlone, Inside, RunsByPlace, Retryable, Callers, Actors
<1>6. SigtermIsWatched'
  BY DEF SigtermIsWatched, SpawnInFlight, ExitIsFinal, ActorsHoldRealInstances, RegisteredIsUsable, PC, Callers, Actors, Generations
<1>7. ClosedIsQuiet'
  BY DEF ClosedIsQuiet, ActorsHoldRealInstances, PC, Callers, Actors, Generations
<1> QED
  BY <1>1, <1>2, <1>3, <1>4, <1>5, <1>6, <1>7

LEMMA StartsChildStep ==
  ASSUME IInv, SpawnStartsChild
  PROVE  IInv'
<1> USE GenerationAssumption, ActorsAssumption DEF IInv, TypeOK, SpawnStartsChild, callVars
<1>1. TypeOK'
  BY DEF Stage, ProcState, PC, Generations, Actors, Callers, SpawnInFlight, ActorsHoldRealInstances, RunsByPlace, PublishedWasSpawned, RunningIsHead, Inside
<1>2. /\ FreshIsUntouched' /\ SpawnInFlight' /\ ExitIsFinal'
      /\ PublishedWasSpawned'
  BY DEF FreshIsUntouched, SpawnInFlight, ExitIsFinal, PublishedWasSpawned, RegisteredIsUsable, ActorsHoldRealInstances, Generations
<1>3. /\ NoOrphan' /\ RegisteredIsUsable'
      /\ registered' = None \/ spawning' = None
  BY DEF SpawnInFlight, FreshIsUntouched, ExitIsFinal, PublishedWasSpawned, NoOrphan, RegisteredIsUsable, ActorsHoldRealInstances, Generations
<1>4. ActorsHoldRealInstances' /\ RunsByPlace'
  BY DEF ActorsHoldRealInstances, PublishedWasSpawned, SpawnInFlight, RunsByPlace, RegisteredIsUsable, Retryable, Callers, Actors, Generations
<1>5. RunningIsHead' /\ InputOnceAndAlone'
  BY DEF RunningIsHead, InputOnceAndAlone, Inside, RunsByPlace, Retryable, Callers, Actors
<1>6. SigtermIsWatched'
  BY DEF SigtermIsWatched, SpawnInFlight, ExitIsFinal, ActorsHoldRealInstances, RegisteredIsUsable, PC, Callers, Actors, Generations
<1>7. ClosedIsQuiet'
  BY DEF ClosedIsQuiet, ActorsHoldRealInstances, PC, Callers, Actors, Generations
<1> QED
  BY <1>1, <1>2, <1>3, <1>4, <1>5, <1>6, <1>7

LEMMA NotBoundStep ==
  ASSUME IInv, SpawnNotBound
  PROVE  IInv'
<1> USE GenerationAssumption, ActorsAssumption DEF IInv, TypeOK, SpawnNotBound, SpawnOver, SigKill, callVars
<1>1. TypeOK'
  BY DEF Stage, ProcState, PC, Generations, Actors, Callers, SpawnInFlight, ActorsHoldRealInstances, RunsByPlace, PublishedWasSpawned, RunningIsHead, Inside
<1>2. /\ FreshIsUntouched' /\ SpawnInFlight' /\ ExitIsFinal'
      /\ PublishedWasSpawned'
  BY DEF FreshIsUntouched, SpawnInFlight, ExitIsFinal, PublishedWasSpawned, RegisteredIsUsable, ActorsHoldRealInstances, Generations
<1>3. /\ NoOrphan' /\ RegisteredIsUsable'
      /\ registered' = None \/ spawning' = None
  BY DEF SpawnInFlight, FreshIsUntouched, ExitIsFinal, PublishedWasSpawned, NoOrphan, RegisteredIsUsable, ActorsHoldRealInstances, Generations
<1>4. ActorsHoldRealInstances' /\ RunsByPlace'
  BY DEF ActorsHoldRealInstances, PublishedWasSpawned, SpawnInFlight, RunsByPlace, RegisteredIsUsable, Retryable, Callers, Actors, Generations
<1>5. RunningIsHead' /\ InputOnceAndAlone'
  BY DEF RunningIsHead, InputOnceAndAlone, Inside, RunsByPlace, Retryable, Callers, Actors
<1>6. SigtermIsWatched'
  BY DEF SigtermIsWatched, SpawnInFlight, ExitIsFinal, ActorsHoldRealInstances, RegisteredIsUsable, PC, Callers, Actors, Generations
<1>7. ClosedIsQuiet'
  BY DEF ClosedIsQuiet, ActorsHoldRealInstances, PC, Callers, Actors, Generations
<1> QED
  BY <1>1, <1>2, <1>3, <1>4, <1>5, <1>6, <1>7

LEMMA BindsStep ==
  ASSUME IInv, SpawnBinds
  PROVE  IInv'
<1> USE GenerationAssumption, ActorsAssumption DEF IInv, TypeOK, SpawnBinds, callVars
<1>1. TypeOK'
  BY DEF Stage, ProcState, PC, Generations, Actors, Callers, SpawnInFlight, ActorsHoldRealInstances, RunsByPlace, PublishedWasSpawned, RunningIsHead, Inside
<1>2. /\ FreshIsUntouched' /\ SpawnInFlight' /\ ExitIsFinal'
      /\ PublishedWasSpawned'
  BY DEF FreshIsUntouched, SpawnInFlight, ExitIsFinal, PublishedWasSpawned, RegisteredIsUsable, ActorsHoldRealInstances, Generations
<1>3. /\ NoOrphan' /\ RegisteredIsUsable'
      /\ registered' = None \/ spawning' = None
  BY DEF SpawnInFlight, FreshIsUntouched, ExitIsFinal, PublishedWasSpawned, NoOrphan, RegisteredIsUsable, ActorsHoldRealInstances, Generations
<1>4. ActorsHoldRealInstances' /\ RunsByPlace'
  BY DEF ActorsHoldRealInstances, PublishedWasSpawned, SpawnInFlight, RunsByPlace, RegisteredIsUsable, Retryable, Callers, Actors, Generations
<1>5. RunningIsHead' /\ InputOnceAndAlone'
  BY DEF RunningIsHead, InputOnceAndAlone, Inside, RunsByPlace, Retryable, Callers, Actors
<1>6. SigtermIsWatched'
  BY DEF SigtermIsWatched, SpawnInFlight, ExitIsFinal, ActorsHoldRealInstances, RegisteredIsUsable, PC, Callers, Actors, Generations
<1>7. ClosedIsQuiet'
  BY DEF ClosedIsQuiet, ActorsHoldRealInstances, PC, Callers, Actors, Generations
<1> QED
  BY <1>1, <1>2, <1>3, <1>4, <1>5, <1>6, <1>7

LEMMA NotConnectedStep ==
  ASSUME IInv, SpawnNotConnected
  PROVE  IInv'
<1> USE GenerationAssumption, ActorsAssumption DEF IInv, TypeOK, SpawnNotConnected, SpawnOver, SigKill, callVars
<1>1. TypeOK'
  BY DEF Stage, ProcState, PC, Generations, Actors, Callers, SpawnInFlight, ActorsHoldRealInstances, RunsByPlace, PublishedWasSpawned, RunningIsHead, Inside
<1>2. /\ FreshIsUntouched' /\ SpawnInFlight' /\ ExitIsFinal'
      /\ PublishedWasSpawned'
  BY DEF FreshIsUntouched, SpawnInFlight, ExitIsFinal, PublishedWasSpawned, RegisteredIsUsable, ActorsHoldRealInstances, Generations
<1>3. /\ NoOrphan' /\ RegisteredIsUsable'
      /\ registered' = None \/ spawning' = None
  BY DEF SpawnInFlight, FreshIsUntouched, ExitIsFinal, PublishedWasSpawned, NoOrphan, RegisteredIsUsable, ActorsHoldRealInstances, Generations
<1>4. ActorsHoldRealInstances' /\ RunsByPlace'
  BY DEF ActorsHoldRealInstances, PublishedWasSpawned, SpawnInFlight, RunsByPlace, RegisteredIsUsable, Retryable, Callers, Actors, Generations
<1>5. RunningIsHead' /\ InputOnceAndAlone'
  BY DEF RunningIsHead, InputOnceAndAlone, Inside, RunsByPlace, Retryable, Callers, Actors
<1>6. SigtermIsWatched'
  BY DEF SigtermIsWatched, SpawnInFlight, ExitIsFinal, ActorsHoldRealInstances, RegisteredIsUsable, PC, Callers, Actors, Generations
<1>7. ClosedIsQuiet'
  BY DEF ClosedIsQuiet, ActorsHoldRealInstances, PC, Callers, Actors, Generations
<1> QED
  BY <1>1, <1>2, <1>3, <1>4, <1>5, <1>6, <1>7

LEMMA PublishesStep ==
  ASSUME IInv, SpawnPublishes
  PROVE  IInv'
<1> USE GenerationAssumption, ActorsAssumption DEF IInv, TypeOK, SpawnPublishes, SpawnOver, callVars
<1>1. TypeOK'
  BY DEF Stage, ProcState, PC, Generations, Actors, Callers, SpawnInFlight, ActorsHoldRealInstances, RunsByPlace, PublishedWasSpawned, RunningIsHead, Inside
<1>2. /\ FreshIsUntouched' /\ SpawnInFlight' /\ ExitIsFinal'
      /\ PublishedWasSpawned'
  BY DEF FreshIsUntouched, SpawnInFlight, ExitIsFinal, PublishedWasSpawned, RegisteredIsUsable, ActorsHoldRealInstances, Generations
<1>3. /\ NoOrphan' /\ RegisteredIsUsable'
      /\ registered' = None \/ spawning' = None
  BY DEF SpawnInFlight, FreshIsUntouched, ExitIsFinal, PublishedWasSpawned, NoOrphan, RegisteredIsUsable, ActorsHoldRealInstances, Generations
<1>4. ActorsHoldRealInstances' /\ RunsByPlace'
  BY DEF ActorsHoldRealInstances, PublishedWasSpawned, SpawnInFlight, RunsByPlace, RegisteredIsUsable, Retryable, Callers, Actors, Generations
<1>5. RunningIsHead' /\ InputOnceAndAlone'
  BY DEF RunningIsHead, InputOnceAndAlone, Inside, RunsByPlace, Retryable, Callers, Actors
<1>6. SigtermIsWatched'
  BY DEF SigtermIsWatched, SpawnInFlight, ExitIsFinal, ActorsHoldRealInstances, RegisteredIsUsable, PC, Callers, Actors, Generations
<1>7. ClosedIsQuiet'
  BY DEF ClosedIsQuiet, ActorsHoldRealInstances, PC, Callers, Actors, Generations
<1> QED
  BY <1>1, <1>2, <1>3, <1>4, <1>5, <1>6, <1>7

LEMMA ProcessDiesStep ==
  ASSUME IInv, NEW g \in Generations, ProcessDies(g)
  PROVE  IInv'
<1> USE GenerationAssumption, ActorsAssumption DEF IInv, TypeOK, ProcessDies, callVars, spawnVars
<1>1. TypeOK'
  BY DEF Stage, ProcState, PC, Generations, Actors, Callers, SpawnInFlight, ActorsHoldRealInstances, RunsByPlace, PublishedWasSpawned, RunningIsHead, Inside
<1>2. /\ FreshIsUntouched' /\ SpawnInFlight' /\ ExitIsFinal'
      /\ PublishedWasSpawned'
  BY DEF FreshIsUntouched, SpawnInFlight, ExitIsFinal, PublishedWasSpawned, RegisteredIsUsable, ActorsHoldRealInstances, Generations
<1>3. /\ NoOrphan' /\ RegisteredIsUsable'
      /\ registered' = None \/ spawning' = None
  BY DEF SpawnInFlight, FreshIsUntouched, ExitIsFinal, PublishedWasSpawned, NoOrphan, RegisteredIsUsable, ActorsHoldRealInstances, Generations
<1>4. ActorsHoldRealInstances' /\ RunsByPlace'
  BY DEF ActorsHoldRealInstances, PublishedWasSpawned, SpawnInFlight, RunsByPlace, RegisteredIsUsable, Retryable, Callers, Actors, Generations
<1>5. RunningIsHead' /\ InputOnceAndAlone'
  BY DEF RunningIsHead, InputOnceAndAlone, Inside, RunsByPlace, Retryable, Callers, Actors
<1>6. SigtermIsWatched'
  BY DEF SigtermIsWatched, SpawnInFlight, ExitIsFinal, ActorsHoldRealInstances, RegisteredIsUsable, PC, Callers, Actors, Generations
<1>7. ClosedIsQuiet'
  BY DEF ClosedIsQuiet, ActorsHoldRealInstances, PC, Callers, Actors, Generations
<1> QED
  BY <1>1, <1>2, <1>3, <1>4, <1>5, <1>6, <1>7

LEMMA ExitEventStep ==
  ASSUME IInv, NEW g \in Generations, ExitEvent(g)
  PROVE  IInv'
<1> USE GenerationAssumption, ActorsAssumption DEF IInv, TypeOK, ExitEvent, callVars, spawnVars
<1>1. TypeOK'
  BY DEF Stage, ProcState, PC, Generations, Actors, Callers, SpawnInFlight, ActorsHoldRealInstances, RunsByPlace, PublishedWasSpawned, RunningIsHead, Inside
<1>2. /\ FreshIsUntouched' /\ SpawnInFlight' /\ ExitIsFinal'
      /\ PublishedWasSpawned'
  BY DEF FreshIsUntouched, SpawnInFlight, ExitIsFinal, PublishedWasSpawned, RegisteredIsUsable, ActorsHoldRealInstances, Generations
<1>3. /\ NoOrphan' /\ RegisteredIsUsable'
      /\ registered' = None \/ spawning' = None
  BY DEF SpawnInFlight, FreshIsUntouched, ExitIsFinal, PublishedWasSpawned, NoOrphan, RegisteredIsUsable, ActorsHoldRealInstances, Generations
<1>4. ActorsHoldRealInstances' /\ RunsByPlace'
  BY DEF ActorsHoldRealInstances, PublishedWasSpawned, SpawnInFlight, RunsByPlace, RegisteredIsUsable, Retryable, Callers, Actors, Generations
<1>5. RunningIsHead' /\ InputOnceAndAlone'
  BY DEF RunningIsHead, InputOnceAndAlone, Inside, RunsByPlace, Retryable, Callers, Actors
<1>6. SigtermIsWatched'
  BY DEF SigtermIsWatched, SpawnInFlight, ExitIsFinal, ActorsHoldRealInstances, RegisteredIsUsable, PC, Callers, Actors, Generations
<1>7. ClosedIsQuiet'
  BY DEF ClosedIsQuiet, ActorsHoldRealInstances, PC, Callers, Actors, Generations
<1> QED
  BY <1>1, <1>2, <1>3, <1>4, <1>5, <1>6, <1>7

LEMMA AwaitSpawnStep ==
  ASSUME IInv, NEW s \in Stoppers, pc[s] = "idle", spawning # None, AwaitSpawn(s), closed' \in {closed, TRUE}, UNCHANGED <<spawnVars, queue, runs>>
  PROVE  IInv'
<1> USE GenerationAssumption, ActorsAssumption DEF IInv, TypeOK, AwaitSpawn, instVars, spawnVars
<1>1. TypeOK'
  BY DEF Stage, ProcState, PC, Generations, Actors, Callers, SpawnInFlight, ActorsHoldRealInstances, RunsByPlace, PublishedWasSpawned, RunningIsHead, Inside
<1>2. /\ FreshIsUntouched' /\ SpawnInFlight' /\ ExitIsFinal'
      /\ PublishedWasSpawned'
  BY DEF FreshIsUntouched, SpawnInFlight, ExitIsFinal, PublishedWasSpawned, RegisteredIsUsable, ActorsHoldRealInstances, Generations
<1>3. /\ NoOrphan' /\ RegisteredIsUsable'
      /\ registered' = None \/ spawning' = None
  BY DEF SpawnInFlight, FreshIsUntouched, ExitIsFinal, PublishedWasSpawned, NoOrphan, RegisteredIsUsable, ActorsHoldRealInstances, Generations
<1>4. ActorsHoldRealInstances' /\ RunsByPlace'
  BY DEF ActorsHoldRealInstances, PublishedWasSpawned, SpawnInFlight, RunsByPlace, RegisteredIsUsable, Retryable, Callers, Actors, Generations
<1>5. RunningIsHead' /\ InputOnceAndAlone'
  BY DEF RunningIsHead, InputOnceAndAlone, Inside, RunsByPlace, Retryable, Callers, Actors
<1>6. SigtermIsWatched'
  BY DEF SigtermIsWatched, SpawnInFlight, ExitIsFinal, ActorsHoldRealInstances, RegisteredIsUsable, PC, Callers, Actors, Generations
<1>7. ClosedIsQuiet'
  BY DEF ClosedIsQuiet, ActorsHoldRealInstances, PC, Callers, Actors, Generations
<1> QED
  BY <1>1, <1>2, <1>3, <1>4, <1>5, <1>6, <1>7

LEMMA ReopenStep ==
  ASSUME IInv, Reopen
  PROVE  IInv'
<1> USE GenerationAssumption, ActorsAssumption DEF IInv, TypeOK, Reopen, instVars, spawnVars, callVars
<1>1. TypeOK'
  BY DEF Stage, ProcState, PC, Generations, Actors, Callers, SpawnInFlight, ActorsHoldRealInstances, RunsByPlace, PublishedWasSpawned, RunningIsHead, Inside
<1>2. /\ FreshIsUntouched' /\ SpawnInFlight' /\ ExitIsFinal'
      /\ PublishedWasSpawned'
  BY DEF FreshIsUntouched, SpawnInFlight, ExitIsFinal, PublishedWasSpawned, RegisteredIsUsable, ActorsHoldRealInstances, Generations
<1>3. /\ NoOrphan' /\ RegisteredIsUsable'
      /\ registered' = None \/ spawning' = None
  BY DEF SpawnInFlight, FreshIsUntouched, ExitIsFinal, PublishedWasSpawned, NoOrphan, RegisteredIsUsable, ActorsHoldRealInstances, Generations
<1>4. ActorsHoldRealInstances' /\ RunsByPlace'
  BY DEF ActorsHoldRealInstances, PublishedWasSpawned, SpawnInFlight, RunsByPlace, RegisteredIsUsable, Retryable, Callers, Actors, Generations
<1>5. RunningIsHead' /\ InputOnceAndAlone'
  BY DEF RunningIsHead, InputOnceAndAlone, Inside, RunsByPlace, Retryable, Callers, Actors
<1>6. SigtermIsWatched'
  BY DEF SigtermIsWatched, SpawnInFlight, ExitIsFinal, ActorsHoldRealInstances, RegisteredIsUsable, PC, Callers, Actors, Generations
<1>7. ClosedIsQuiet'
  BY DEF ClosedIsQuiet, ActorsHoldRealInstances, PC, Callers, Actors, Generations
<1> QED
  BY <1>1, <1>2, <1>3, <1>4, <1>5, <1>6, <1>7

LEMMA StepIInv == IInv /\ [Next]_vars => IInv'
<1> SUFFICES ASSUME IInv, [Next]_vars PROVE IInv'
  OBVIOUS
<1>1. ASSUME NEW w \in Writers, Enqueue(w) PROVE IInv'
  BY <1>1, EnqueueStep
<1>2. ASSUME NEW c \in Callers, CompanionFor(c) PROVE IInv'
  BY <1>2, RefusedStep, RegisteredStep, SharedStep, SpawnStartStep
     DEF CompanionFor
<1>3. ASSUME NEW c \in Callers, SpawnSettles(c) PROVE IInv'
  BY <1>3, ArrivedStep, RejectedStep DEF SpawnSettles
<1>4. ASSUME NEW c \in Callers, FnSettles(c) PROVE IInv'
  BY <1>4, FnReturnsStep, FnFailsStep, DeadChannelStep DEF FnSettles
<1>5. ASSUME NEW a \in Actors, RetireSettles(a) PROVE IInv'
  BY <1>5, RetireSeesExitStep, RetireTimesOutStep DEF RetireSettles
<1>6. ASSUME SpawnStep PROVE IInv'
  BY <1>6, NoBinaryStep, StartsChildStep, NotBoundStep, BindsStep,
     NotConnectedStep, PublishesStep DEF SpawnStep
<1>7. ASSUME NEW g \in Generations, ProcessDies(g) \/ ExitEvent(g) PROVE IInv'
  BY <1>7, ProcessDiesStep, ExitEventStep
<1>8. ASSUME NEW s \in Stoppers, Shutdown(s) \/ Close(s) PROVE IInv'
  <2>1. closed' \in {closed, TRUE}
    BY <1>8 DEF Shutdown, Close
  <2>2. CASE spawning = None
    BY <1>8, <2>1, <2>2, RetireCurrentStep
       DEF Shutdown, Close, ShutdownBody
  <2>3. CASE spawning # None
    BY <1>8, <2>1, <2>3, AwaitSpawnStep DEF Shutdown, Close, ShutdownBody
  <2> QED
    BY <2>2, <2>3
<1>9. ASSUME NEW s \in Stoppers, Drained(s) PROVE IInv'
  BY <1>9, RetireCurrentStep DEF Drained
<1>10. ASSUME Reopen PROVE IInv'
  BY <1>10, ReopenStep
<1>11. ASSUME UNCHANGED vars PROVE IInv'
  BY <1>11 DEF IInv, vars, TypeOK, FreshIsUntouched, SpawnInFlight,
     ExitIsFinal, PublishedWasSpawned, ActorsHoldRealInstances, RunsByPlace,
     RunningIsHead, Inside, NoOrphan, SigtermIsWatched, RegisteredIsUsable,
     ClosedIsQuiet, InputOnceAndAlone
<1> QED
  BY <1>1, <1>2, <1>3, <1>4, <1>5, <1>6, <1>7, <1>8, <1>9, <1>10, <1>11
     DEF Next

(***************************************************************************)
(* The theorems.                                                            *)
(***************************************************************************)

\* IInv is an invariant of every instance of the module.
THEOREM InductiveInvariant == Spec => []IInv
<1> QED
  BY InitIInv, StepIInv, PTL DEF Spec

\* The manager's state keeps its shape.
THEOREM TypeCorrect == Spec => []TypeOK
<1>1. IInv => TypeOK
  BY DEF IInv
<1> QED
  BY <1>1, InductiveInvariant, PTL

\* At most one companion of a simulator is in service, for any number of
\* concurrent callers, teardowns, crashes and respawns.
THEOREM OneCompanionAlways == Spec => []OneCompanion
<1>1. IInv => OneCompanion
  BY DEF IInv, OneCompanion, NoOrphan, Generations, TypeOK
<1> QED
  BY <1>1, InductiveInvariant, PTL

\* No companion process is lost track of, and none that was asked to stop is
\* left unwatched.
THEOREM NothingLeaks == Spec => [](NoOrphan /\ SigtermIsWatched)
<1>1. IInv => NoOrphan /\ SigtermIsWatched
  BY DEF IInv
<1> QED
  BY <1>1, InductiveInvariant, PTL

\* Whenever the host exits, its exit hook leaves no companion running but a spawn
\* that was still in flight.
THEOREM ExitReaps == Spec => []ReapedAtExit
<1>1. IInv => ReapedAtExit
  <2> SUFFICES ASSUME IInv, NEW g \in Generations, ExitHook[g] = "alive"
               PROVE  g = spawning
    BY DEF ReapedAtExit
  <2>1. /\ proc \in [Generations -> ProcState] /\ registered \in Generations \cup {None}
        /\ NoOrphan /\ RegisteredIsUsable
    BY DEF IInv, TypeOK
  <2>2. proc[g] = "alive" /\ g # registered
    <3>1. CASE registered = None
      BY <2>1, <3>1, GenerationAssumption DEF ExitHook, Generations
    <3>2. CASE registered # None
      BY <2>1, <3>2 DEF ExitHook, SigKill, RegisteredIsUsable
    <3> QED  BY <3>1, <3>2
  <2> QED
    BY <2>1, <2>2 DEF NoOrphan
<1> QED
  BY <1>1, InductiveInvariant, PTL

\* companionFor never hands out an entry that is known to be dead, or one that
\* is being stopped.
THEOREM HandedOutIsUsable == Spec => []RegisteredIsUsable
<1>1. IInv => RegisteredIsUsable
  BY DEF IInv
<1> QED
  BY <1>1, InductiveInvariant, PTL

\* After close returns and until reopen, the udid has no companion and gets none.
THEOREM ClosedStaysQuiet == Spec => []ClosedIsQuiet
<1>1. IInv => ClosedIsQuiet
  BY DEF IInv
<1> QED
  BY <1>1, InductiveInvariant, PTL

\* Exclusive calls never overlap and are never replayed.
THEOREM InputIsSerialised == Spec => []InputOnceAndAlone
<1>1. IInv => InputOnceAndAlone
  BY DEF IInv
<1> QED
  BY <1>1, InductiveInvariant, PTL

\* No step signals a running companion except on behalf of its own failed spawn,
\* of a read that used that very instance, or of a shutdown.
THEOREM LateRetirementIsHarmless == Spec => OnlyItsUserStopsIt
<1>1. ASSUME IInv, [Next]_vars, NEW g \in Generations,
             proc[g] = "alive", proc'[g] \in {"term", "kill"}
      PROVE  StoppedOnlyByItsUser(g)
  <2> USE <1>1 DEF IInv, TypeOK, StoppedOnlyByItsUser
  <2>1. ASSUME NEW c \in Callers, FnSettles(c) PROVE StoppedOnlyByItsUser(g)
    <3>1. ASSUME NEW code \in Codes, FnDeadChannel(c, code)
          PROVE  StoppedOnlyByItsUser(g)
      BY <3>1 DEF FnDeadChannel, RetireFirst, AfterRetireFirst, SigTerm,
         Retryable, callVars, Callers, Actors
    <3> QED
      BY <2>1, <3>1 DEF FnSettles, FnReturns, FnFails, instVars
  <2>2. ASSUME NEW a \in Actors, RetireSettles(a) PROVE StoppedOnlyByItsUser(g)
    <3>1. CASE RetireSeesExit(a)
      BY <3>1 DEF RetireSeesExit, instVars
    <3>2. CASE RetireTimesOut(a)
      <4>1. using[a] \in ready /\ using[a] # registered
        BY <3>2 DEF RetireTimesOut, ActorsHoldRealInstances
      <4>2. using[a] # g
        BY <4>1 DEF SpawnInFlight, NoOrphan, Generations
      <4> QED
        BY <3>2, <4>2 DEF RetireTimesOut, SigKill
    <3> QED
      BY <2>2, <3>1, <3>2 DEF RetireSettles
  <2>3. ASSUME SpawnStep PROVE StoppedOnlyByItsUser(g)
    BY <2>3 DEF SpawnStep, SpawnHasNoBinary, SpawnStartsChild, SpawnNotBound,
       SpawnBinds, SpawnNotConnected, SpawnPublishes, SpawnOver, SigKill,
       SpawnInFlight, instVars
  <2>4. ASSUME NEW s \in Stoppers, RetireCurrent(s)
        PROVE  pc[s] # "retiring" => StoppedOnlyByItsUser(g)
    BY <2>4 DEF RetireCurrent, RetireFirst, AfterRetireFirst, SigTerm, instVars,
       Actors
  <2>5. ASSUME NEW s \in Stoppers, Shutdown(s) \/ Close(s) \/ Drained(s)
        PROVE  StoppedOnlyByItsUser(g)
    BY <2>5, <2>4 DEF Shutdown, Close, Drained, ShutdownBody, AwaitSpawn, instVars
  <2>6. ASSUME UNCHANGED proc PROVE StoppedOnlyByItsUser(g)
    BY <2>6
  <2>7. ASSUME NEW c \in Callers,
               CompanionFor(c) \/ SpawnSettles(c)
        PROVE  UNCHANGED proc
    BY <2>7 DEF CompanionFor, CompanionForRefused, CompanionForRegistered,
       CompanionForShared, CompanionForSpawn, SpawnSettles, SpawnArrived,
       SpawnRejected, instVars
  <2>8. ASSUME \/ \E w \in Writers : Enqueue(w)
               \/ Reopen
               \/ UNCHANGED vars
               \/ \E h \in Generations : ExitEvent(h)
        PROVE  UNCHANGED proc
    BY <2>8 DEF Enqueue, Reopen, ExitEvent, vars, instVars
  <2>9. ASSUME NEW h \in Generations, ProcessDies(h)
        PROVE  FALSE
    BY <2>9 DEF ProcessDies
  <2> QED
    BY <2>1, <2>2, <2>3, <2>5, <2>6, <2>7, <2>8, <2>9 DEF Next
<1>2. IInv /\ [Next]_vars =>
        [\A g \in Generations : StoppedOnlyByItsUser(g)]_vars
  BY <1>1 DEF StoppedOnlyByItsUser
<1> QED
  BY <1>2, InductiveInvariant, PTL DEF Spec, OnlyItsUserStopsIt
================================================================================
