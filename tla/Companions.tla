------------------------------ MODULE Companions ------------------------------
(***************************************************************************)
(* The CompanionManager (src/packages/simgadget/src/idb/                   *)
(* companionManager.ts): the one place that starts, hands out, replaces and *)
(* kills the idb_companion child process of a simulator.                    *)
(*                                                                         *)
(* Everything the manager keeps is a map keyed by udid and no operation     *)
(* touches the entry of another udid, so the module models one udid.  The   *)
(* program is single-threaded: an action is what runs between two awaits,   *)
(* and every await is a point where any other action may come in between.   *)
(*                                                                         *)
(* A companion instance is named by its generation, as in the code.  Three  *)
(* kinds of actors use the manager: Readers call withClient, Writers call   *)
(* withClient with {exclusive: true}, and Stoppers call shutdown or close.  *)
(* Each actor makes one call; many calls are many actors.                   *)
(***************************************************************************)
EXTENDS Naturals, Sequences, FiniteSets

CONSTANTS
  Readers,      \* calls that may be retried
  Writers,      \* exclusive calls (input and recording control)
  Stoppers,     \* calls of shutdown(udid) or close(udid)
  MaxGeneration \* bound on the number of spawns

ASSUME ActorsAssumption ==
  /\ Readers \cap Writers = {}
  /\ Readers \cap Stoppers = {}
  /\ Writers \cap Stoppers = {}

ASSUME GenerationAssumption == MaxGeneration \in Nat

Callers == Readers \cup Writers
Actors  == Callers \cup Stoppers

Generations == 1 .. MaxGeneration
None == 0       \* no companion

VARIABLES
  registered,     \* companions.get(udid): the published generation, or None
  spawning,       \* spawning.get(udid): the generation being spawned, or None
  stage,          \* how far that spawn has come
  nextGeneration,
  closed,         \* closed.has(udid)
  queue,          \* the chain of exclusive calls, the running one first
  proc,           \* the operating system's view of each companion process
  exited,         \* generations whose 'exit' event has been handled
  client,         \* the gRPC channel of each generation
  ready,          \* generations whose spawn promise resolved
  pc,             \* where each actor is
  using,          \* the generation an actor was given, awaits or retires
  runs            \* how often fn has been started for a call

callVars  == <<queue, using, runs>>
spawnVars == <<spawning, stage, nextGeneration, ready>>
instVars  == <<registered, proc, exited, client>>
vars == <<registered, spawning, stage, nextGeneration, closed, queue, proc,
          exited, client, ready, pc, using, runs>>

ProcState == {"none", "alive", "term", "kill", "dead"}
Stage     == {"none", "resolving", "booting", "connecting"}
PC == {"idle", "queued", "awaiting", "calling", "retiring", "retry",
       "draining", "ok", "err"}

Returned(a) == pc[a] \in {"ok", "err"}

\* A writer that has left the chain's wait and has not yet returned.
Inside(w) == pc[w] \in {"awaiting", "calling"}

Fresh ==
  /\ registered = None
  /\ spawning = None
  /\ stage = "none"
  /\ nextGeneration = 1
  /\ closed = FALSE
  /\ queue = <<>>
  /\ proc = [g \in Generations |-> "none"]
  /\ exited = {}
  /\ client = [g \in Generations |-> "none"]
  /\ ready = {}
  /\ using = [a \in Actors |-> None]
  /\ runs = [c \in Callers |-> 0]

Init == Fresh /\ pc = [a \in Actors |-> "idle"]

(***************************************************************************)
(* Signals.  A signal sent to a process the system has already reaped has   *)
(* no effect, and SIGTERM adds nothing to a pending SIGKILL.                *)
(***************************************************************************)
SigTerm(g) == [proc EXCEPT ![g] = IF @ = "alive" THEN "term" ELSE @]
SigKill(g) == [proc EXCEPT ![g] = IF @ \in {"alive", "term"} THEN "kill" ELSE @]

\* Fault for the mutants: retirement names the udid instead of the instance.
RetireWhateverIsCurrent(g) ==
  /\ registered' = None
  /\ client' = [h \in Generations |-> IF h = registered THEN "closed" ELSE client[h]]
  /\ proc' = [h \in Generations |-> IF h = registered THEN SigTerm(h)[h] ELSE proc[h]]
  /\ UNCHANGED exited

(***************************************************************************)
(* The synchronous part of retire(companion), up to its await: deregister   *)
(* this generation if it is still the current one, close its channel, and   *)
(* ask the process to stop unless its exit has been seen.                   *)
(***************************************************************************)
RetireFirst(g) ==
  /\ registered' = IF registered = g THEN None ELSE registered
  /\ client' = [client EXCEPT ![g] = "closed"]
  /\ proc' = IF g \in exited THEN proc ELSE SigTerm(g)
  /\ UNCHANGED exited

\* Fault: nobody waits for the process that was asked to stop.
AfterRetireNoWait(g, next) == next

\* Where an actor goes next: it waits for the exit it has not seen, or goes on.
AfterRetireFirst(g, next) == IF g \in exited THEN next ELSE "retiring"

\* Where an actor goes once its retirement is over: a reader tries again.
AfterRetire(a) == IF a \in Readers THEN "retry" ELSE "ok"

\* The writer at the head of the chain leaves it when its call settles.
LeaveQueue(c) == queue' = IF c \in Writers THEN Tail(queue) ELSE queue

--------------------------------------------------------------------------------
(***************************************************************************)
(* withClient and companionFor.                                             *)
(***************************************************************************)

\* withClient(..., {exclusive: true}): the call joins the chain.
Enqueue(w) ==
  /\ pc[w] = "idle"
  /\ queue' = Append(queue, w)
  /\ pc' = [pc EXCEPT ![w] = "queued"]
  /\ UNCHANGED <<instVars, spawnVars, closed, using, runs>>

\* Fault: an exclusive call does not wait for its turn.
AskingOutOfTurn(c) ==
  \/ c \in Readers /\ pc[c] \in {"idle", "retry"}
  \/ c \in Writers /\ pc[c] = "queued"

\* The points at which a call enters companionFor: a read at once, an
\* exclusive call when its turn comes, a retried read after its retirement.
\* A dead entry is never met there: see RegisteredIsUsable.
Asking(c) ==
  \/ c \in Readers /\ pc[c] \in {"idle", "retry"}
  \/ c \in Writers /\ pc[c] = "queued" /\ queue # <<>> /\ Head(queue) = c

CompanionForRefused(c) ==
  /\ Asking(c)
  /\ closed
  /\ pc' = [pc EXCEPT ![c] = "err"]
  /\ LeaveQueue(c)
  /\ UNCHANGED <<instVars, spawnVars, closed, using, runs>>

CompanionForRegistered(c) ==
  /\ Asking(c)
  /\ ~closed
  /\ registered # None
  /\ pc' = [pc EXCEPT ![c] = "calling"]
  /\ using' = [using EXCEPT ![c] = registered]
  /\ runs' = [runs EXCEPT ![c] = @ + 1]
  /\ UNCHANGED <<instVars, spawnVars, closed, queue>>

CompanionForShared(c) ==
  /\ Asking(c)
  /\ ~closed
  /\ registered = None
  /\ spawning # None
  /\ pc' = [pc EXCEPT ![c] = "awaiting"]
  /\ using' = [using EXCEPT ![c] = spawning]
  /\ UNCHANGED <<instVars, spawnVars, closed, queue, runs>>

\* Fault: concurrent callers do not share a spawn.
SpawnUnshared(c) ==
  /\ Asking(c)
  /\ ~closed
  /\ registered = None
  /\ nextGeneration <= MaxGeneration
  /\ spawning' = nextGeneration
  /\ stage' = "resolving"
  /\ nextGeneration' = nextGeneration + 1
  /\ pc' = [pc EXCEPT ![c] = "awaiting"]
  /\ using' = [using EXCEPT ![c] = nextGeneration]
  /\ UNCHANGED <<instVars, ready, closed, queue, runs>>

\* spawn() takes its generation, and enters the spawning map, synchronously.
CompanionForSpawn(c) ==
  /\ Asking(c)
  /\ ~closed
  /\ registered = None
  /\ spawning = None
  /\ nextGeneration <= MaxGeneration
  /\ spawning' = nextGeneration
  /\ stage' = "resolving"
  /\ nextGeneration' = nextGeneration + 1
  /\ pc' = [pc EXCEPT ![c] = "awaiting"]
  /\ using' = [using EXCEPT ![c] = nextGeneration]
  /\ UNCHANGED <<instVars, ready, closed, queue, runs>>

\* `await inFlight` resumes: the caller is given the instance that was spawned,
\* whatever has become of it since.
SpawnArrived(c) ==
  /\ pc[c] = "awaiting"
  /\ using[c] \in ready
  /\ pc' = [pc EXCEPT ![c] = "calling"]
  /\ runs' = [runs EXCEPT ![c] = @ + 1]
  /\ UNCHANGED <<instVars, spawnVars, closed, queue, using>>

SpawnRejected(c) ==
  /\ pc[c] = "awaiting"
  /\ using[c] # spawning
  /\ using[c] \notin ready
  /\ pc' = [pc EXCEPT ![c] = "err"]
  /\ LeaveQueue(c)
  /\ UNCHANGED <<instVars, spawnVars, closed, using, runs>>

\* fn(client) resolves.
FnReturns(c) ==
  /\ pc[c] = "calling"
  /\ proc[using[c]] # "dead"
  /\ pc' = [pc EXCEPT ![c] = "ok"]
  /\ LeaveQueue(c)
  /\ UNCHANGED <<instVars, spawnVars, closed, using, runs>>

\* isDeadChannel: the error says the channel is gone or timed out, or the
\* process this call used is known to have exited.
DeadChannel(c, code) == code = "unavailable" \/ using[c] \in exited

Retryable(c, code) == c \notin Writers /\ runs[c] = 1 /\ DeadChannel(c, code)

\* Fault: a failed exclusive call stays at the head of the chain.
FnFailsPoisoning(c, code) ==
  /\ pc[c] = "calling"
  /\ ~Retryable(c, code)
  /\ pc' = [pc EXCEPT ![c] = "err"]
  /\ UNCHANGED <<instVars, spawnVars, closed, callVars>>

\* fn(client) rejects, and the failure is not one this call recovers from.
FnFails(c, code) ==
  /\ pc[c] = "calling"
  /\ ~Retryable(c, code)
  /\ pc' = [pc EXCEPT ![c] = "err"]
  /\ LeaveQueue(c)
  /\ UNCHANGED <<instVars, spawnVars, closed, using, runs>>

\* A read on a dead channel retires the instance it used.
FnDeadChannel(c, code) ==
  /\ pc[c] = "calling"
  /\ Retryable(c, code)
  /\ RetireFirst(using[c])
  /\ pc' = [pc EXCEPT ![c] = AfterRetireFirst(using[c], "retry")]
  /\ UNCHANGED <<spawnVars, closed, callVars>>

--------------------------------------------------------------------------------
(***************************************************************************)
(* The rest of retire, for whoever retires: the exit is seen, or 3 seconds  *)
(* pass and the process is killed without waiting for it.                   *)
(***************************************************************************)
RetireSeesExit(a) ==
  /\ pc[a] = "retiring"
  /\ using[a] \in exited
  /\ pc' = [pc EXCEPT ![a] = AfterRetire(a)]
  /\ UNCHANGED <<instVars, spawnVars, closed, callVars>>

\* Fault: a timer that gives up without killing.
RetireGivesUp(a) ==
  /\ pc[a] = "retiring"
  /\ pc' = [pc EXCEPT ![a] = AfterRetire(a)]
  /\ UNCHANGED <<instVars, spawnVars, closed, callVars>>

RetireTimesOut(a) ==
  /\ pc[a] = "retiring"
  /\ using[a] \notin exited
  /\ proc' = SigKill(using[a])
  /\ pc' = [pc EXCEPT ![a] = AfterRetire(a)]
  /\ UNCHANGED <<registered, exited, client, spawnVars, closed, callVars>>

--------------------------------------------------------------------------------
(***************************************************************************)
(* spawn(udid), after its generation is taken.                              *)
(***************************************************************************)
SpawnOver == spawning' = None /\ stage' = "none"

\* resolveCompanion, the socket path or child_process.spawn itself fails: there
\* is no process.
SpawnHasNoBinary ==
  /\ stage = "resolving"
  /\ SpawnOver
  /\ UNCHANGED <<instVars, nextGeneration, ready, closed, pc, callVars>>

SpawnStartsChild ==
  /\ stage = "resolving"
  /\ proc' = [proc EXCEPT ![spawning] = "alive"]
  /\ stage' = "booting"
  /\ UNCHANGED <<registered, exited, client, spawning, nextGeneration, ready,
                 closed, pc, callVars>>

\* awaitReadiness fails: the 30 s timer, a child error, or an early exit.
SpawnNotBound ==
  /\ stage = "booting"
  /\ proc' = SigKill(spawning)
  /\ SpawnOver
  /\ UNCHANGED <<registered, exited, client, nextGeneration, ready, closed, pc,
                 callVars>>

\* The socket is reported; the client exists and the exit handler is installed.
SpawnBinds ==
  /\ stage = "booting"
  /\ client' = [client EXCEPT ![spawning] = "open"]
  /\ stage' = "connecting"
  /\ UNCHANGED <<registered, exited, proc, spawning, nextGeneration, ready,
                 closed, pc, callVars>>

\* waitForReady rejects: never published, and killed.
SpawnNotConnected ==
  /\ stage = "connecting"
  /\ client' = [client EXCEPT ![spawning] = "closed"]
  /\ proc' = SigKill(spawning)
  /\ SpawnOver
  /\ UNCHANGED <<registered, exited, nextGeneration, ready, closed, pc, callVars>>

\* waitForReady resolves, which it cannot once the exit handler has closed the
\* channel: the companion is published and every waiter can resume.
SpawnPublishes ==
  /\ stage = "connecting"
  /\ client[spawning] = "open"
  /\ registered' = spawning
  /\ ready' = ready \cup {spawning}
  /\ SpawnOver
  /\ UNCHANGED <<exited, client, proc, nextGeneration, closed, pc, callVars>>

--------------------------------------------------------------------------------
(***************************************************************************)
(* The process and its 'exit' event.                                        *)
(***************************************************************************)

\* A crash, the idle shutdown or a signal: the process is gone before the
\* program has been told.
ProcessDies(g) ==
  /\ proc[g] \in {"alive", "term", "kill"}
  /\ proc' = [proc EXCEPT ![g] = "dead"]
  /\ UNCHANGED <<registered, exited, client, spawnVars, closed, pc, callVars>>

\* child.on("exit"), installed once the client exists.
ExitEvent(g) ==
  /\ proc[g] = "dead"
  /\ client[g] # "none"
  /\ g \notin exited
  /\ exited' = exited \cup {g}
  /\ registered' = IF registered = g THEN None ELSE registered
  /\ client' = [client EXCEPT ![g] = "closed"]
  /\ UNCHANGED <<proc, spawnVars, closed, pc, callVars>>

--------------------------------------------------------------------------------
(***************************************************************************)
(* shutdown, close and reopen.                                              *)
(***************************************************************************)

\* shutdown, once no spawn is in flight: retire what is registered, if anything.
RetireCurrent(s) ==
  IF registered = None
  THEN /\ pc' = [pc EXCEPT ![s] = "ok"]
       /\ UNCHANGED <<instVars, using>>
  ELSE /\ RetireFirst(registered)
       /\ pc' = [pc EXCEPT ![s] = AfterRetireFirst(registered, "ok")]
       /\ using' = [using EXCEPT ![s] = registered]

AwaitSpawn(s) ==
  /\ pc' = [pc EXCEPT ![s] = "draining"]
  /\ using' = [using EXCEPT ![s] = spawning]
  /\ UNCHANGED instVars

\* Fault: a spawn in flight is overlooked.
ShutdownIgnoresSpawn(s) ==
  /\ pc[s] = "idle"
  /\ RetireCurrent(s)
  /\ UNCHANGED <<spawnVars, queue, runs>>

ShutdownBody(s) ==
  /\ pc[s] = "idle"
  /\ IF spawning # None THEN AwaitSpawn(s) ELSE RetireCurrent(s)
  /\ UNCHANGED <<spawnVars, queue, runs>>

\* shutdownAll is Shutdown of every udid with a published companion.
Shutdown(s) == ShutdownBody(s) /\ UNCHANGED closed
Close(s)    == ShutdownBody(s) /\ closed' = TRUE

\* `await inFlight.catch(...)` resumes, however the spawn ended.
Drained(s) ==
  /\ pc[s] = "draining"
  /\ spawning # using[s]
  /\ RetireCurrent(s)
  /\ UNCHANGED <<spawnVars, closed, queue, runs>>

\* A failed delete, attachSimulator and createSimulator all reopen the udid.
Reopen ==
  /\ closed
  /\ closed' = FALSE
  /\ UNCHANGED <<instVars, spawnVars, pc, callVars>>

--------------------------------------------------------------------------------
Codes == {"unavailable", "other"}

CompanionFor(c) ==
  \/ CompanionForRefused(c)
  \/ CompanionForRegistered(c)
  \/ CompanionForShared(c)
  \/ CompanionForSpawn(c)

FnSettles(c) ==
  \/ FnReturns(c)
  \/ \E code \in Codes : FnFails(c, code) \/ FnDeadChannel(c, code)

SpawnSettles(c) == SpawnArrived(c) \/ SpawnRejected(c)

RetireSettles(a) == RetireSeesExit(a) \/ RetireTimesOut(a)

SpawnStep ==
  \/ SpawnHasNoBinary \/ SpawnStartsChild
  \/ SpawnNotBound \/ SpawnBinds
  \/ SpawnNotConnected \/ SpawnPublishes

Next ==
  \/ \E w \in Writers : Enqueue(w)
  \/ \E c \in Callers : CompanionFor(c) \/ SpawnSettles(c) \/ FnSettles(c)
  \/ \E a \in Actors : RetireSettles(a)
  \/ SpawnStep
  \/ \E g \in Generations : ProcessDies(g) \/ ExitEvent(g)
  \/ \E s \in Stoppers : Shutdown(s) \/ Close(s) \/ Drained(s)
  \/ Reopen

Spec == Init /\ [][Next]_vars

(***************************************************************************)
(* Fairness.  Promise callbacks run; every RPC carries a deadline (60 s for *)
(* a read, 120 s for input), so fn settles; the readiness and connect       *)
(* timers and the retire timer fire; the system reaps a process that was    *)
(* sent SIGKILL and delivers its exit event.  Nothing makes a caller start  *)
(* a call, a healthy process die, or anybody close or reopen a udid.        *)
(***************************************************************************)
Fairness ==
  /\ \A c \in Callers :
       /\ WF_vars(pc[c] \in {"queued", "retry"} /\ CompanionFor(c))
       /\ WF_vars(SpawnSettles(c))
       /\ WF_vars(FnSettles(c))
  /\ \A a \in Actors : WF_vars(RetireSettles(a))
  /\ WF_vars(SpawnStep)
  /\ \A g \in Generations :
       /\ WF_vars(proc[g] = "kill" /\ ProcessDies(g))
       /\ WF_vars(ExitEvent(g))
  /\ \A s \in Stoppers : WF_vars(Drained(s))

FairSpec == Spec /\ Fairness

--------------------------------------------------------------------------------
(***************************************************************************)
(* Properties.                                                              *)
(***************************************************************************)

\* The shape of the manager's state.
TypeOK ==
  /\ registered \in Generations \cup {None}
  /\ spawning \in Generations \cup {None}
  /\ stage \in Stage
  /\ nextGeneration \in 1 .. MaxGeneration + 1
  /\ closed \in BOOLEAN
  /\ queue \in Seq(Writers)
  /\ proc \in [Generations -> ProcState]
  /\ exited \subseteq Generations
  /\ client \in [Generations -> {"none", "open", "closed"}]
  /\ ready \subseteq Generations
  /\ pc \in [Actors -> PC]
  /\ using \in [Actors -> Generations \cup {None}]
  /\ runs \in [Callers -> 0 .. 2]

\* A simulator has one companion: a published one excludes a spawn in flight,
\* and of all processes ever started at most one has not been told to stop.
\* However reads, retirements and teardowns interleave, two companions are
\* never both in service ("concurrent callers for a cold udid share one").
OneCompanion ==
  /\ registered = None \/ spawning = None
  /\ \A g, h \in Generations :
       proc[g] = "alive" /\ proc[h] = "alive" => g = h

\* A running process nobody has signalled is either the published companion or
\* the one being spawned: none is ever lost track of.
NoOrphan ==
  \A g \in Generations : proc[g] = "alive" => g \in {registered, spawning}

\* What the process-exit hook leaves of the processes: it kills the published
\* companion, if that is not known to have exited.
ExitHook ==
  IF registered = None \/ registered \in exited THEN proc ELSE SigKill(registered)

\* Whenever the host process exits, the hook reaps every companion in service:
\* the only one that can survive untouched is a spawn that was still in flight.
ReapedAtExit ==
  \A g \in Generations : ExitHook[g] = "alive" => g = spawning

\* A process that was only asked to stop has somebody waiting for it, who will
\* kill it when it does not: no companion survives by ignoring SIGTERM.
SigtermIsWatched ==
  \A g \in Generations : proc[g] = "term" =>
    \E a \in Actors : pc[a] = "retiring" /\ using[a] = g

\* What companionFor hands out has an open channel, has been told nothing, and
\* is not known to have exited: a stale entry is never handed out.
RegisteredIsUsable ==
  registered # None =>
    /\ registered \notin exited
    /\ client[registered] = "open"
    /\ proc[registered] \in {"alive", "dead"}

\* Once close has returned and until reopen, there is neither a companion nor a
\* spawn: whatever a closed udid still has, a pending shutdown is about to take.
ClosedIsQuiet ==
  closed /\ (registered # None \/ spawning # None) =>
    \E s \in Stoppers : /\ pc[s] = "draining"
                        /\ using[s] \in {registered, spawning}

\* Two exclusive calls never run at the same time, and neither is run twice:
\* two input streams cannot interleave, and no event is delivered again.
InputOnceAndAlone ==
  /\ \A w \in Writers : runs[w] <= 1 /\ pc[w] \notin {"retiring", "retry"}
  /\ \A v, w \in Writers : Inside(v) /\ Inside(w) => v = w

\* A running companion is told to stop only because its own spawn failed,
\* because a call that was using that very instance found its channel dead, or
\* because shutdown or close took it: never by a late retirement of another one.
StoppedOnlyByItsUser(g) ==
  proc[g] = "alive" /\ proc'[g] \in {"term", "kill"} =>
    \/ spawning = g /\ spawning' = None
    \/ \E r \in Readers : /\ pc[r] = "calling" /\ using[r] = g
                          /\ pc'[r] = "retiring"
    \/ \E s \in Stoppers : pc[s] # "retiring" /\ pc'[s] = "retiring"

OnlyItsUserStopsIt == [][\A g \in Generations : StoppedOnlyByItsUser(g)]_vars

\* Every call returns, whatever dies meanwhile: in particular an exclusive call
\* cannot wedge the calls behind it.
EveryCallReturns ==
  \A a \in Actors : pc[a] # "idle" ~> Returned(a)

\* Every companion that was told to stop is gone in the end.
StoppedCompanionsDie ==
  \A g \in Generations : proc[g] \in {"term", "kill"} ~> proc[g] = "dead"

--------------------------------------------------------------------------------
(***************************************************************************)
(* The inductive strengthening of the safety properties.                    *)
(***************************************************************************)

\* Generations not handed out yet have left no trace.
FreshIsUntouched ==
  \A g \in Generations : g >= nextGeneration =>
    proc[g] = "none" /\ client[g] = "none" /\ g \notin ready \cup exited

\* What a spawn in flight has, by stage.
SpawnInFlight ==
  /\ spawning = None <=> stage = "none"
  /\ spawning # None => spawning < nextGeneration /\ spawning \notin ready
  /\ stage = "resolving" => proc[spawning] = "none"
  /\ stage \in {"resolving", "booting"} =>
       client[spawning] = "none" /\ spawning \notin exited
  /\ stage \in {"booting", "connecting"} => proc[spawning] \in {"alive", "dead"}
  /\ stage = "connecting" =>
       \/ client[spawning] = "open" /\ spawning \notin exited
       \/ client[spawning] = "closed" /\ spawning \in exited

\* An exit that was handled closed the channel of a process that is gone.
ExitIsFinal == \A g \in exited : proc[g] = "dead" /\ client[g] = "closed"

\* A published instance came out of a spawn that succeeded.
PublishedWasSpawned ==
  /\ registered # None => registered \in ready
  /\ \A g \in ready : client[g] # "none"

\* The generation an actor refers to exists, was published when it is used, and
\* is not published any more when it is being retired.
ActorsHoldRealInstances ==
  \A a \in Actors :
    /\ pc[a] \in {"calling", "retiring"} => using[a] \in ready
    /\ pc[a] = "retiring" => using[a] # registered
    /\ pc[a] \in {"awaiting", "draining"} =>
         using[a] # None /\ using[a] < nextGeneration

\* How often fn has been started, by where the call is.
RunsByPlace ==
  \A c \in Callers :
    /\ pc[c] \in {"idle", "queued"} => runs[c] = 0
    /\ pc[c] = "awaiting" => runs[c] <= 1 /\ (c \in Writers => runs[c] = 0)
    /\ pc[c] = "calling" => runs[c] >= 1
    /\ pc[c] \in {"retiring", "retry"} => runs[c] = 1

\* A running exclusive call is the head of the chain.
RunningIsHead ==
  \A w \in Writers : Inside(w) => queue # <<>> /\ Head(queue) = w

IInv ==
  /\ TypeOK
  /\ FreshIsUntouched
  /\ SpawnInFlight
  /\ ExitIsFinal
  /\ PublishedWasSpawned
  /\ ActorsHoldRealInstances
  /\ RunsByPlace
  /\ RunningIsHead
  /\ registered = None \/ spawning = None
  /\ NoOrphan
  /\ SigtermIsWatched
  /\ RegisteredIsUsable
  /\ ClosedIsQuiet
  /\ InputOnceAndAlone
================================================================================
