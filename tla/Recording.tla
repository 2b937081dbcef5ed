------------------------------- MODULE Recording ------------------------------
(***************************************************************************)
(* The recording of one Simulator handle: startRecording, stopRecording and *)
(* the part of delete that ends a recording (packages/simgadget/src/         *)
(* simulator.ts), with waitForRecordingStart, stopRecordingProcess and the  *)
(* set of children the exit hook signals (capture.ts).                      *)
(*                                                                         *)
(* Each start call s has at most one child, also named s.  An action is     *)
(* what runs between two awaits or in one event handler; what a child does  *)
(* is an action of its own.                                                 *)
(***************************************************************************)
EXTENDS Naturals

CONSTANTS Starts, Stops, Deletes, None

ASSUME CallsAssumption ==
  /\ None \notin Starts
  /\ Starts \cap Stops = {} /\ Starts \cap Deletes = {} /\ Stops \cap Deletes = {}

VARIABLES
  recording,  \* the handle's slot: a child, or None
  deleted,    \* the handle's deleted flag
  proc,       \* each child: "none", "alive", "exited", "closed" (close delivered)
  interrupts, \* SIGINTs the handle has sent each child
  tracked,    \* activeRecordings
  pc,         \* where each call is
  target      \* the child a stop or a delete is waiting for

vars == <<recording, deleted, proc, interrupts, tracked, pc, target>>
childVars == <<proc, interrupts, tracked>>

Calls == Starts \cup Stops \cup Deletes

Init ==
  /\ recording = None
  /\ deleted = FALSE
  /\ proc = [s \in Starts |-> "none"]
  /\ interrupts = [s \in Starts |-> 0]
  /\ tracked = {}
  /\ pc = [c \in Calls |-> "idle"]
  /\ target = [c \in Stops \cup Deletes |-> None]

Go(c, place) == pc' = [pc EXCEPT ![c] = place]

--------------------------------------------------------------------------------
(***************************************************************************)
(* startRecording.                                                          *)
(***************************************************************************)
StartRefused(s) ==
  /\ pc[s] = "idle"
  /\ deleted \/ recording # None
  /\ Go(s, "threw")
  /\ UNCHANGED <<recording, deleted, childVars, target>>

\* Fault: the child is only tracked by a start that succeeded.
StartUntracked(s) ==
  /\ pc[s] = "idle" /\ ~deleted /\ recording = None
  /\ proc' = [proc EXCEPT ![s] = "alive"]
  /\ Go(s, "waiting")
  /\ UNCHANGED <<recording, deleted, interrupts, tracked, target>>

\* Spawn, listeners and trackRecording, with no await between them.
Start(s) ==
  /\ pc[s] = "idle" /\ ~deleted /\ recording = None
  /\ proc' = [proc EXCEPT ![s] = "alive"]
  /\ tracked' = tracked \cup {s}
  /\ Go(s, "waiting")
  /\ UNCHANGED <<recording, deleted, interrupts, target>>

\* "Recording started" on stderr, which may be read after the child's exit.
SaysStarted(s) ==
  /\ pc[s] = "waiting" /\ proc[s] \in {"alive", "exited"}
  /\ Go(s, "started")
  /\ UNCHANGED <<recording, deleted, childVars, target>>

\* Fault: a child that never speaks is waited for until it closes.
TimerOnlyFails(s) ==
  /\ pc[s] = "waiting" /\ proc[s] = "exited"
  /\ Go(s, "failed")
  /\ UNCHANGED <<recording, deleted, childVars, target>>

\* RECORDING_START_TIMEOUT_MS: alive is recording, exited is a failure.
TimerFires(s) ==
  /\ pc[s] = "waiting"
  /\ Go(s, IF proc[s] = "alive" THEN "started" ELSE "failed")
  /\ UNCHANGED <<recording, deleted, childVars, target>>

\* Fault: the closed flag is not consulted.
PublishCorpse(s) ==
  /\ pc[s] = "started"
  /\ recording' = s
  /\ Go(s, "returned")
  /\ UNCHANGED <<deleted, childVars, target>>

\* After await started: the slot is set unless the child has closed meanwhile.
Publish(s) ==
  /\ pc[s] = "started"
  /\ recording' = IF proc[s] = "closed" THEN recording ELSE s
  /\ Go(s, "returned")
  /\ UNCHANGED <<deleted, childVars, target>>

StartThrows(s) ==
  /\ pc[s] = "failed"
  /\ Go(s, "threw")
  /\ UNCHANGED <<recording, deleted, childVars, target>>

--------------------------------------------------------------------------------
(***************************************************************************)
(* The children.                                                            *)
(***************************************************************************)
Exits(s) ==
  /\ proc[s] = "alive"
  /\ proc' = [proc EXCEPT ![s] = "exited"]
  /\ UNCHANGED <<recording, deleted, interrupts, tracked, pc, target>>

\* Fault: the close handler does not compare identities.
CloseEventAny(s) ==
  /\ proc[s] = "exited"
  /\ proc' = [proc EXCEPT ![s] = "closed"]
  /\ tracked' = tracked \ {s}
  /\ recording' = None
  /\ pc' = [pc EXCEPT ![s] = IF @ = "waiting" THEN "failed" ELSE @]
  /\ UNCHANGED <<deleted, interrupts, target>>

\* The close event: the wait fails, the set forgets the child, the slot lets go
\* of it if it is the one it holds.
CloseEvent(s) ==
  /\ proc[s] = "exited"
  /\ proc' = [proc EXCEPT ![s] = "closed"]
  /\ tracked' = tracked \ {s}
  /\ recording' = IF recording = s THEN None ELSE recording
  /\ pc' = [pc EXCEPT ![s] = IF @ = "waiting" THEN "failed" ELSE @]
  /\ UNCHANGED <<deleted, interrupts, target>>

--------------------------------------------------------------------------------
(***************************************************************************)
(* stopRecording, by itself or at the head of delete.                       *)
(***************************************************************************)

\* Clear the slot, then untrack and interrupt the child it held.
Interrupt(c) ==
  /\ recording' = None
  /\ target' = [target EXCEPT ![c] = recording]
  /\ tracked' = tracked \ {recording}
  /\ interrupts' = [interrupts EXCEPT ![recording] = @ + 1]
  /\ UNCHANGED <<proc, deleted>>

StopRefused(c) ==
  /\ pc[c] = "idle"
  /\ deleted \/ recording = None
  /\ Go(c, "threw")
  /\ UNCHANGED <<recording, deleted, childVars, target>>

Stop(c) ==
  /\ pc[c] = "idle" /\ ~deleted /\ recording # None
  /\ Interrupt(c)
  /\ Go(c, "finalizing")

\* RECORDING_FINALIZE_MS have passed.
StopReturns(c) ==
  /\ pc[c] = "finalizing"
  /\ Go(c, "returned")
  /\ UNCHANGED <<recording, deleted, childVars, target>>

--------------------------------------------------------------------------------
(***************************************************************************)
(* delete.                                                                  *)
(***************************************************************************)
DeleteRefused(d) ==
  /\ pc[d] = "idle" /\ deleted
  /\ Go(d, "threw")
  /\ UNCHANGED <<recording, deleted, childVars, target>>

DeleteStops(d) ==
  /\ pc[d] = "idle" /\ ~deleted /\ recording # None
  /\ Interrupt(d)
  /\ Go(d, "stopping")

\* Nothing to stop, or stopped: on to the companion and simctl.
DeleteBegins(d) ==
  /\ \/ pc[d] = "stopping"
     \/ pc[d] = "idle" /\ ~deleted /\ recording = None
  /\ Go(d, "deleting")
  /\ UNCHANGED <<recording, deleted, childVars, target>>

\* simctl deleted it, found it already gone, or failed.
DeleteEnds(d) ==
  /\ pc[d] = "deleting"
  /\ \/ deleted' = TRUE /\ pc' \in {[pc EXCEPT ![d] = "returned"], [pc EXCEPT ![d] = "threw"]}
     \/ deleted' = deleted /\ Go(d, "threw")
  /\ UNCHANGED <<recording, childVars, target>>

--------------------------------------------------------------------------------
StartStep(s) == StartRefused(s) \/ Start(s) \/ TimerFires(s) \/ Publish(s) \/ StartThrows(s)
ChildStep(s) == SaysStarted(s) \/ Exits(s) \/ CloseEvent(s)
StopStep(c) == StopRefused(c) \/ Stop(c) \/ StopReturns(c)
DeleteStep(d) == DeleteRefused(d) \/ DeleteStops(d) \/ DeleteBegins(d) \/ DeleteEnds(d)

Next ==
  \/ \E s \in Starts : StartStep(s) \/ ChildStep(s)
  \/ \E c \in Stops : StopStep(c)
  \/ \E d \in Deletes : DeleteStep(d)

Spec == Init /\ [][Next]_vars

\* The timer is armed, promises settle and simctl returns.  Nothing is assumed of
\* the children, which may stay alive and silent forever.
FairSpec ==
  /\ Spec
  /\ \A s \in Starts : WF_vars(TimerFires(s) \/ Publish(s) \/ StartThrows(s))
  /\ \A c \in Stops : WF_vars(StopReturns(c))
  /\ \A d \in Deletes : WF_vars(DeleteStep(d) /\ pc[d] # "idle")

--------------------------------------------------------------------------------
\* The shape of the state.
TypeOK ==
  /\ recording \in Starts \cup {None}
  /\ deleted \in BOOLEAN
  /\ proc \in [Starts -> {"none", "alive", "exited", "closed"}]
  /\ interrupts \in [Starts -> 0 .. 1]
  /\ tracked \in SUBSET Starts
  /\ pc \in [Calls -> {"idle", "waiting", "started", "failed", "finalizing", "stopping",
                       "deleting", "returned", "threw"}]
  /\ target \in [Stops \cup Deletes -> Starts \cup {None}]

\* What the parts of the state say of one another.  Of a start, its child and the
\* slot: the child lives from the spawn on, the slot holds a child that its start
\* has published, that has not closed and that nobody has interrupted.  Of a stop
\* and its child: whoever waits for a child has interrupted it.
StartInv(s) ==
  /\ pc[s] \in {"idle", "waiting", "started", "failed", "returned", "threw"}
  /\ pc[s] = "idle" => proc[s] = "none"
  /\ pc[s] = "waiting" => proc[s] \in {"alive", "exited"}
  /\ pc[s] = "started" => proc[s] # "none"
  /\ pc[s] # "returned" => interrupts[s] = 0 /\ recording # s
  /\ recording = s => interrupts[s] = 0 /\ proc[s] \in {"alive", "exited"}
  /\ proc[s] = "alive" /\ interrupts[s] = 0 => s \in tracked

StopInv(c) ==
  /\ pc[c] = "idle" => target[c] = None
  /\ target[c] # None => interrupts[target[c]] = 1
  /\ \A d \in Stops \cup Deletes : target[c] = target[d] => c = d \/ target[c] = None

IInv ==
  /\ TypeOK
  /\ \A s \in Starts : StartInv(s)
  /\ \A c \in Stops \cup Deletes : StopInv(c)

\* capture.ts "so none of them outlives it": a recorder that is alive and was
\* not interrupted is one the exit hook will interrupt, wherever its start is.
NoneOutlivesUs ==
  \A s \in Starts : proc[s] = "alive" /\ interrupts[s] = 0 => s \in tracked

\* The slot never holds a recorder whose close was already delivered: such a
\* handle would refuse every later recording until someone stopped a corpse.
SlotIsNotACorpse == recording # None => proc[recording] # "closed"

\* A late close never takes a successor out of the slot: only the child's own
\* close, or a call that interrupts it, empties the slot; and a child is interrupted
\* once, as it leaves the slot, so that two stops never finalise the same one.
SlotLostOnlyByItsOwn ==
  [][\A s \in Starts :
       /\ recording = s /\ recording' = None => proc'[s] = "closed" \/ interrupts'[s] = 1
       /\ interrupts'[s] # interrupts[s] =>
            recording = s /\ recording' = None /\ interrupts'[s] = 1]_vars

\* Every start, stop and delete comes to an end, even with a recorder that never
\* says anything and never exits.
EveryCallEnds ==
  \A c \in Calls : pc[c] # "idle" ~> pc[c] \in {"returned", "threw"}

\* simulator.ts:2154 "One recording per handle: a second call throws rather than
\* silently replacing the first".
NeverReplaced == [][recording # None => recording' \in {recording, None}]_vars
================================================================================
