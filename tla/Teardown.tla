------------------------------- MODULE Teardown -------------------------------
(***************************************************************************)
(* Several Simulator handles on one udid while one of them deletes it:      *)
(* delete and withClient of packages/simgadget/src/simulator.ts and         *)
(* attachSimulatorWith of lifecycle.ts, over the companion gate.            *)
(*                                                                         *)
(* The companion manager appears as Companions proves it: at most one       *)
(* companion, none handed out between close and reopen.  A handle's         *)
(* recording is the subject of Recording.                                   *)
(***************************************************************************)
EXTENDS Naturals

CONSTANTS Handles, Uses, Deletes, NoHandle

ASSUME HandlesAssumption == NoHandle \notin Handles

VARIABLES
  device,     \* what simctl knows: "there" or "gone"
  companion,  \* "none" or "up"
  closed,     \* the manager refuses companions for the udid
  handle,     \* each handle: "none", "attaching", "live", "stale" (deleted = true)
  use,        \* each companion call: its place, whether it asks for the second
              \* time, and the deletes under way when it was refused (read by no
              \* action: only the properties speak of them)
  del         \* each delete call: its place and its handle

vars == <<device, companion, closed, handle, use, del>>

UsePlaces == {"idle", "asking", "refused", "calling", "failing", "ok", "error", "notFound"}
DelPlaces == {"idle", "closing", "simctl", "returned", "failed", "notFound"}
NewCall == [pc |-> "idle", h |-> NoHandle]
NewUse == [pc |-> "idle", again |-> FALSE, during |-> {}]

Init ==
  /\ device = "there"
  /\ companion = "none"
  /\ closed = FALSE
  /\ handle = [h \in Handles |-> "none"]
  /\ use = [u \in Uses |-> NewUse]
  /\ del = [d \in Deletes |-> NewCall]

UseAt(u, place) == use' = [use EXCEPT ![u].pc = place]
DelAt(d, place) == del' = [del EXCEPT ![d].pc = place]
Past(d) == del[d].pc \in {"closing", "simctl"}

--------------------------------------------------------------------------------
(***************************************************************************)
(* attachSimulatorWith: look for the device, then lift the block.           *)
(***************************************************************************)
AttachFinds(h) ==
  /\ handle[h] = "none"
  /\ device = "there"
  /\ handle' = [handle EXCEPT ![h] = "attaching"]
  /\ UNCHANGED <<device, companion, closed, use, del>>

AttachReopens(h) ==
  /\ handle[h] = "attaching"
  /\ closed' = FALSE
  /\ handle' = [handle EXCEPT ![h] = "live"]
  /\ UNCHANGED <<device, companion, use, del>>

--------------------------------------------------------------------------------
(***************************************************************************)
(* delete.                                                                  *)
(***************************************************************************)
DeleteRefused(d, h) ==
  /\ del[d].pc = "idle" /\ handle[h] = "stale"
  /\ del' = [del EXCEPT ![d] = [pc |-> "notFound", h |-> h]]
  /\ UNCHANGED <<device, companion, closed, handle, use>>

\* closeCompanion adds the block before it waits for anything.
DeleteCloses(d, h) ==
  /\ del[d].pc = "idle" /\ handle[h] = "live"
  /\ closed' = TRUE
  /\ del' = [del EXCEPT ![d] = [pc |-> "closing", h |-> h]]
  /\ UNCHANGED <<device, companion, handle, use>>

CompanionRetired(d) ==
  /\ del[d].pc = "closing"
  /\ companion' = "none"
  /\ DelAt(d, "simctl")
  /\ UNCHANGED <<device, closed, handle, use>>

\* simctl shutdown, whose failures are swallowed, and simctl delete.
SimctlDeletes(d) ==
  /\ del[d].pc = "simctl" /\ device = "there"
  /\ device' = "gone"
  /\ handle' = [handle EXCEPT ![del[d].h] = "stale"]
  /\ DelAt(d, "returned")
  /\ UNCHANGED <<companion, closed, use>>

\* Fault: a failed delete leaves the udid closed.
SimctlFailsShut(d) ==
  /\ del[d].pc = "simctl"
  /\ DelAt(d, "failed")
  /\ UNCHANGED <<device, companion, closed, handle, use>>

\* Fault: the delete is retried until simctl agrees.
SimctlFailsAgain(d) ==
  /\ del[d].pc = "simctl"
  /\ closed' = FALSE
  /\ DelAt(d, "closing")
  /\ UNCHANGED <<device, companion, handle, use>>

\* Any failure but "invalid device": the simulator is still there.
SimctlFails(d) ==
  /\ del[d].pc = "simctl"
  /\ closed' = FALSE
  /\ DelAt(d, "failed")
  /\ UNCHANGED <<device, companion, handle, use>>

SimctlFindsNone(d) ==
  /\ del[d].pc = "simctl" /\ device = "gone"
  /\ handle' = [handle EXCEPT ![del[d].h] = "stale"]
  /\ DelAt(d, "notFound")
  /\ UNCHANGED <<device, companion, closed, use>>

--------------------------------------------------------------------------------
(***************************************************************************)
(* withClient.                                                              *)
(***************************************************************************)
UseRefused(u, h) ==
  /\ use[u].pc = "idle" /\ handle[h] = "stale"
  /\ UseAt(u, "notFound")
  /\ UNCHANGED <<device, companion, closed, handle, del>>

UseAsks(u, h) ==
  /\ use[u].pc = "idle" /\ handle[h] = "live"
  /\ UseAt(u, "asking")
  /\ UNCHANGED <<device, companion, closed, handle, del>>

\* A companion that is up, or a new one.  A closed udid is refused in words of its
\* own; a companion for a device that does not exist cannot start.
UseGets(u) ==
  /\ use[u].pc = "asking"
  /\ IF closed
     THEN /\ use' = [use EXCEPT ![u].pc = "refused", ![u].during = {d \in Deletes : Past(d)}]
          /\ companion' = companion
     ELSE IF companion = "none" /\ device = "gone"
     THEN UseAt(u, "failing") /\ companion' = companion
     ELSE UseAt(u, "calling") /\ companion' = "up"
  /\ UNCHANGED <<device, closed, handle, del>>

\* A read whose companion is dead retires it, unless it was replaced already, and
\* asks once more.
UseRetries(u) ==
  /\ use[u].pc = "calling" /\ ~use[u].again
  /\ use' = [use EXCEPT ![u].pc = "asking", ![u].again = TRUE]
  /\ companion' \in {companion, "none"}
  /\ UNCHANGED <<device, closed, handle, del>>

UseReturns(u) ==
  /\ use[u].pc = "calling"
  /\ companion = "up" /\ device = "there"
  /\ UseAt(u, "ok")
  /\ UNCHANGED <<device, companion, closed, handle, del>>

\* For a reason of its own, or because the companion or the device is lost.
UseFails(u) ==
  /\ use[u].pc = "calling"
  /\ UseAt(u, "failing")
  /\ UNCHANGED <<device, companion, closed, handle, del>>

\* Fault: a simctl that does not answer is taken for one that finds nothing.
FailureGuessed(u) ==
  /\ use[u].pc \in {"refused", "failing"}
  /\ UseAt(u, "notFound") \/ (use[u].pc = "failing" /\ UseAt(u, "error"))
  /\ UNCHANGED <<device, companion, closed, handle, del>>

\* A refusal is a SimulatorNotFoundError already, and stays one although simctl still
\* lists the device.  Any other failure is resolved against simctl, which may itself
\* fail to answer.
FailureResolved(u) ==
  /\ \/ use[u].pc = "refused" /\ UseAt(u, "notFound")
     \/ use[u].pc = "failing" /\ device = "gone" /\ UseAt(u, "notFound")
     \/ use[u].pc = "failing" /\ UseAt(u, "error")
  /\ UNCHANGED <<device, companion, closed, handle, del>>

--------------------------------------------------------------------------------
(***************************************************************************)
(* The environment.                                                         *)
(***************************************************************************)
CompanionDies ==
  /\ companion = "up"
  /\ companion' = "none"
  /\ UNCHANGED <<device, closed, handle, use, del>>

\* Somebody deletes the simulator at a terminal.
DeviceVanishes ==
  /\ device = "there"
  /\ device' = "gone"
  /\ UNCHANGED <<companion, closed, handle, use, del>>

--------------------------------------------------------------------------------
DeleteStep(d) ==
  CompanionRetired(d) \/ SimctlDeletes(d) \/ SimctlFails(d) \/ SimctlFindsNone(d)
UseStep(u) ==
  UseGets(u) \/ UseRetries(u) \/ UseReturns(u) \/ UseFails(u) \/ FailureResolved(u)

Next ==
  \/ \E h \in Handles : AttachFinds(h) \/ AttachReopens(h)
  \/ \E d \in Deletes : DeleteStep(d) \/ \E h \in Handles : DeleteRefused(d, h) \/ DeleteCloses(d, h)
  \/ \E u \in Uses : UseStep(u) \/ \E h \in Handles : UseRefused(u, h) \/ UseAsks(u, h)
  \/ CompanionDies \/ DeviceVanishes

Spec == Init /\ [][Next]_vars

\* simctl returns, retirement ends (Companions) and companion calls carry
\* deadlines.
FairSpec ==
  /\ Spec
  /\ \A d \in Deletes : WF_vars(DeleteStep(d))
  /\ \A u \in Uses : WF_vars(UseStep(u))

--------------------------------------------------------------------------------
\* The shape of the state.
TypeOK ==
  /\ device \in {"there", "gone"} /\ companion \in {"none", "up"} /\ closed \in BOOLEAN
  /\ handle \in [Handles -> {"none", "attaching", "live", "stale"}]
  /\ use \in [Uses -> [pc : UsePlaces, again : BOOLEAN, during : SUBSET Deletes]]
  /\ del \in [Deletes -> [pc : DelPlaces, h : Handles \cup {NoHandle}]]

\* While the simulator is there, no handle is stale, no delete says that it is gone, and
\* a companion call that says so was refused for a delete that is still under way or has
\* failed: companionManager.ts:172-178 calls every refused call "a call racing a
\* teardown", and "the one case this overstates" a delete that then fails.  Nothing
\* else, neither a lost companion nor a simctl that does not answer, makes a
\* SimulatorNotFoundError, on whose strength the server drops a session.
NotFoundIsOfADelete ==
  device = "there" =>
    /\ \A h \in Handles : handle[h] # "stale"
    /\ \A d \in Deletes : del[d].pc # "notFound"
    /\ \A u \in Uses : use[u].pc \in {"refused", "notFound"} =>
          \E d \in use[u].during : Past(d) \/ del[d].pc = "failed"

\* A simulator that exists is refused companions only while a delete of it is
\* under way: no sequence of failed and overlapping deletes wedges the udid shut
\* for the rest of the process.
NotShutOut ==
  closed /\ device = "there" => \E d \in Deletes : Past(d)

\* Every delete and every companion call comes to an end.
EveryCallEnds ==
  /\ \A d \in Deletes : Past(d) ~> ~Past(d)
  /\ \A u \in Uses : use[u].pc = "asking" ~> use[u].pc \in {"ok", "error", "notFound"}

\* docs/devs/SIMGADGET.md:532 "blocks respawn for this udid, so a concurrent call
\* cannot spawn a replacement against a simulator that is about to stop existing".
NoRespawnDuringDelete ==
  [][\A d \in Deletes :
       del[d].pc = "simctl" /\ companion = "none" => companion' = "none"]_vars
================================================================================
