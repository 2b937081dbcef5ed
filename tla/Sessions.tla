------------------------------- MODULE Sessions -------------------------------
(***************************************************************************)
(* The server's session registry (packages/simgadget-mcp/src/sessions.ts),  *)
(* the tools that change it (tools.ts) and the exit path (index.ts), over   *)
(* simulators that the library creates, attaches to and deletes.            *)
(*                                                                         *)
(* A caller makes one tool call after another; an action is what runs       *)
(* between two awaits.  A refusal that changes nothing is a stutter.  The    *)
(* library appears by its results: as Teardown shows, a call throws          *)
(* SimulatorNotFoundError of a simulator that is gone, or that a delete of   *)
(* this server was at work on when the call asked for a companion.           *)
(***************************************************************************)
EXTENDS Naturals

CONSTANTS
  Ids,           \* session ids
  Callers,       \* concurrent tool calls
  Own, Foreign,  \* simulators this server may create; those of others
  CleanupOnExit, \* SIMGADGET_CLEANUP_ON_EXIT
  MaxOutside,    \* bound on what others do to the simulators
  None

ASSUME SimsAssumption ==
  /\ Own \cap Foreign = {} /\ None \notin Own \cup Foreign \cup Ids
  /\ CleanupOnExit \in BOOLEAN /\ MaxOutside \in Nat

VARIABLES
  dev,       \* each simulator: "none" (not created), "shutdown", "booted", "gone"
  sessions,  \* id -> session, or NoSession
  starting,  \* ids being created
  call,      \* each caller's call in progress
  server,    \* "running", "cleaning", "exited"
  toClean,   \* owned simulators the exit path has not dealt with yet
  atExit,    \* history: the owned simulators it found
  outside,   \* what others have done so far
  excused,   \* history: simulators whose boot threw or whose deletion at exit failed
  lost,      \* history: running simulators whose session was changed while calls
             \* overlapped
  overlapped \* history: the ids whose calls in progress overlapped, other than uses
             \* among themselves

vars == <<dev, sessions, starting, call, server, toClean, atExit, outside, excused,
          lost, overlapped>>
exitVars == <<server, toClean, atExit, outside>>

Sims == Own \cup Foreign
Sessions == [sim : Sims, owned : BOOLEAN]
NoSession == [sim |-> None, owned |-> FALSE]
Places == {"idle", "asking", "creating", "booting", "attaching", "destroying", "using", "refused"}
IdleCall == [pc |-> "idle", id |-> None, session |-> NoSession]

Init ==
  /\ dev = [s \in Sims |-> IF s \in Foreign THEN "booted" ELSE "none"]
  /\ sessions = [i \in Ids |-> NoSession]
  /\ starting = {}
  /\ call = [c \in Callers |-> IdleCall]
  /\ server = "running" /\ toClean = {} /\ atExit = {} /\ outside = 0
  /\ excused = {} /\ lost = {} /\ overlapped = {}

--------------------------------------------------------------------------------
At(c, place) == server # "exited" /\ call[c].pc = place

Using == {"using", "refused"}

\* A call on id i by an idle caller, with the session it captured.
Begin(c, i, place, session) ==
  /\ At(c, "idle")
  /\ call' = [call EXCEPT ![c] = [pc |-> place, id |-> i, session |-> session]]
  /\ overlapped' = IF \E d \in Callers : call[d].id = i /\ ~({place, call[d].pc} \subseteq Using)
                   THEN overlapped \cup {i} ELSE overlapped

\* What overlapped is over when the last call for the id ends.
End(c) ==
  /\ call' = [call EXCEPT ![c] = IdleCall]
  /\ overlapped' = {i \in overlapped : \E d \in Callers \ {c} : call[d].id = i}
Goto(c, place, session) ==
  /\ call' = [call EXCEPT ![c] = [pc |-> place, id |-> @.id, session |-> session]]
  /\ UNCHANGED overlapped
Put(i, session) ==
  /\ sessions' = [sessions EXCEPT ![i] = session]
  /\ lost' = lost \cup {s \in Own : /\ i \in overlapped /\ dev[s] = "booted"
                                  /\ sessions[i] = [sim |-> s, owned |-> TRUE]}
Of(c) == call[c].session

(***************************************************************************)
(* start_simulator: resume, or create under a reservation of the id.        *)
(***************************************************************************)

\* Fault: the reservation is not looked at.
StartNewUnguarded(c, i) ==
  /\ sessions[i] = NoSession
  /\ starting' = starting \cup {i}
  /\ Begin(c, i, "creating", NoSession)
  /\ UNCHANGED <<dev, sessions, lost, exitVars, excused>>

StartNew(c, i) ==
  /\ sessions[i] = NoSession /\ i \notin starting
  /\ starting' = starting \cup {i}
  /\ Begin(c, i, "creating", NoSession)
  /\ UNCHANGED <<dev, sessions, lost, exitVars, excused>>

StartKnown(c, i) ==
  /\ sessions[i] # NoSession
  /\ Begin(c, i, "asking", sessions[i])
  /\ UNCHANGED <<dev, sessions, lost, starting, exitVars, excused>>

\* state() says Booted and the window is raised, or asking failed.
Resumed(c) ==
  /\ At(c, "asking")
  /\ End(c)
  /\ UNCHANGED <<dev, sessions, lost, starting, exitVars, excused>>

\* Shut down or gone: drop the session, by id, and create in the same turn.
FoundStale(c) ==
  /\ At(c, "asking") /\ dev[Of(c).sim] # "booted"
  /\ Put(call[c].id, NoSession)
  /\ IF call[c].id \in starting
     THEN End(c) /\ UNCHANGED starting
     ELSE Goto(c, "creating", NoSession) /\ starting' = starting \cup {call[c].id}
  /\ UNCHANGED <<dev, exitVars, excused>>

\* simctl create.
Created(c) ==
  /\ At(c, "creating")
  /\ \E s \in Own : /\ dev[s] = "none"
                    /\ dev' = [dev EXCEPT ![s] = "shutdown"]
                    /\ Goto(c, "booting", [sim |-> s, owned |-> TRUE])
  /\ UNCHANGED <<sessions, lost, starting, exitVars, excused>>

CreateFails(c) ==
  /\ At(c, "creating")
  /\ starting' = starting \ {call[c].id}
  /\ End(c)
  /\ UNCHANGED <<dev, sessions, lost, exitVars, excused>>

\* boot() returns, driveable or not, and the session is registered, even if somebody
\* deleted the simulator while boot() waited for it.
Started(c) ==
  /\ At(c, "booting")
  /\ dev' = [dev EXCEPT ![Of(c).sim] = IF @ = "gone" THEN @ ELSE "booted"]
  /\ Put(call[c].id, Of(c))
  /\ starting' = starting \ {call[c].id}
  /\ End(c)
  /\ UNCHANGED <<exitVars, excused>>

\* simctl boot or opening the window throws: the simulator exists, with no handle.
BootThrows(c) ==
  /\ At(c, "booting")
  /\ dev' \in {dev, [dev EXCEPT ![Of(c).sim] = IF @ = "gone" THEN @ ELSE "booted"]}
  /\ excused' = excused \cup {Of(c).sim}
  /\ starting' = starting \ {call[c].id}
  /\ End(c)
  /\ UNCHANGED <<sessions, lost, exitVars>>

--------------------------------------------------------------------------------
(***************************************************************************)
(* attach_simulator, destroy_simulator and every other tool (withSession).  *)
(***************************************************************************)
AttachBegins(c, i, s) ==
  /\ sessions[i] = NoSession
  /\ dev[s] \in {"shutdown", "booted"}
  /\ Begin(c, i, "attaching", [sim |-> s, owned |-> FALSE])
  /\ UNCHANGED <<dev, sessions, lost, starting, exitVars, excused>>

\* Fault: an adopted simulator is registered as ours.
AttachedAsOurs(c) ==
  /\ At(c, "attaching") /\ dev[Of(c).sim] = "booted"
  /\ Put(call[c].id, [Of(c) EXCEPT !.owned = TRUE])
  /\ End(c)
  /\ UNCHANGED <<dev, starting, exitVars, excused>>

Attached(c) ==
  /\ At(c, "attaching") /\ dev[Of(c).sim] = "booted"
  /\ Put(call[c].id, Of(c))
  /\ End(c)
  /\ UNCHANGED <<dev, starting, exitVars, excused>>

AttachRefused(c) ==
  /\ At(c, "attaching") /\ dev[Of(c).sim] # "booted"
  /\ End(c)
  /\ UNCHANGED <<dev, sessions, lost, starting, exitVars, excused>>

DestroyBegins(c, i) ==
  /\ sessions[i] # NoSession
  /\ Begin(c, i, "destroying", sessions[i])
  /\ UNCHANGED <<dev, sessions, lost, starting, exitVars, excused>>

\* Deleted, or found to be gone already, or merely released.
Destroyed(c) ==
  /\ At(c, "destroying")
  /\ dev' = IF Of(c).owned THEN [dev EXCEPT ![Of(c).sim] = "gone"] ELSE dev
  /\ Put(call[c].id, NoSession)
  /\ End(c)
  /\ UNCHANGED <<starting, exitVars, excused>>

\* simctl delete fails, before or after simctl shutdown did its work.
LeftBehind(s) == dev' \in {dev, [dev EXCEPT ![s] = IF @ = "booted" THEN "shutdown" ELSE @]}

DestroyFails(c) ==
  /\ At(c, "destroying") /\ Of(c).owned /\ dev[Of(c).sim] # "gone"
  /\ LeftBehind(Of(c).sim)
  /\ End(c)
  /\ UNCHANGED <<sessions, lost, starting, exitVars, excused>>

UseBegins(c, i) ==
  /\ sessions[i] # NoSession
  /\ Begin(c, i, "using", sessions[i])
  /\ UNCHANGED <<dev, sessions, lost, starting, exitVars, excused>>

\* Fault: any failure drops the session.
UseEndsDropping(c) ==
  /\ At(c, "using")
  /\ Put(call[c].id, NoSession)
  /\ End(c)
  /\ UNCHANGED <<dev, starting, exitVars, excused>>

UseEnds(c) ==
  /\ At(c, "using")
  /\ End(c)
  /\ UNCHANGED <<dev, sessions, lost, starting, exitVars, excused>>

\* A delete of this server blocks the companions of a simulator while it works (an
\* attach may lift the block: then the use goes on).
Cleaning(s) == server = "cleaning" /\ CleanupOnExit /\ s \in toClean
BeingDeleted(s) ==
  \/ \E d \in Callers : call[d].pc = "destroying" /\ Of(d) = [sim |-> s, owned |-> TRUE]
  \/ Cleaning(s)

\* The block is a SimulatorNotFoundError, thrown after simctl was asked.
UseRefused(c) ==
  /\ At(c, "using") /\ BeingDeleted(Of(c).sim)
  /\ Goto(c, "refused", Of(c))
  /\ UNCHANGED <<dev, sessions, lost, starting, exitVars, excused>>

\* SimulatorNotFoundError drops the session of the id.
UseFindsNone(c) ==
  /\ \/ At(c, "using") /\ dev[Of(c).sim] = "gone"
     \/ At(c, "refused")
  /\ Put(call[c].id, NoSession)
  /\ End(c)
  /\ UNCHANGED <<dev, starting, exitVars, excused>>

--------------------------------------------------------------------------------
(***************************************************************************)
(* The exit path.                                                           *)
(***************************************************************************)
Signal ==
  /\ server = "running"
  /\ server' = "cleaning"
  /\ atExit' = {sessions[i].sim : i \in {j \in Ids : sessions[j].owned}}
  /\ toClean' = atExit'
  /\ UNCHANGED <<dev, sessions, starting, call, outside, excused, lost, overlapped>>

\* Fault: one teardown that fails ends them all.
CleanOneOfAll(s) ==
  /\ server = "cleaning" /\ s \in toClean
  /\ \/ dev' = [dev EXCEPT ![s] = "gone"] /\ toClean' = toClean \ {s} /\ UNCHANGED excused
     \/ excused' = excused \cup {s} /\ toClean' = {} /\ LeftBehind(s)
  /\ UNCHANGED <<sessions, starting, call, server, atExit, outside, lost, overlapped>>

\* Promise.allSettled: each is deleted or fails to be.  Without CleanupOnExit it is
\* released, which like the release of an attached one leaves it running.
CleanOne(s) ==
  /\ server = "cleaning" /\ s \in toClean
  /\ toClean' = toClean \ {s}
  /\ IF CleanupOnExit
     THEN \/ dev' = [dev EXCEPT ![s] = "gone"] /\ UNCHANGED excused
          \/ excused' = excused \cup {s} /\ LeftBehind(s)
     ELSE UNCHANGED <<dev, excused>>
  /\ UNCHANGED <<sessions, starting, call, server, atExit, outside, lost, overlapped>>

\* The process and what it remembered are gone.
Gone ==
  /\ server' = "exited"
  /\ sessions' = [i \in Ids |-> NoSession]
  /\ starting' = {}
  /\ call' = [c \in Callers |-> IdleCall]
  /\ lost' = {} /\ overlapped' = {}
  /\ UNCHANGED <<dev, toClean, atExit, outside, excused>>

Exit == server = "cleaning" /\ toClean = {} /\ Gone

\* cleaningUp makes the second signal's shutdown return at once, to process.exit.
SecondSignal == server = "cleaning" /\ Gone

--------------------------------------------------------------------------------
\* Somebody shuts a simulator down, or deletes it, at a terminal.  What becomes
\* of the simulators after the exit is not followed.
Outside(s, states, state) ==
  /\ server # "exited" /\ outside < MaxOutside /\ dev[s] \in states
  /\ dev' = [dev EXCEPT ![s] = state]
  /\ outside' = outside + 1
  /\ UNCHANGED <<sessions, starting, call, server, toClean, atExit, excused, lost, overlapped>>

UserShutsDown(s) == Outside(s, {"booted"}, "shutdown")
UserDeletes(s) == Outside(s, {"shutdown", "booted"}, "gone")

--------------------------------------------------------------------------------
CallBegins(c) ==
  \E i \in Ids : \/ StartNew(c, i) \/ StartKnown(c, i)
                 \/ DestroyBegins(c, i) \/ UseBegins(c, i)
                 \/ \E s \in Sims : AttachBegins(c, i, s)

CreateStep(c) == Created(c) \/ CreateFails(c) \/ Started(c) \/ BootThrows(c)

CallStep(c) ==
  \/ Resumed(c) \/ FoundStale(c) \/ CreateStep(c)
  \/ Attached(c) \/ AttachRefused(c)
  \/ Destroyed(c) \/ DestroyFails(c) \/ UseEnds(c) \/ UseRefused(c) \/ UseFindsNone(c)

Next ==
  \/ \E c \in Callers : CallBegins(c) \/ CallStep(c)
  \/ Signal \/ Exit \/ SecondSignal \/ \E s \in Own : CleanOne(s)
  \/ \E s \in Sims : UserShutsDown(s) \/ UserDeletes(s)

Spec == Init /\ [][Next]_vars

--------------------------------------------------------------------------------
\* The shape of the state.
TypeOK ==
  /\ dev \in [Sims -> {"none", "shutdown", "booted", "gone"}]
  /\ sessions \in [Ids -> Sessions \cup {NoSession}]
  /\ starting \in SUBSET Ids
  /\ call \in [Callers -> [pc : Places, id : Ids \cup {None}, session : Sessions \cup {NoSession}]]
  /\ server \in {"running", "cleaning", "exited"}
  /\ toClean \subseteq Own /\ atExit \subseteq Own
  /\ outside \in 0 .. MaxOutside
  /\ excused \subseteq Sims
  /\ lost \subseteq Own /\ overlapped \subseteq Ids

Creating(c) == call[c].pc \in {"creating", "booting"}

\* Two start_simulator calls for one id never both create, and no id stays "already
\* being created": the reservations are exactly the creations in progress.
OneCreationPerId ==
  /\ starting = {call[c].id : c \in {d \in Callers : Creating(d)}}
  /\ \A c, d \in Callers : Creating(c) /\ Creating(d) /\ call[c].id = call[d].id => c = d

\* Ownership is about simulators this server created, and each has one owner.
OwnersOwn ==
  /\ \A i \in Ids : sessions[i].owned => sessions[i].sim \in Own
  /\ \A i, j \in Ids : sessions[i].owned /\ sessions[i] = sessions[j] => i = j

RegistryOK == TypeOK /\ OneCreationPerId /\ OwnersOwn

\* A simulator this server did not create is never deleted by it, whichever
\* sessions attach to it, destroy it or exit.
ForeignSurvives ==
  [][\A s \in Foreign : dev[s] # "gone" /\ dev'[s] = "gone" => UserDeletes(s)]_vars

\* A running simulator of ours has an owner: a session, the call that is booting it, or
\* the exit path.  The exceptions are those whose own boot or deletion failed, and those
\* whose session was changed while calls for the id overlapped (uses among themselves do
\* not count).  So a use that is told "not found" of a simulator that is being deleted,
\* and drops the session (sessions.ts:170), loses nothing if no other kind of call
\* overlaps it: the delete it met is the exit path's.
Accounted(s) ==
  \/ \E i \in Ids : sessions[i] = [sim |-> s, owned |-> TRUE]
  \/ \E c \in Callers : call[c].pc = "booting" /\ Of(c).sim = s
  \/ Cleaning(s)
  \/ s \in excused

LostOnlyToOverlaps ==
  server # "exited" =>
    \A s \in Own : dev[s] = "booted" => Accounted(s) \/ s \in lost

\* An undisturbed exit leaves none of the simulators its sessions owned running,
\* but for those whose own deletion failed.
ExitDeletesOwned ==
  server = "exited" /\ toClean = {} /\ CleanupOnExit =>
    \A s \in atExit : dev[s] = "gone" \/ s \in excused

--------------------------------------------------------------------------------
(***************************************************************************)
(* The inductive strengthening of the safety properties.                    *)
(***************************************************************************)
OwnSession(session) == session.owned /\ session.sim \in Own

\* What a call captured is a session of its id, and an owned one is of ours.
CallsHoldSessions ==
  \A c \in Callers :
    /\ call[c].pc = "idle" <=> call[c].id = None
    /\ call[c].pc \notin {"idle", "creating"} => Of(c) \in Sessions
    /\ Of(c).owned => Of(c).sim \in Own
    /\ call[c].pc = "booting" => OwnSession(Of(c))
    /\ call[c].pc = "attaching" => ~Of(c).owned

\* A simulator that is being created is nobody's yet, and one that somebody owns, or
\* captured, is not created again.
CreatedOnce ==
  /\ \A i \in Ids : sessions[i].owned => dev[sessions[i].sim] # "none"
  /\ \A c \in Callers : Of(c).owned => dev[Of(c).sim] # "none"
  /\ \A c \in Callers : call[c].pc = "booting" =>
       /\ \A i \in Ids : sessions[i] # Of(c)
       /\ \A d \in Callers : Of(d) = Of(c) => d = c

\* A simulator of ours is only ever captured, and registered as ours, under one id.
UnderOneId ==
  \A c \in Callers : Of(c).owned =>
    /\ \A i \in Ids : sessions[i] = Of(c) => i = call[c].id
    /\ \A d \in Callers : Of(d) = Of(c) => call[d].id = call[c].id

\* As long as calls for an id do not overlap, the registry holds for it what its call
\* captured, or nothing.
UpToDate(c) ==
  /\ \A d \in Callers : call[d].id = call[c].id => d = c \/ {call[c].pc, call[d].pc} \subseteq Using
  /\ call[c].pc \in {"asking", "destroying"} => sessions[call[c].id] = Of(c)
  /\ call[c].pc \in {"creating", "booting", "attaching"} => sessions[call[c].id] = NoSession
  /\ call[c].pc \in Using => sessions[call[c].id] \in {Of(c), NoSession}

CallsAreUpToDate ==
  \A c \in Callers : call[c].pc # "idle" /\ call[c].id \notin overlapped => UpToDate(c)

\* A use that was refused on a simulator of its own was refused for the exit path.
RefusedForExit ==
  \A c \in Callers :
    call[c].pc = "refused" /\ Of(c).owned /\ call[c].id \notin overlapped =>
      dev[Of(c).sim] # "booted" \/ Of(c).sim \in excused \/ Cleaning(Of(c).sim)

\* What the exit path has dealt with is gone, or its deletion failed.
CleanedAreGone ==
  /\ server = "running" => atExit = {} /\ toClean = {}
  /\ CleanupOnExit => \A s \in atExit \ toClean : dev[s] = "gone" \/ s \in excused

IInv ==
  /\ RegistryOK
  /\ CallsHoldSessions
  /\ CreatedOnce
  /\ UnderOneId
  /\ CallsAreUpToDate
  /\ RefusedForExit
  /\ LostOnlyToOverlaps
  /\ CleanedAreGone
================================================================================
