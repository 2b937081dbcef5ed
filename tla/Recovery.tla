------------------------------- MODULE Recovery -------------------------------
(***************************************************************************)
(* Curing a simulator whose accessibility stopped answering: the read       *)
(* ladder of Simulator (describeAll, withAccessibilityRecovery,             *)
(* recoverWedgedAccessibility, diagnoseEmptyTree; packages/simgadget/src/   *)
(* simulator.ts), the decision in ax/recovery.ts and the udid-keyed         *)
(* RecoveryRegistry (internal/registry.ts) that all handles of a simulator  *)
(* share.                                                                   *)
(*                                                                         *)
(* One simulator; each read is a call through some handle: the screen       *)
(* ("screen": describeScreen), its size ("size": screenSize), a lookup      *)
(* ("marker": findByMarker) or a point of it ("point": readPoint).          *)
(* An action is what runs between two awaits.  Time is abstracted to        *)
(* whether the cooldown since the last attempt has passed.                  *)
(***************************************************************************)
EXTENDS Naturals

CONSTANTS
  Reads,         \* calls of a reading method
  Casts,         \* which methods they may be calls of
  MaxFaults,     \* bound on how often the environment breaks something
  MaxCooldowns,  \* bound on how often a cooldown runs out
  Guest0         \* how the guest's bridge starts: "booting" or "up"

ASSUME BoundsAssumption ==
  MaxFaults \in Nat /\ MaxCooldowns \in Nat /\ Guest0 \in {"booting", "up"}

Kinds == {"screen", "size", "marker", "point"}

ASSUME CastsAssumption == Casts \subseteq [Reads -> Kinds]

VARIABLES
  bridge,     \* the guest's accessibility bridge
  stale,      \* the companion serves an empty tree for a healthy simulator
  answered,   \* registry: hasAnswered
  cooling,    \* registry: less than the cooldown since lastRecoveryAt
  inFlight,   \* registry: recoveryInFlight, the number of the attempt or 0
  attempts,   \* bridge restarts ordered so far
  outcome,    \* what each attempt resolved to
  call,       \* the state of each read
  faults, cooldowns

vars == <<bridge, stale, answered, cooling, inFlight, attempts, outcome, call,
          faults, cooldowns>>
guestVars == <<bridge, stale, faults>>
registryVars == <<answered, cooling, inFlight, attempts, outcome, cooldowns>>

Attempts == 1 .. MaxCooldowns + 1
PostRecoveryReadAttempts == 3

Ends == {"ok", "failed",    \* an element or tree; an error of its own
         "refused",         \* SimulatorNotAnsweringError(false): cooling down
         "neverAnswered",   \* SimulatorNotAnsweringError(false): still booting
         "notHelped",       \* SimulatorNotAnsweringError(true)
         "stillBooting", "unreadable"} \* AccessibilityUnreadableError
Places == {"idle", "reading", "rereading", "lastRead", "asking", "diagnosing",
           "restarting", "probing", "sharing"} \cup Ends

\* tries: reads left after a cure, 0 before any.  stage: which of its reads the
\* verb is at, the plain one it starts with, describeAll, the plain one again, or
\* the one after a diagnosis that cured.  why: who asked for the recovery in
\* progress.  joined: the attempt this call ordered or shared last.
NewCall(kind) ==
  [pc |-> "idle", kind |-> kind, tries |-> 0,
   stage |-> IF kind = "size" THEN "all" ELSE "plain",
   why |-> "wrapper", joined |-> 0]

\* Is the call inside describeAll?
Thorough(c) == c.stage = "all" \/ c.kind = "size"

Init ==
  /\ bridge = Guest0
  /\ stale = FALSE
  /\ answered = FALSE
  /\ cooling = FALSE
  /\ inFlight = 0
  /\ attempts = 0
  /\ outcome = [a \in Attempts |-> "none"]
  /\ \E cast \in Casts : call = [r \in Reads |-> NewCall(cast[r])]
  /\ faults = 0
  /\ cooldowns = 0

(***************************************************************************)
(* What a read brings back.  A flaky bridge, just restarted, answers some   *)
(* reads and not others; any read can fail for a reason of its own.  A      *)
(* point with nothing on it raises the error of the wedge.                  *)
(***************************************************************************)
Comes == {"booting", "rebooting"}

Answers(kind) ==
  CASE kind = "point" -> {"usable", "wedge"}
    [] kind = "marker" -> {"usable"}
    [] OTHER -> IF bridge = "empty" \/ stale THEN {"empty"} ELSE {"usable"}

ReadResults(kind) ==
  CASE bridge = "wedged" -> {"wedge"}
    [] bridge = "flaky"  -> {"wedge"} \cup Answers(kind)
    [] bridge \in Comes  -> IF kind = "marker" THEN {"wedge"} ELSE {"wedge", "empty"}
    [] bridge = "gone"   -> {}
    [] OTHER             -> Answers(kind)

--------------------------------------------------------------------------------
(***************************************************************************)
(* Pure steps of a call.                                                    *)
(***************************************************************************)
\* What is no longer of use to a call is forgotten.
End(c, result) ==
  [NewCall(c.kind) EXCEPT !.pc = result, !.joined = IF result = "notHelped" THEN c.joined ELSE 0]

To(c, stage) ==
  [c EXCEPT !.pc = "reading", !.tries = 0, !.stage = stage, !.why = "wrapper", !.joined = 0]

\* The read of this stage returned a degenerate tree to the verb.
AfterEmpty(c) ==
  CASE c.stage = "plain" -> To(c, "all")
    [] c.stage \in {"all", "again"} -> [c EXCEPT !.pc = "diagnosing"]
    [] c.stage = "cured" -> End(c, "unreadable")

\* The read of this stage returned what was asked for: describeScreen goes back
\* to its own read after describeAll, everything else is done.
AfterUsable(c) ==
  IF c.kind = "screen" /\ c.stage = "all" THEN To(c, "again") ELSE End(c, "ok")

\* recoverWedgedAccessibility returned.
AfterRecovery(c, cured) ==
  CASE c.why = "wrapper" /\ cured ->
         [c EXCEPT !.pc = "reading", !.tries = PostRecoveryReadAttempts]
    [] c.why = "wrapper" /\ ~cured -> End(c, "notHelped")
    [] c.why = "ladder" /\ cured -> [c EXCEPT !.pc = "lastRead"]
    [] c.why = "ladder" /\ ~cured -> AfterEmpty(c)
    [] c.why = "diagnosis" /\ cured -> To(c, "cured")
    [] c.why = "diagnosis" /\ ~cured -> End(c, "unreadable")

\* Fault for the mutants: the attempt in flight is not looked at.
RecoverUnshared(r, c) ==
  IF cooling
  THEN /\ call' = [call EXCEPT ![r] = AfterRecovery(c, FALSE)]
       /\ UNCHANGED <<cooling, inFlight, attempts, outcome>>
  ELSE /\ attempts' = attempts + 1
       /\ inFlight' = attempts + 1
       /\ outcome' = [outcome EXCEPT ![attempts + 1] = "running"]
       /\ cooling' = TRUE
       /\ call' = [call EXCEPT ![r] = [c EXCEPT !.pc = "restarting",
                                                !.joined = attempts + 1]]

\* recoverWedgedAccessibility: share the attempt in flight, give up within the
\* cooldown, or order a restart and start the cooldown.
Recover(r, c) ==
  CASE inFlight # 0 ->
         /\ call' = [call EXCEPT ![r] = [c EXCEPT !.pc = "sharing",
                                                  !.joined = inFlight]]
         /\ UNCHANGED <<cooling, inFlight, attempts, outcome>>
    [] inFlight = 0 /\ cooling ->
         /\ call' = [call EXCEPT ![r] = AfterRecovery(c, FALSE)]
         /\ UNCHANGED <<cooling, inFlight, attempts, outcome>>
    [] inFlight = 0 /\ ~cooling ->
         /\ attempts' = attempts + 1
         /\ inFlight' = attempts + 1
         /\ outcome' = [outcome EXCEPT ![attempts + 1] = "running"]
         /\ cooling' = TRUE
         /\ call' = [call EXCEPT ![r] = [c EXCEPT !.pc = "restarting",
                                                  !.joined = attempts + 1]]

\* Fault: the cooldown is left to the guard inside the recovery.
WedgedUndecided(r) ==
  LET c == call[r] IN
  IF c.tries = 0 /\ answered
  THEN Recover(r, [c EXCEPT !.why = "wrapper"])
  ELSE /\ call' = [call EXCEPT ![r] = End(c, "failed")]
       /\ UNCHANGED <<cooling, inFlight, attempts, outcome>>

\* Fault: the reads after a cure are not counted.
WedgedUncounted(r) ==
  LET c == call[r] IN
  CASE c.tries = 0 /\ answered /\ ~cooling -> Recover(r, [c EXCEPT !.why = "wrapper"])
    [] OTHER ->
         /\ call' = [call EXCEPT ![r] = IF c.tries = 0 THEN End(c, "refused")
                                        ELSE [c EXCEPT !.pc = "reading"]]
         /\ UNCHANGED <<cooling, inFlight, attempts, outcome>>

\* The catch of withAccessibilityRecovery.  Before a cure, shouldRecover decides:
\* never on a simulator that has not answered, never within the cooldown.  After
\* one, the read has a few more attempts.
Wedged(r) ==
  LET c == call[r] IN
  CASE c.tries = 0 /\ answered /\ ~cooling -> Recover(r, [c EXCEPT !.why = "wrapper"])
    [] OTHER ->
         /\ call' = [call EXCEPT ![r] =
              CASE c.tries = 0 /\ ~answered -> End(c, "neverAnswered")
                [] c.tries = 0 /\ answered -> End(c, "refused")
                [] c.tries = 1 -> End(c, "notHelped")
                [] OTHER -> [c EXCEPT !.pc = "reading", !.tries = @ - 1]]
         /\ UNCHANGED <<cooling, inFlight, attempts, outcome>>

--------------------------------------------------------------------------------
(***************************************************************************)
(* The reads.                                                               *)
(***************************************************************************)
Begin(r) ==
  /\ call[r].pc = "idle"
  /\ call' = [call EXCEPT ![r].pc = "reading"]
  /\ UNCHANGED <<guestVars, registryVars>>

AtRead(r) == call[r].pc \in {"reading", "rereading", "lastRead"}

\* A usable read: markAnswered, and the answer.
ReadUsable(r) ==
  /\ AtRead(r)
  /\ "usable" \in ReadResults(call[r].kind)
  /\ answered' = TRUE
  /\ call' = [call EXCEPT ![r] = AfterUsable(@)]
  /\ UNCHANGED <<guestVars, cooling, inFlight, attempts, outcome, cooldowns>>

ReadOtherError(r) ==
  /\ AtRead(r)
  /\ call' = [call EXCEPT ![r] = End(@, "failed")]
  /\ UNCHANGED <<guestVars, registryVars>>

ReadWedge(r) ==
  /\ AtRead(r) /\ call[r].kind # "point"
  /\ "wedge" \in ReadResults(call[r].kind)
  /\ Wedged(r)
  /\ UNCHANGED <<guestVars, answered, cooldowns>>

\* readPoint, the error of the wedge: ask for the whole screen which of the two it is.
PointWedge(r) ==
  /\ AtRead(r) /\ call[r].kind = "point"
  /\ "wedge" \in ReadResults("point")
  /\ call' = [call EXCEPT ![r].pc = "asking"]
  /\ UNCHANGED <<guestVars, registryVars>>

\* The screen answers, so there is nothing at the point.
ScreenAnswers(r) ==
  /\ call[r].pc = "asking"
  /\ "usable" \in ReadResults("size")
  /\ answered' = TRUE
  /\ call' = [call EXCEPT ![r] = End(@, "ok")]
  /\ UNCHANGED <<guestVars, cooling, inFlight, attempts, outcome, cooldowns>>

\* It does not, for whatever reason: the error is thrown on.
ScreenSilent(r) ==
  /\ call[r].pc = "asking"
  /\ Wedged(r)
  /\ UNCHANGED <<guestVars, answered, cooldowns>>

\* An element without a frame is an answer, but no sign of the bridge.
PointBlank(r) ==
  /\ AtRead(r) /\ call[r].kind = "point"
  /\ "empty" \in ReadResults("point")
  /\ call' = [call EXCEPT ![r] = End(@, "ok")]
  /\ UNCHANGED <<guestVars, registryVars>>

\* readScreenTree, an empty tree: the verb goes on to the next stage.
EmptyPlain(r) ==
  /\ call[r].pc = "reading"
  /\ call[r].kind = "screen" /\ ~Thorough(call[r])
  /\ "empty" \in ReadResults(call[r].kind)
  /\ call' = [call EXCEPT ![r] = AfterEmpty(@)]
  /\ UNCHANGED <<guestVars, registryVars>>

\* describeAll, an empty tree: restart our companion and ask again.
EmptyFirst(r) ==
  /\ call[r].pc = "reading"
  /\ Thorough(call[r])
  /\ "empty" \in ReadResults(call[r].kind)
  /\ stale' = FALSE
  /\ call' = [call EXCEPT ![r].pc = "rereading"]
  /\ UNCHANGED <<bridge, faults, registryVars>>

\* Fault: the gate on hasAnswered is missing from the ladder.
EmptyAgainUngated(r) ==
  /\ call[r].pc = "rereading"
  /\ "empty" \in ReadResults(call[r].kind)
  /\ Recover(r, [call[r] EXCEPT !.why = "ladder"])
  /\ UNCHANGED <<guestVars, answered, cooldowns>>

\* Empty again: the guest's side of the symptom, if it has ever answered.
EmptyAgain(r) ==
  /\ call[r].pc = "rereading"
  /\ "empty" \in ReadResults(call[r].kind)
  /\ IF answered
     THEN Recover(r, [call[r] EXCEPT !.why = "ladder"])
     ELSE /\ call' = [call EXCEPT ![r] = AfterEmpty(@)]
          /\ UNCHANGED <<cooling, inFlight, attempts, outcome>>
  /\ UNCHANGED <<guestVars, answered, cooldowns>>

EmptyLast(r) ==
  /\ call[r].pc = "lastRead"
  /\ "empty" \in ReadResults(call[r].kind)
  /\ call' = [call EXCEPT ![r] = AfterEmpty(@)]
  /\ UNCHANGED <<guestVars, registryVars>>

\* diagnoseEmptyTree: point reads never answer while the simulator is booting;
\* when one does, the cheap cure is tried here too.
DiagnosePointsAnswer(r) ==
  /\ call[r].pc = "diagnosing"
  /\ bridge \in {"up", "empty", "flaky"}
  /\ Recover(r, [call[r] EXCEPT !.why = "diagnosis"])
  /\ UNCHANGED <<guestVars, answered, cooldowns>>

DiagnosePointsDoNot(r) ==
  /\ call[r].pc = "diagnosing"
  /\ call' = [call EXCEPT ![r] = End(@, "stillBooting")]
  /\ UNCHANGED <<guestVars, registryVars>>

--------------------------------------------------------------------------------
(***************************************************************************)
(* The attempt.                                                             *)
(***************************************************************************)

\* The attempt settles: the registry forgets it and the cooldown starts again.
Settles(r, result) ==
  /\ outcome' = [outcome EXCEPT ![call[r].joined] = result]
  /\ inFlight' = 0
  /\ cooling' = TRUE
  /\ call' = [call EXCEPT ![r] = AfterRecovery(@, result = "cured")]
  /\ UNCHANGED <<answered, attempts, cooldowns>>

\* simctl could not restart the bridge.
RestartFails(r) ==
  /\ call[r].pc = "restarting"
  /\ Settles(r, "failed")
  /\ UNCHANGED guestVars

\* The bridge is restarted, which may or may not cure what is wrong.
RestartDone(r) ==
  /\ call[r].pc = "restarting" /\ bridge # "gone"
  /\ bridge' \in {"flaky", "wedged", bridge}
  /\ call' = [call EXCEPT ![r].pc = "probing"]
  /\ UNCHANGED <<stale, faults, registryVars>>

\* accessibilityIsAnswering: a whole-screen read with a frame that is not 0x0.
ProbeAnswers(r) ==
  /\ call[r].pc = "probing"
  /\ "usable" \in ReadResults("size")
  /\ Settles(r, "cured")
  /\ UNCHANGED guestVars

\* The probe window closes: every failure of a probe counts as no answer.
ProbeGivesUp(r) ==
  /\ call[r].pc = "probing"
  /\ Settles(r, "failed")
  /\ UNCHANGED guestVars

\* A call that shared the attempt gets its verdict.
SharedSettles(r) ==
  /\ call[r].pc = "sharing"
  /\ outcome[call[r].joined] # "running"
  /\ call' = [call EXCEPT ![r] = AfterRecovery(@, outcome[@.joined] = "cured")]
  /\ UNCHANGED <<guestVars, registryVars>>

--------------------------------------------------------------------------------
(***************************************************************************)
(* Others on the same simulator: a wait for its boot through another handle, *)
(* which writes to the registry and restarts the bridge without asking it,   *)
(* and a delete.                                                            *)
(***************************************************************************)

\* waitUntilDriveable got a frame.
WaitAnswers ==
  /\ "usable" \in ReadResults("size")
  /\ answered' = TRUE
  /\ UNCHANGED <<guestVars, cooling, inFlight, attempts, outcome, call, cooldowns>>

WaitRestarts ==
  /\ faults < MaxFaults
  /\ bridge # "gone"
  /\ bridge' \in {"flaky", "wedged", bridge}
  /\ faults' = faults + 1
  /\ UNCHANGED <<stale, registryVars, call>>

\* The end of delete: simctl returned, and the registry forgets the simulator, an
\* attempt in flight included.
Deletes ==
  /\ bridge # "gone"
  /\ bridge' = "gone"
  /\ answered' = FALSE
  /\ cooling' = FALSE
  /\ inFlight' = 0
  /\ UNCHANGED <<stale, faults, attempts, outcome, call, cooldowns>>

--------------------------------------------------------------------------------
(***************************************************************************)
(* The environment.                                                         *)
(***************************************************************************)
BridgeComesUp ==
  /\ bridge \in Comes \cup {"flaky"}
  /\ bridge' = "up"
  /\ UNCHANGED <<stale, faults, registryVars, call>>

\* A wedge, an empty tree, or a shutdown and boot of the simulator (which leaves
\* the registry as it is).
BridgeBreaks ==
  /\ faults < MaxFaults
  /\ bridge = "up"
  /\ bridge' \in {"wedged", "empty", "rebooting"}
  /\ faults' = faults + 1
  /\ UNCHANGED <<stale, registryVars, call>>

CompanionGoesStale ==
  /\ faults < MaxFaults
  /\ ~stale
  /\ stale' = TRUE
  /\ faults' = faults + 1
  /\ UNCHANGED <<bridge, registryVars, call>>

\* 60 s since the last attempt; a slow attempt may outlast its own cooldown.
CooldownPasses ==
  /\ cooling
  /\ cooldowns < MaxCooldowns
  /\ cooling' = FALSE
  /\ cooldowns' = cooldowns + 1
  /\ UNCHANGED <<guestVars, answered, inFlight, attempts, outcome, call>>

--------------------------------------------------------------------------------
ReadStep(r) ==
  \/ ReadUsable(r) \/ ReadOtherError(r) \/ ReadWedge(r)
  \/ PointWedge(r) \/ PointBlank(r) \/ ScreenAnswers(r) \/ ScreenSilent(r)
  \/ EmptyPlain(r) \/ EmptyFirst(r) \/ EmptyAgain(r) \/ EmptyLast(r)
  \/ DiagnosePointsAnswer(r) \/ DiagnosePointsDoNot(r)

AttemptStep(r) ==
  \/ RestartFails(r) \/ RestartDone(r)
  \/ ProbeAnswers(r) \/ ProbeGivesUp(r) \/ SharedSettles(r)

Next ==
  \/ \E r \in Reads : Begin(r) \/ ReadStep(r) \/ AttemptStep(r)
  \/ WaitAnswers \/ WaitRestarts \/ Deletes
  \/ BridgeComesUp \/ BridgeBreaks \/ CompanionGoesStale \/ CooldownPasses

Spec == Init /\ [][Next]_vars

\* Reads carry deadlines, simctl returns and the probe window closes.
FairSpec == Spec /\ \A r \in Reads : WF_vars(ReadStep(r) \/ AttemptStep(r))

--------------------------------------------------------------------------------
\* The shape of the state.
Calls == [pc : Places, kind : Kinds, tries : 0 .. PostRecoveryReadAttempts,
          stage : {"plain", "all", "again", "cured"},
          why : {"wrapper", "ladder", "diagnosis"}, joined : Attempts \cup {0}]

TypeOK ==
  /\ bridge \in Comes \cup {"up", "wedged", "empty", "flaky", "gone"}
  /\ stale \in BOOLEAN /\ answered \in BOOLEAN /\ cooling \in BOOLEAN
  /\ inFlight \in Attempts \cup {0}
  /\ attempts \in Attempts \cup {0}
  /\ outcome \in [Attempts -> {"none", "running", "cured", "failed"}]
  /\ call \in [Reads -> Calls]
  /\ faults \in 0 .. MaxFaults /\ cooldowns \in 0 .. MaxCooldowns

\* However many reads fail at once, through whatever handles, one bridge restart
\* is under way at a time, and the registry knows it unless a delete made it forget:
\* "they share a single restart rather than each ordering their own".
OneRestartAtATime ==
  \A r \in Reads : call[r].pc \in {"restarting", "probing"} =>
    /\ inFlight = call[r].joined \/ bridge = "gone"
    /\ \A q \in Reads : call[q].pc \in {"restarting", "probing"} => q = r

\* The registry never points at an attempt nobody is running: a failure cannot
\* be told to wait for a verdict that will not come.
InFlightIsRunning ==
  inFlight # 0 =>
    \E r \in Reads : /\ call[r].pc \in {"restarting", "probing"}
                     /\ call[r].joined = inFlight

\* A simulator in its first boot never has its bridge restarted by a read:
\* neither the wedge, nor the empty tree, the diagnosis or a point arms the cure.
BootingIsLeftAlone == [][bridge = "booting" => attempts' = attempts]_vars

\* SimulatorNotAnsweringError(true) is only thrown by a call that ordered or
\* shared a restart ("true means one was actually attempted this time").
TriedMeansTried ==
  \A r \in Reads : call[r].pc = "notHelped" => call[r].joined # 0

\* What keeps the above inductive: the registry's attempt is the running one and
\* the call that runs it knows its number, as does one that reads on after a cure;
\* until a delete, every attempt used up a cooldown; a simulator in its first boot, or
\* one that is gone, has not answered.
AttemptsAreCounted ==
  /\ inFlight <= attempts
  /\ \A a \in Attempts : inFlight = a => outcome[a] = "running"
  /\ bridge # "gone" =>
       /\ attempts <= cooldowns + (IF cooling THEN 1 ELSE 0)
       /\ \A a \in Attempts : outcome[a] = "running" => inFlight = a
  /\ \A r \in Reads :
       call[r].pc \in {"restarting", "probing", "sharing"} \/ call[r].tries # 0 =>
         call[r].joined # 0

NotAnsweredYet == bridge \in {"booting", "gone"} => ~answered

IInv == TypeOK /\ OneRestartAtATime /\ InFlightIsRunning /\ TriedMeansTried
        /\ AttemptsAreCounted /\ NotAnsweredYet

\* Every read ends, whatever the bridge does: the ladder of cures is finite.
EveryReadEnds ==
  \A r \in Reads : call[r].pc # "idle" ~> call[r].pc \in Ends

\* docs/devs/SIMGADGET.md:372 "two handles on one udid must share one recovery
\* attempt": no read of a simulator that has answered is turned away while a
\* restart is under way.
SharesOngoingRestart ==
  [][\A r \in Reads :
       inFlight # 0 => ~(call[r].pc # "refused" /\ call'[r].pc = "refused")]_vars
================================================================================
