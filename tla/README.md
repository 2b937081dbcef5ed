# simgadget: a verification development

simgadget drives iOS simulators: a library (`packages/simgadget`) and an MCP server on
top of it (`packages/simgadget-mcp`). Both are TypeScript on Node, so there is one
thread and no data race; what is hard is everything that happens *between two awaits*,
and the two things that run beside the program: child processes (`idb_companion`,
`simctl`, recorders) and the guest's accessibility service. The modules here follow that
grain: **an action is what the code runs between two awaits, or in one event handler**;
the environment has actions of its own; a call is an actor with a place (`pc`).

All paths below are relative to the repository; `sim/` stands for
`packages/simgadget/src/`, `mcp/` for `packages/simgadget-mcp/src/`.

## 1. Inventory

| Component | State it keeps | Operations | Interacts with |
|---|---|---|---|
| Companion manager, `sim/idb/companionManager.ts` | per udid: the published companion, the spawn in flight, the lock tail, the closed set | `withClient`, `companionFor`, `spawn`, `retire`, `shutdown`, `close`, `reopen`, exit handler | child process events, gRPC channel, resolver; called by every simulator operation |
| Exclusive chain, same file | one promise tail per udid | `exclusively` | all input and recording control goes through it |
| Companion resolver, `sim/idb/companionBinary.ts` | `pending`, the shared promise; the cache directory | `resolve`, download, verify, install | other processes and users share the cache |
| Wedge recovery, `sim/simulator.ts`, `sim/ax/recovery.ts`, `sim/internal/registry.ts` | per udid, shared by all handles: `hasAnswered`, `lastRecoveryAt`, `recoveryInFlight` | the read ladder, `recoverWedgedAccessibility`, `diagnoseEmptyTree` | guest bridge, companion manager |
| Boot ladder, `sim/lifecycle.ts` | clock, `pollingStarted`, `recoveryTried`; a `bootstatus` child and its cap | `boot`, `waitReady`, `waitUntilDriveable` | simctl, reads |
| Recording, `sim/simulator.ts`, `sim/capture.ts` | per handle: the recording slot; per process: `activeRecordings` | `startRecording`, `stopRecording`, the part of `delete` that stops one, exit hook | recorder children |
| Teardown, `sim/simulator.ts`, `sim/lifecycle.ts` | per handle: `deleted`; the manager's gate | `delete`, `attachSimulatorWith`, failure resolution in `withClient` | manager, simctl |
| Sessions, `mcp/sessions.ts`, `mcp/tools.ts`, `mcp/index.ts` | id -> session, ids being created, exit latch | `create`, `attach`, `destroy`, `withSession`, `start_simulator`, exit | library, signals |
| Orientation, `sim/simulator.ts`, `sim/ax/orientation.ts` | per handle: `orientationHint`, `screenDims` | `rotate`, `detectOrientation`, `toPortrait`, the transform and the candidates | reads, touches; the device may be turned behind its back |
| Accessibility tree, `sim/ax/tree.ts`, `sim/ax/tap.ts`, `sim/ax/input.ts` | none (pure) | remote subtrees, pruning, matching and scoring, location by a point, hit test, probes, toggles | every read and act |
| Tap and input, `sim/simulator.ts`, `sim/idb/client.ts` | none of its own; the event stream in progress | `tap` in three forms, `swipe`, `typeText`, `activateToggle`, `pressButton` | exclusive chain, companion |
| Key map, `sim/idb/keymap.ts` | none | characters to key strokes | `typeText` |
| Client, `sim/idb/client.ts` | channel and deadlines | one method per RPC | companion |
| Protocol, `sim/idb/generated/idb.ts` | none | `encode` and `decode` of every message | client; a companion of another version |
| Transport, `mcp/transport.ts` | none between requests | `runHttp`, `runStdio`, configuration | SDK |
| Rendering, errors, environment, command lines, scripts, test app, website | none | formatting, lookups | |

What is hard, by kind: two callers between the same two awaits (spawn, recovery,
recording, sessions, download); an answer about an instance that has been replaced
meanwhile (late retirement, late exit and close events, late not-found); a step of
several failing (delete, exit, install, boot after create); a screen, an orientation or a
focus that is no longer what a call saw when it acts on it; timers against answers (the
SIGKILL timer, the recorder's fallback, the bootstatus cap, the ladder's budget); loops
that must end (read ladder, waiters, chain). `PROJECT.json` lists the hazards at their
lines, each with the properties that would catch it or a note saying why none does.

## 2. Modules

| Module | Models | Abstract specification / proofs | Run |
|---|---|---|---|
| `Companions` (`MCCompanions`) | the manager for one udid | `CompanionsProofs` | `companions` |
| `ExclusiveChain` | the promise chain of `exclusively` | implements `FifoLock`; `ActingProofs` | as part of `acting` |
| `Recovery` (`MCRecovery`) | read ladder, shared restart, cooldown, diagnosis | `RecoveryProofs` | `recovery_reads`, `recovery_shares` |
| `BootLadder` | one boot or wait, in its own clock | `SimulatorProofs` | `boot_ladder` |
| `Resolver` | the shared resolution and the cache | `ResolverProofs` | `resolver` |
| `Recording` | one handle's slot and its children | `RecordingProofs` | `recording`, `recording_replaces` |
| `Teardown` | handles, deletes and calls on one udid | `SimulatorProofs` | `teardown`, `teardown_respawn` |
| `Sessions` (`MCSessions`) | the server's registry and exit | `SessionsProofs` | `sessions` |
| `Geometry` | rotation, frames and hit slop as arithmetic | `ActingProofs` | as part of `acting` |
| `Tree` | the accessibility tree as operators on sequences of nodes | `ActingProofs` | as part of `acting` |
| `KeyMap` | characters, strokes, and a keyboard that reads them | `ActingProofs` | as part of `acting` |
| `Acting` (`MCActing`) | one handle reading and acting on a device; composes `Geometry`, `Tree`, `KeyMap` and `ExclusiveChain` | refines `FifoLock`; `ActingProofs` | `acting` |
| `IdbMessages`, `Wire` (`MCWire`) | every message of the protocol; a message encoded, and read record by record | `WireProofs` | `wire` |

**Companions.** The manager's maps are keyed by udid and no operation touches another
udid's entry, so the module has one udid: `registered` is `companions.get(udid)`,
`spawning` and `stage` the spawn in flight and how far it is, `closed` the closed set,
`queue` the exclusive calls in the order of the chain. A companion *instance* is a
generation, as in the code, with what the operating system thinks of its process
(`proc`), whether the exit event was handled (`exited`: the process dies before Node
hears of it) and its channel (`client`). Readers call `withClient` and may be retried
once; writers call it with `{exclusive: true}` and never are; stoppers call `shutdown` or
`close`. `retire` is split at its await (`RetireFirst`, then `RetireSeesExit` or
`RetireTimesOut`). A companion may die between any two steps.

**ExclusiveChain / FifoLock.** The code has no queue: a call keeps the promise it was
chained behind and the map keeps the last tail. `ExclusiveChain` models those promises;
`ImplementsFifoLock` shows that they are a first-in-first-out lock, which is what the
queue of `Companions` stands for.

**Recovery.** A call is a record: where it is, its kind (describeScreen, screenSize, a
marker lookup, readPoint), the reads it has left after a cure, the stage of its verb, who
asked for the recovery, the attempt it joined. `Wedged` is the catch of
`withAccessibilityRecovery` with `shouldRecover`; `Recover` is
`recoverWedgedAccessibility` up to its await; `Settles` its finally. A point with nothing
on it raises the error of the wedge, so `PointWedge` asks for the whole screen first.
Others act on the same simulator: a wait for its boot (`WaitAnswers`, and `WaitRestarts`,
which restarts the bridge without asking the registry) and a delete (`Deletes`), after
which the registry has forgotten the simulator while an attempt may still be running. The
guest's bridge is the environment: booting, up, wedged, empty, flaky (just restarted),
rebooting, gone; `stale` is a companion that serves an empty tree. Time is whether the
cooldown has passed.

**BootLadder.** Time matters here, so `now` is a number and every step jumps it by what
it awaits: a timer fires on time or up to `MaxLate` late, a read takes up to `MaxRead`,
a restart up to `MaxRestart`. `LoopHead` is the while condition, `ReadFails` the catch.

**Resolver.** A resolution is the promise of one `resolveOnce` with its catch; `pending`
is the shared one; `on` is the promise each caller waits for, which need not be `pending`
any more. `cache` is what is on disk, and others clear it, remove its binary or install
into it at any moment.

**Recording.** A start and its child share a name. `Publish` is the assignment of the
slot after the await, with the look at what became of the child meanwhile; `Exits` and
`CloseEvent` are different events; `tracked` is what the exit hook signals.

**Teardown.** Several handles of one udid. The manager appears as what `Companions`
proves of it: at most one companion, none handed out on a closed udid, and one that is
lost in a read replaced once (`UseRetries`). A call that meets a closed udid is refused
with a `SimulatorNotFoundError` from the start (`UseGets`), which `FailureResolved` hands
on although simctl may still list the device, as the code does; any other failure it
resolves against simctl. `during` is history: the deletes under way when it was refused.

**Sessions.** A call captures its session, awaits the library, and changes the registry
by id afterwards, as the code does. The library appears by its results; one of them is
the "not found" of a simulator that exists and is just being deleted, by a destroy or by
the exit path (`UseRefused`, then `UseFindsNone`). `BeingDeleted` takes a udid to be closed
for as long as its delete lasts; that an attach may lift the block meanwhile is `Teardown`'s,
and then the use goes on, as `UseEnds` lets it. `overlapped`, `lost` and `excused` are
history: the ids whose calls in progress overlapped, other than uses among themselves; the
running simulators whose session was changed while they did; and the simulators that failed
to boot or to be deleted.

**Geometry / Tree / KeyMap.** The pure parts, as operators. Lengths are half points, so
that centres are whole; what the code rounds is rounded. A tree is the sequence of its
nodes in document order, each naming its parent. Texts are sequences of words, as long as
the code only compares or searches them; `KeyMap` keeps characters, because there the
conversion is the point.

**Acting.** One handle. `device` is what is really there: orientation, screen, toggles,
keyboard, finger; a node has the frame it *reports* and the place where it is *drawn*, so
that a covered element, a remote process's own coordinates, or a bar in front are states
and not assumptions. `hint` and `dims` are the handle's belief. A call is a record with
its place; it asks for dimensions, reads a tree or a point, works out what it found, and
queues in the exclusive chain to deliver an event stream, one event at a time (`Run`,
`Deliver`, `Acknowledge`, `Cut`). `tap` by a name is a lookup, a hit test at the centre
and either a touch or an activation with its reading back; `typeText` is the two gates and
the strokes; `detectOrientation` a probe per candidate. Between any two awaits another call
of the handle moves, the device is turned, its screen changes, or a read fails. What the
companion answers is fixed when it is *served* and acted on when it *arrives*. `calm`,
`sure` and `mixed` are history: nothing disturbed the call; the handle has learnt the
orientation and it still holds; a detection overlapped another call.

**IdbMessages / Wire.** `IdbMessages` lists every message: fields in the order in which
they are written, number, encoding, label, contents. All generated functions have one form,
which `Wire` states once: `Encode`, a function of the messages by how deep they nest, and
`decode` as a loop over records with a call of itself for every message inside. A record
has the number of its field, how it is encoded and what it holds; a scalar is its default
or another value, or one that no JavaScript number can hold. `OddRecord` puts what the
reader does not expect before the next record. Which messages may be sent is a constant,
`Sendable`: any that fit their types (`SendableAssumption`, which TLC evaluates for every
type of the schema). `MCWire` gives the samples of the run.

## 3. What the runs check

All bounds are constants of the cfg; TLC explores every state below them.

| Run | Shows | Bounds, and why they are enough |
|---|---|---|
| `companions` | one companion at a time (`OneCompanion`), a closed udid stays quiet, input is neither doubled nor interleaved, only its user stops a companion, every call returns, stopped companions die; and the inductive invariant `IInv`, which says that no process is lost and what is handed out is usable | four casts: two reads; two exclusive calls and a teardown; one exclusive call and two teardowns; a read, an exclusive call and a teardown. Each pair and each triple of roles that share a transition is in one cast. A cast spawns at most 2 per reader and 1 per writer, which is `MCMaxGeneration`: the bound never stops a spawn. The safety properties are proved for any cast |
| `recovery_reads` | one restart at a time that the registry knows of, unless a delete made it forget; the first boot is left alone; every read ends | 2 reads, any two of the four methods, 2 faults (a wedge, an empty tree, a reboot, a stale companion, a restart by the boot ladder), 1 cooldown that runs out, a delete at any moment, starting in the boot: two attempts, sharing, refusal and the whole ladder occur |
| `boot_ladder` | the restart is tried before giving up, nothing is left running, the overrun is bounded, the wait ends | the code's own numbers in seconds: budget 55, cap 30, settle 8, tail 12, minimum polling 8, interval 2; a read up to its 60 s deadline, timers up to 2 s late, a restart up to 5 s |
| `resolver` | nothing unverified is handed out, a failure is not cached, every call settles | 3 callers (a pending promise, its successor and a waiter of neither), 2 changes by others, every kind of override |
| `recording` | a live recorder is known to the exit hook, no corpse in the slot, the slot is lost only to its own child or to a second start, every call ends | 2 starts, 2 stops, 2 deletes: each race is of two calls and their children |
| `teardown` | "not found" of a simulator that exists is told only to a call that a delete refused which is under way or has failed; a failed delete does not shut the udid out, calls end | 2 handles, 2 uses, 2 deletes |
| `sessions` | reservations are the creations in progress, an owned simulator is lost only to overlapping calls of its id, a failed boot or a failed delete, and not to a use that the exit path's delete refuses; exit deletes what is owned, foreign simulators survive | 2 ids, 2 callers making any number of calls, 2 simulators of ours and 1 foreign, 1 outside event; ids, callers and own simulators are interchangeable and only safety is checked, so symmetry is sound; what was noted of a simulator before it went for good is left out of the view |
| `acting` | a tap by name operates its target or what is inside it, and is not refused where its centre is clear; gestures land and screenshots are upright once the orientation is known; point reads name what is on the screen; an undisturbed detection is right; texts are whole; a toggle is read back as itself; the chain is a FIFO lock, and what it runs is the one call that delivers (in `TypeOK`); every call ends; nothing is stuck (deadlock is checked) | 3 calls, 2 of them at once, 1 upset of any kind; three screens made for what can go wrong on them: a switch under a toolbar with a line that mentions its name, a sheet of another process in coordinates of its own over a secure field, and a map with elements that answer for each other, a disabled button and a switch without a frame. Two calls are what a stale belief takes, the third shows what it leads to. With a hundred points the arithmetic says no more than with twelve by twenty, and `ActingProofs` covers every size |
| `wire` | what is read is what was sent, whatever else stands between; a number that does not fit is refused wherever it stands, and nothing else is; a query by a marker never goes out at depth 0 | every message of every RPC, each field given in turn down to the innermost (one level for the message that contains itself), with at most one odd record: records are read independently of each other |

Deadlock is checked in `acting`, whose calls are all finished in the end. Elsewhere the
system may rest (calls are finite in number, a message has been read), and that a call
does not hang is stated as liveness instead.

### Disagreements between the code and what is written about it

Three runs have a property that a comment or a document of the repository states, and TLC
finds a behaviour of the code that breaks it.

* `recovery_shares`: a read that meets the wedge *while a restart is in flight* is refused
  with `SimulatorNotAnsweringError(false)`. `withAccessibilityRecovery` asks
  `shouldRecover`, whose cooldown began with the attempt, before anyone looks for the
  attempt (`sim/simulator.ts:1059`).
* `recording_replaces`: two overlapping `startRecording` calls both pass the guard, the
  second to be published replaces the first (`sim/simulator.ts:2215`).
* `teardown_respawn`: the block on respawn is one flag per udid; an attach, or another
  handle's failing delete, lifts it in the middle of a delete (`sim/lifecycle.ts:711`).

Further facts are visible in the models and have no run of their own; where a property
would state them, it excuses exactly that case by name, and without the excuse TLC finds it.

* A call that a delete refuses is told that the simulator does not exist, while simctl
  lists it (`sim/idb/companionManager.ts:179`, `sim/simulator.ts:572`). Where the delete then
  fails, this was wrong; the comments at `companionManager.ts:172-178` and
  `simulator.ts:536-545` admit it, while `mcp/sessions.ts:156-163`, which drops the session
  on that error, says that such a session "is never going to work again".
  `NotFoundIsOfADelete` says that no other call is told so; `lost` in `LostOnlyToOverlaps`
  is what a destroy and a use that overlap can so lose.
* Overlapping calls for one session id can lose a simulator: an attach checked before a
  create of the same id finished overwrites the owned session (`mcp/sessions.ts:242`,
  against the check at `:214`). `LostOnlyToOverlaps` says that nothing else does.
* An activation is addressed by a name that the companion matches as a part, so that an
  earlier element whose name contains the target's is operated instead
  (`sim/simulator.ts:1825`, against the lookup at `:1399`); `NamesAnother` in
  `NamedTapHitsItsTarget`. The hit test in front of it (`sim/ax/tap.ts:116`) is what keeps
  a *covered* target from being operated; the comments at `sim/simulator.ts:1813` and
  `sim/idb/client.ts:197` still say that activation does no hit test.
* Two overlapping detections can leave a hint that contradicts the cached dimensions
  (`sim/simulator.ts:1589`); `mixed` in `SureGesturesLand`. A probe that is covered at its
  own centre can mislead a detection (`:1656`).
* A stream that breaks leaves a key or a finger down (`sim/idb/client.ts:313`).
* A group, which no schema here has, ends a message early and silently
  (`sim/idb/generated/idb.ts:4239`).
* An override that exists but cannot be executed makes `resolve` call itself in microtasks
  for ever (`EveryCallSettles`).
* A restart that a slow read pushed to the very end of the boot budget is never followed by
  a read, although `sim/lifecycle.ts:302` says that it always has a window
  (`AttemptBeforeGivingUp` has a margin).
* The boot ladder restarts the bridge without asking the registry, possibly in the middle
  of a read's own attempt (`sim/lifecycle.ts:545`); the reads still share one attempt.
* When the host exits, the hook reaches published companions only: a spawn in flight
  outlives it (`ReapedAtExit` says that nothing else in service does).

## 4. Fairness

Weak fairness, and only of what the program or the system does by itself: promise
callbacks and timers run (Node), every RPC has a deadline (`sim/idb/client.ts`: reads 60 s,
input 120 s, connecting 10 s), a download and a trial run have a timeout, a process that
was sent SIGKILL dies and its exit event arrives. That `simctl` returns is assumed; the
code has no timeout for it. Nothing is assumed of a recorder, which may stay silent for
ever, of a companion that was only sent SIGTERM, of the guest's bridge, of other users, or
of callers, who may never call.

`Acting` states its fairness by hand: calls keep moving as long as one of them can
(`CanGoOn`), where whether one can is told by its place and, for the lock, by ENABLED. That
is weaker than fairness of every call, and cheaper than ENABLED of actions that compute on
trees. That a call at any other place can really move is what the deadlock check confirms.

## 5. What is proved

TLAPS checks every proof from nothing; the assumptions are those named `...Assumption` in
the modules (constants are numbers or disjoint sets), which TLC evaluates in the runs.

* **Companions** (`CompanionsProofs`): for any readers, writers, stoppers and number of
  spawns, `IInv` is inductive, and with it `OneCompanionAlways`, `NothingLeaks`,
  `HandedOutIsUsable`, `ClosedStaysQuiet`, `InputIsSerialised` and, as an action property,
  `LateRetirementIsHarmless`. `IInv` adds to the properties what they rest on: a
  generation not handed out yet has left no trace; what a spawn has at each stage; an exit
  that was handled closed the channel; the generation an actor uses or retires was
  published, and one being retired is not published any more; how often `fn` ran by place;
  the running exclusive call heads the queue. Without the last, for instance,
  `InputOnceAndAlone` survives no step that lets the head go. `OneCompanion` itself
  follows: two running processes would both be published or spawning (`NoOrphan`), and
  not both maps are occupied.
* **ExclusiveChain** (`ActingProofs`): `ChainInv` says that a call is chained
  behind its predecessor, or behind nothing when all earlier ones have settled, and that
  the stored tail is the last call's. From it, `ChainIsFifoLock`: the initial states and
  every step map to those of `FifoLock`, for any number of calls.
* **Recovery** (`RecoveryProofs`): for any number of reads, any of the four methods and any
  bounds, `RestartsAreShared`, `NobodyWaitsForNothing` and `FirstBootIsLeftAlone`. `IInv`
  adds that the registry's attempt is the one that is running and its caller knows its
  number, that a call which reads on after a cure joined an attempt, that every attempt
  used up a cooldown until a delete made the registry forget, and that a simulator in its
  first boot, or one that is gone, has not answered: that is why no read orders an attempt
  after a delete, although the registry would let it. The steps reduce to three: a call
  moves outside of an attempt (`MoveOK`), orders one (`OrderOK`), or settles it
  (`SettleOK`).
* **BootLadder** (`SimulatorProofs`): for *every* choice of the times, `WaitIsBounded`
  and `AttemptIsMade`, the latter for budgets that satisfy `EnoughBudget`, as the default
  does. The key conjunct is `Unearned`: a failed read that did not earn the restart had
  more than the tail left or had polled too little, and one interval later the budget
  cannot be over.
* **Recording** (`RecordingProofs`): for any number of starts, stops and deletes,
  `NoRecorderOutlivesUs`, `SlotHoldsNoCorpse` and `SlotIsLostOnlyByItsOwn`. The invariant
  ties the slot to a child whose start published it and to the exit set.
* **Teardown** (`SimulatorProofs`): for any handles, uses and deletes,
  `OnlyDeletesOverstate` (while the simulator is there, no handle is stale, no delete says
  "not found", and a companion call that says so was refused for a delete that is still
  under way or has failed) and `NobodyIsShutOut` (a closed gate has a delete behind it that
  will open it, or the simulator is gone).
* **Resolver** (`ResolverProofs`): for any callers, `OnlyVerifiedIsGiven` and
  `FailuresAreNotShared`. Promises are numbered and reused, so the proof needs that one is
  always free: a pigeonhole (`FreeIsFree`), from finiteness of the callers and the
  cardinality of intervals.
* **Geometry** (`ActingProofs`): for every size of screen and every point of it,
  `TransformInvertsDevice` (what `toPortrait` computes is what the device shows at that
  place), `TransformStaysOnScreen`, `CandidatesDisagree` (the two candidates of a
  detection are told apart by any probe off the centre), `ReconciledHintAgrees`,
  `AimedCentreStaysInside` (what is aimed at the centre of a frame a point wide and high
  lands in it, rounded as it is on the portrait screen), and `HitTestRefusesCover` (an
  element of another name that is wider or higher than the target by more than the slack on
  both edges does not pass for something inside it).
* **The exit hook** (`ExitReaps` in `CompanionsProofs`): from `NoOrphan` and
  `RegisteredIsUsable`, an exit of the host at any moment leaves no companion in service
  alive except a spawn in flight.
* **Sessions** (`SessionsProofs`): for any ids, calls and simulators, with cleanup on or off,
  `RegistryHolds`, `OnlyOverlapsLose`, `ExitLeavesNothing` and, as an action property,
  `ForeignAreSafe`. A call changes the registry by id after its await, with a session it
  captured before. What makes that harmless is `CallsAreUpToDate`: for an id whose calls
  have not overlapped, what a call captured is still what the registry holds, or a use among
  others has dropped it. `UnderOneId` keeps ids apart: a simulator of ours is captured and
  registered under one id only. With it `RefusedForExit` says that a use of a running
  simulator of ours, refused while no other call for its id overlapped, met the delete of
  the exit path, so that dropping the session loses nothing. `CreatedOnce` adds that no two
  calls are given the same new simulator, and `CleanedAreGone` what the exit has dealt with
  so far.
* **Acting** (`ActingProofs`): for any screens, trees, sizes, number of calls and upsets,
  `IInv` is inductive. From it follow `LockHolderDelivers`: what the chain runs is the
  `fn` of the one call that is delivering, so the lock is never held by a call that is over
  and no event of one stream is sent between two of another; `SureGesturesAlwaysLand`: after
  a detection that was alone has found the device, each tap and swipe lands within a point
  of where its caller sees it and each screenshot is upright, until the device turns; and
  `DeliveryIsFifo`: every step of the calls is a step of the FIFO lock, or none. The parts
  of `IInv`: the promises of the chain (`ChainIInv`); where a call may be and what it
  remembers there (`Remembers`); that tickets are one call's (`TurnsAreOwn`); that a
  detection which is alone keeps the dimensions forgotten until it is over, so that nothing
  read before it arrives after it (`DetectionsAreAlone`); that being sure means that hint
  and dimensions are the device's and no call is turning it (`SureIsRight`); and what a
  call made of its points with them, down to the events it has left (`Measured`, `Aimed`).
  The last rest on the lemmas of `Geometry`: what is rounded once comes back within a
  point. Two lemmas carry the 28 actions: a call that moves on and leaves handle and device
  alone (`QuietStep`), and all calls moving when the world does (`AllMoveOn`).
* **Toggles** (`TogglesAreReadBack` in `ActingProofs`): for an app whose identifiers each
  name one element (`IdsAreUnique`, what `simulator.ts:1825` means by exact), a toggle
  that has been activated is read back as itself or not at all, although the app may have
  come to show any other screen. Its `ReadBackInv` says that what `tap` has found is an
  element of the app's, whatever pruning and moving have made of the rest of it, and
  that one with an identifier is looked for again by that alone (`KeepsTarget`). The lemmas
  under it say that translating, pruning and matching a tree hand out its own elements:
  their recursive functions are unfolded by well-foundedness, for trees of any size.
* **Key map** (`KeyEventsTypeTheText` in `ActingProofs`): the key events of any text of
  mapped characters, of any length, type that text after what the keyboard already holds,
  and leave no key down. It rests on `KEY_MAP` giving each character a stroke that no other
  has (`StrokesAreTyped`), and on pressing two runs of events being pressing one after the
  other (`PressedJoined`).
* **Typing** (`TextsAreTypedWhole` in `ActingProofs`): as long as no stream breaks and the
  screen stays, whatever the calls of the handle do to each other, what has been typed is the
  texts of the calls that succeeded, each whole and in the order of the lock, with nothing
  left down. Its hypothesis, `SheetsAreOverFields`, is the premise that `typingBlocker`
  relies on when it asks for the sheet only while a secure field is being edited
  (`simulator.ts:1951-1981`): the strong-password sheet comes only over such a field, and
  the toggles of a screen do not bring it up. `TypingInv` has three parts besides: tickets
  of those who typed are their own and had their turn (`TypersAreOrdered`); who is past
  the gates has a text of mapped characters and no sheet over the field (`PastTheGates`);
  and the rest of the events of whoever holds the lock, pressed on the keyboard as it is,
  gives what was typed before and the whole of the text (`AtTheDevice`). The last says at
  every moment of a stream what its end will be, which is why one call's letters can be
  followed through another's arrival.

* **Wire** (`WireProofs`): whatever messages of whatever types are sent, nested to any depth,
  with any number of records in between that the reader does not know or that hold a number
  which does not fit, `ReadingGivesBackWhatWasSent` (`RoundTrip`), and `MarkerQueriesAreSearches`
  (`MarkerQueriesSearch`). `IInv` says of each call of `decode` that is in progress which
  message it is reading, that what it has read is what storing the first records of that
  message gives, and that what it has left is the other records, with such odd ones
  (`IsOdd`) in front; that the message of an inner call is the one that the outer is at; and
  that a number which does not fit and has been put in is in front of the innermost call
  (`Waits`) unless the reading has thrown. The
  argument rests on three lemmas: `Encode` is what its recursion says for messages of any
  depth (`EncodeIsRecords`); storing everything that is written of a message gives that
  message, whatever its labels leave out or collect (`AllIsStored`); and an odd record
  passes for none of the type's fields, or is a number that is refused (`OddRecordIsOdd`). It uses of a
  type that no two of its fields share a name or a number, which
  `SendableAssumption` states and TLC finds of all types of `IdbMessages`.

* **What undisturbed calls see** (`NamedTapsHitTheirTargets`, `ClearTapsGoThrough`,
  `PointFramesAreNear`, `DetectionsAreRight` in `ActingProofs`). One invariant, `SightInv`,
  says of every call that nothing has disturbed what its memory means on the screen as it
  is, for every way its toggles may be switched, since other calls switch them meanwhile
  without being a disturbance (`Alike`): a tap by name has a target that the screen gives
  for its label, behind the hit test a point where the screen shows something that the test
  lets pass, and at the lock only events at that point (`SeesTarget`); a point read that is
  to be located has a node that was read at its point (`SeesPoint`); a detection has in
  front of it probes of which none misleads and one decides, and of the first candidate
  what reading it gave (`SeesProbes`). When a call ends, that becomes what is told of it
  (`Tells`), of the screen as it was then. A step of another call leaves all of it alone
  (`StandsBySees`); upsets end the promise. Under it are lemmas on trees of any size:
  moving what another process draws keeps frames frames (`TranslatedFrames`, by the same
  unfolding as above), so do pruning and lookup (`CandidatesAreFramed`), and what is on top
  does not depend on toggles (`SameOnTop`).

  Their hypotheses say when frames and names can be believed, which the program cannot know:
  - `NamesTell`: switching a toggle moves nothing; of an element that a requested name may
    give, what its frame says of who is inside it agrees with where things are drawn, and
    its centre is read where it is drawn; and if it is a toggle, the companion makes
    the same element of its name all the time, and that is not covered unless nothing that
    the hit test would let pass is to be seen at all. The last is what the code relies on when
    it lets one hit test stand for the press by name (`sim/ax/tap.ts:116`). That the
    handle's idea of the orientation is right is not among them.
  - `PointsTell`: what is read at a point has a frame, which is near the point or which the
    tree corrects.
  - `ScreensTell`: a screen is `Unclear`, as `DetectionIsRight` excuses it, or no probe is
    named at the mirrored place without being named at its own, and one is named only at
    its own. It turns `Unclear`, which is about what is drawn, into what point reads
    answer; that the loop over probes and candidates then ends right is the theorem.

The hypotheses on toggles, typing, names, points and screens speak of the app and not of
the program. TLC finds that they hold of all the screens of `MCActing`
(`TheoremHypotheses`), so the theorems are about screens that there are: a switch under a
bar, a sheet that another process draws in coordinates of its own, and names that contain
each other are among them.

Induction over a length or an index is done in these proofs over the set of indices at
which the claim holds: were it not all of them, there would be a least one missing
(`LeastExists`, `CountingUp`, from the well-foundedness of `<`). The concatenation of a
sequence of sequences (`FlattenSeq`), which the community modules define by recursion, is
proved to be the last of its partial joins (`JoinIsFlattenSeq`) and used as that.

The assumptions on `Acting`'s constants are the code's: a tap is given at least once
(`count` is validated in `mcp/tools.ts:505`), what is asked is one of the methods with
arguments of their types, the parents of a tree come before their children, and a screen
held upright is taller than it is wide, which is how `isLandscape` reads an orientation
off a frame.

Only model-checked, and why:

* all liveness: fairness and ENABLED are beyond the prover;
* that the app is as the hypotheses on `Acting` say: where an element reports itself and
  where it is drawn may differ without limit, and what holds of the screens here does not
  hold of every tree.

## 6. Not modelled

* In the manager: the exit of the host as an action (what its hook leaves is
  `ReapedAtExit`), the socket path and the stderr tail. `shutdownAll`, which nothing calls,
  is `Shutdown` of every udid that has a published companion.
* In the recovery: what `hasAnswered` should mean across a shutdown and boot. It survives
  both (`sim/internal/registry.ts:46`), the model lets it, and the code promises nothing.
* In tap and input: how long a press is held and how far apart two taps are, and an
  activation that fails although the app has performed it (`Cut` is one that has not been
  performed). Of screenshots: `simctl`, the conversion and the encoding.
* In the client: the connection, which is gRPC's; deadlines and codes appear as the outcomes
  of calls. Of the generated code: the JSON forms, which the program does not use, and the
  client stub, which names each RPC and its two messages.
* In the server: what tools other than `start_simulator` answer, and rendering. The
  transport keeps nothing between two requests; the exit it starts is in `Sessions`.
* Errors, environment, command lines, the compatibility package, scripts, test app and
  website: no state and no interleaving.

## 7. Order of the work, and what would come next

`Companions` and its proofs, `FifoLock` and `ExclusiveChain`, `Recovery`, `Recording`,
`Teardown`, `Sessions`, `BootLadder`, `Resolver`, their proofs, `Geometry` with its proofs,
`Tree`, `KeyMap`, `Acting` over them, `IdbMessages` and `Wire`, the others of one
simulator in `Recovery`, the proofs of `Sessions` and `Acting`, those of toggles and
typing, that of `Wire`, and that of what undisturbed calls see. Next would be:

1. the gate that `Teardown` assumes of the manager, as a refinement by `Companions`;
2. two handles in `Acting`, each with a belief of its own about one device.
