--------------------------------- MODULE Acting ---------------------------------
(***************************************************************************)
(* One handle reading a screen and acting on it: the coordinate, lookup,    *)
(* orientation, tap, typing and screenshot methods of simulator.ts, with    *)
(* the event streams of idb/client.ts and the chain of exclusive calls they *)
(* are delivered under.                                                     *)
(*                                                                         *)
(* The calls of the handle interleave wherever the code awaits.  What the   *)
(* companion answers is what the device shows at that moment; the device is *)
(* turned, and its screen changed, behind the back of the handle.           *)
(***************************************************************************)
EXTENDS Tree, KeyMap, ExclusiveChain, SequencesExt, TLC

CONSTANTS
  Calls,             \* the calls made on the handle, numbered as they begin
  Requests(_, _),    \* what each call may ask for, by what the app shows
  MaxActive,         \* bound on the calls in progress at once
  Screens,           \* what the app may show
  Becomes(_),        \* what may show behind the handle's back after each of them
  Toggles,           \* the keys of the toggles
  ScreenTree(_, _),  \* its nodes in portrait, given the toggles that are on
  PortraitScreen,    \* size of the device held upright
  Declined,          \* orientations that the app does not adopt
  StartsAs,          \* orientations the device may be in at first
  MaxUpsets,         \* bound on what the handle does not expect, taken together:
                     \* rotations and changes of the screen behind its back,
                     \* failing reads and cut streams
  None

\* What may be asked of the handle; a tap is given at least once (tools.ts).
Asks ==
  [op : {"tap"}, at : Points, count : Nat \ {0}]
    \cup [op : {"swipe"}, from : Points, to : Points]
    \cup [op : {"point"}, at : Points]
    \cup [op : {"named"}, label : Seq(STRING), plain : BOOLEAN, count : Nat \ {0}]
    \cup [op : {"type"}, text : Seq(STRING)]
    \cup [op : {"button"}, held : BOOLEAN]
    \cup [op : {"rotate"}, to : Orientations]
    \cup [op : {"detect", "describe", "shot"}]

ASSUME RequestsAssumption ==
  \A screen \in Screens :
    /\ Becomes(screen) \subseteq Screens
    /\ \A c \in Calls : Requests(c, screen) \subseteq Asks

\* An element of a screen; parent is its parent's place in the tree.
Elements ==
  [key : STRING, parent : Nat, type : STRING, label : Seq(STRING), id : Seq(STRING),
   value : Seq(STRING), subrole : STRING, traits : SUBSET STRING,
   enabled : BOOLEAN, bridge : BOOLEAN, frame : Frames \cup {NoFrame}, place : Frames]

ASSUME TreesAssumption ==
  \A screen \in Screens, on \in SUBSET Toggles :
    LET tree == ScreenTree(screen, on)
    IN  /\ tree \in Seq(Elements)
        /\ \A i \in Nodes(tree) : tree[i].parent < i /\ (IsToggle(tree[i]) => tree[i].key \in Toggles)

\* A screen that is held upright is taller than it is wide.
ASSUME DeviceAssumption ==
  /\ PortraitScreen \in Sizes /\ PortraitScreen.width < PortraitScreen.height
  /\ StartsAs \subseteq Orientations /\ None \notin Sizes

VARIABLES
  device,    \* orientation, screen, toggles that are on, keyboard, what a finger presses
  hint,      \* orientationHint
  dims,      \* screenDims, or None
  call,      \* the calls
  turns, changes, faults,  \* how many of each upset there have been
  sure,      \* the handle has learnt the device's orientation, and it still holds
  mixed      \* a detection has overlapped another call

local == <<hint, dims>>
world == <<turns, changes, faults>>
vars == <<device, local, call, world, sure, mixed, chainVars>>

(***************************************************************************)
(* The device.  A node has the frame that is reported and the place where   *)
(* it is drawn; later nodes are drawn over earlier ones.                    *)
(***************************************************************************)
Transpose(f) ==
  IF f = NoFrame THEN f ELSE [x |-> f.y, y |-> f.x, width |-> f.height, height |-> f.width]

Laid(tree, orientation) ==
  IF orientation \notin Landscapes THEN tree
  ELSE [i \in Nodes(tree) |-> [tree[i] EXCEPT !.frame = Transpose(@), !.place = Transpose(@)]]

LogicalScreen(d) == PortraitSize(d.orientation, PortraitScreen)

Views == [orientation : Orientations, screen : Screens, on : SUBSET Toggles]
View(d) == [orientation |-> d.orientation, screen |-> d.screen, on |-> d.on]

\* AXBridge sees the whole hierarchy.  The default backend omits bars and what
\* another process draws, and has its own name for a switch.
BridgeTrees == [v \in Views |-> Laid(ScreenTree(v.screen, v.on), v.orientation)]
ByDefault(node) ==
  IF node.type = "Switch" THEN [node EXCEPT !.type = "CheckBox", !.subrole = "AXSwitch"]
                          ELSE node
DefaultTrees ==
  [v \in Views |->
     LET seen == InOrder({i \in Nodes(BridgeTrees[v]) : ~BridgeTrees[v][i].bridge})
     IN  [k \in DOMAIN seen |-> ByDefault(BridgeTrees[v][seen[k]])]]

\* None is none of what is read.
ASSUME NoneAssumption ==
  \A v \in Views : \A i \in Nodes(BridgeTrees[v]) : Reconciled(ByDefault(BridgeTrees[v][i])) # None

BridgeTree(d)  == BridgeTrees[View(d)]
DefaultTree(d) == DefaultTrees[View(d)]

\* What is drawn on top at a logical point: an index into BridgeTree, or 0.
TopmostAt(d, p) ==
  LET under == {i \in Nodes(BridgeTree(d)) : FrameContains(BridgeTree(d)[i].place, p)}
  IN  IF under = {} THEN 0 ELSE CHOOSE i \in under : \A j \in under : j <= i

\* The companion's point read and touch take portrait points.
ReadPointAt(d, p) == TopmostAt(d, LogicalOf(p, d.orientation, LogicalScreen(d)))

Flip(d, i) ==
  IF i # 0 /\ IsToggle(BridgeTree(d)[i])
  THEN [d EXCEPT !.on = IF BridgeTree(d)[i].key \in @ THEN @ \ {BridgeTree(d)[i].key}
                                                     ELSE @ \cup {BridgeTree(d)[i].key}]
  ELSE d

(***************************************************************************)
(* Calls.                                                                  *)
(***************************************************************************)
Idle == [pc |-> "idle"]

Init ==
  /\ device \in [orientation : StartsAs, screen : Screens, on : {{}},
                 keyboard : {NothingHeld}, finger : {None}]
  /\ hint = "auto" /\ dims = None
  /\ call = [c \in Calls |-> Idle]
  /\ turns = 0 /\ changes = 0 /\ faults = 0
  /\ sure = FALSE /\ mixed = FALSE
  /\ ChainInit

Active == {c \in Calls : call[c].pc \notin {"idle", "done"}}

Pc(c) == call[c].pc
Asked(c) == IF "request" \in DOMAIN call[c] THEN call[c].request ELSE [op |-> "none"]

\* The next await of a call, and what it remembers.
Updated(r, fields) ==
  [f \in DOMAIN r \cup DOMAIN fields |-> IF f \in DOMAIN fields THEN fields[f] ELSE r[f]]

Goes(c, pc, memory) ==
  call' = [call EXCEPT ![c] = Updated(Updated(@, memory), [pc |-> pc])]

\* A call's answer.  What the properties look at is kept of it until the next call
\* begins or ends, and then only which text was typed, and when.
Lasting == {"request", "pc", "outcome", "answer", "calm", "sure", "ticket",
            "hit", "landed", "target", "by", "dims", "orientation", "screen"}
Of(r, fields) == [f \in DOMAIN r \cap fields |-> r[f]]

Past(c) ==
  IF Pc(c) # "done" THEN call[c]
  ELSE Of(call[c], {"pc"} \cup IF Asked(c).op = "type" THEN {"request", "outcome", "ticket"} ELSE {})

Answers(c, outcome, memory) ==
  call' = [d \in Calls |->
             IF d # c THEN Past(d)
             ELSE Of(Updated(Updated(call[c], memory),
                             [pc |-> "done", outcome |-> outcome, screen |-> device.screen,
                              orientation |-> device.orientation]), Lasting)]

MayUpset == turns + changes + faults < MaxUpsets

\* Nothing but the calls moves; or a read of theirs fails, which uses up a fault.
OnlyCalls == UNCHANGED <<device, local, world, sure, mixed, chainVars>>
Fails ==
  /\ MayUpset /\ faults' = faults + 1
  /\ UNCHANGED <<device, local, turns, changes, sure, mixed, chainVars>>

FirstStep(r) ==
  CASE r.op \in {"tap", "swipe", "point"} -> "dims"
    [] r.op = "shot" -> IF hint = "auto" THEN "dims" ELSE "aim"
    [] r.op = "named" -> "byLabel"
    [] r.op = "type" -> "gate"
    [] r.op = "button" -> "queue"
    [] r.op = "rotate" -> "turn"
    [] r.op = "detect" -> "clear"
    [] r.op = "describe" -> "screen"

Turning(r) == r.op \in {"rotate", "detect"}

Begin(c) ==
  /\ Pc(c) = "idle" /\ Cardinality(Active) < MaxActive
  /\ \A d \in Calls : d < c => Pc(d) # "idle"
  /\ \E r \in Requests(c, device.screen) :
       /\ call' = [d \in Calls |->
            IF d = c THEN [request |-> r, pc |-> FirstStep(r), calm |-> TRUE,
                           sure |-> sure /\ ~Turning(r), dims |-> None]
            ELSE IF d \in Active THEN Updated(call[d], [sure |-> call[d].sure /\ ~Turning(r)])
            ELSE Past(d)]
       /\ sure' = (sure /\ ~Turning(r))
       /\ mixed' = (mixed \/ (Turning(r) /\ Active # {})
                          \/ \E d \in Active : Turning(Asked(d)))
  /\ UNCHANGED <<device, local, world, chainVars>>

(***************************************************************************)
(* Behind the handle's back.                                               *)
(***************************************************************************)
\* What a call in progress has seen of the device no longer holds.
Disturbed(c, turned) ==
  IF c \in Active
  THEN Updated(call[c], [calm |-> FALSE, sure |-> call[c].sure /\ ~turned])
  ELSE call[c]

Turn ==
  /\ MayUpset /\ turns' = turns + 1
  /\ \E to \in Orientations \ (Declined \cup {device.orientation}) :
       device' = [device EXCEPT !.orientation = to]
  /\ call' = [c \in Calls |-> Disturbed(c, TRUE)] /\ sure' = FALSE
  /\ UNCHANGED <<local, changes, faults, mixed, chainVars>>

Change ==
  /\ MayUpset /\ changes' = changes + 1
  /\ \E to \in Becomes(device.screen) : device' = [device EXCEPT !.screen = to]
  /\ call' = [c \in Calls |-> Disturbed(c, FALSE)]
  /\ UNCHANGED <<local, turns, faults, sure, mixed, chainVars>>

(***************************************************************************)
(* Coordinates: toPortrait, portraitTransform, logicalDimensions.           *)
(***************************************************************************)
NoteRootFrame(size) ==
  /\ dims' = size
  /\ hint' = ReconcileHint(hint, IsLandscape(size))

DimsFromCache(c) ==
  /\ Pc(c) = "dims" /\ dims # None
  /\ Goes(c, "aim", [dims |-> dims])
  /\ OnlyCalls

\* describeAll is asked, is answered, and its answer arrives.
AskRootFrame(c) ==
  /\ Pc(c) = "dims" /\ dims = None
  /\ Goes(c, "root", << >>)
  /\ OnlyCalls

RootFrameServed(c) ==
  /\ Pc(c) = "root"
  /\ Goes(c, "rootRead", [dims |-> LogicalScreen(device)])
  /\ OnlyCalls

\* The root has no size, or the read throws.
RootFrameFails(c) ==
  /\ Pc(c) = "root"
  /\ \/ Goes(c, "aim", [sure |-> FALSE])
     \/ Answers(c, "error", << >>)
  /\ Fails

RootFrameArrives(c) ==
  /\ Pc(c) = "rootRead"
  /\ NoteRootFrame(call[c].dims)
  /\ Goes(c, "aim", << >>)
  /\ UNCHANGED <<device, world, sure, mixed, chainVars>>

\* With no dimensions a point passes through untouched, and a screenshot is
\* turned by the hint or not at all.
Effective(size) ==
  GetEffectiveOrientation(hint, IF size = None THEN [width |-> 0, height |-> 0] ELSE size)

\* Fault: the hint is taken as it is, and automatic is portrait.
ToPortraitByHint(p, size) ==
  IF size = None THEN p ELSE TransformPointToPortrait(p, hint, size)

ToPortrait(p, size) ==
  IF size = None THEN p ELSE TransformPointToPortrait(p, Effective(size), size)

\* One transform for both ends of a swipe.
SwipeEnds(r, size) ==
  <<RoundPoint(ToPortrait(r.from, size)), RoundPoint(ToPortrait(r.to, size))>>

Aim(c) ==
  LET r    == Asked(c)
      size == call[c].dims
      by   == Effective(size)
      aims(pc, points) == Goes(c, pc, [points |-> points, by |-> by])
  IN  /\ Pc(c) = "aim"
      /\ CASE r.op = "tap"   -> aims("queue", <<ToPortrait(r.at, size)>>)
           [] r.op = "swipe" -> aims("queue", SwipeEnds(r, size))
           [] r.op = "point" -> aims("read", <<RoundPoint(ToPortrait(r.at, size))>>)
           [] r.op = "named" -> aims("hitTest",
                 <<RoundPoint(ToPortrait(CentreOfNode(call[c].target), size))>>)
           [] r.op = "shot"  -> Goes(c, "capture", [by |-> by])
      /\ OnlyCalls
(***************************************************************************)
(* Reading: describeScreen, describePoint.                                 *)
(***************************************************************************)
ReadTrees == [v \in Views |-> PruneTree(TranslateRemoteSubtrees(BridgeTrees[v]))]
ReadScreenTree == ReadTrees[View(device)]

ScreenServed(c) ==
  /\ Pc(c) = "screen"
  /\ Goes(c, "screenRead", [dims |-> LogicalScreen(device)])
  /\ OnlyCalls

LookingUp == {"byLabel", "byId", "inTree"}

\* What a tap ends with that has activated a toggle.
Activations == {"activated", "unread"}

\* What a call ends with whose read, or capture, throws: a tap of which the activation
\* has been done cannot tell what has come of it.
ThrownBy(c) ==
  IF Pc(c) = "screen" THEN "unreadable"
  ELSE IF Pc(c) \in LookingUp \cup {"readBack"} /\ "verb" \in DOMAIN call[c] THEN "unread"
  ELSE "error"

ReadFails(c) ==
  /\ Pc(c) \in {"screen", "read", "byLabel", "byId", "hitTest", "readBack", "capture"}
  /\ Answers(c, ThrownBy(c), << >>)
  /\ Fails

ScreenArrives(c) ==
  /\ Pc(c) = "screenRead"
  /\ NoteRootFrame(call[c].dims)
  /\ Answers(c, "ok", << >>)
  /\ UNCHANGED <<device, world, sure, mixed, chainVars>>

\* What a point read answers: the node there under the frame it is reported by.
AtPoint(p) ==
  LET i == ReadPointAt(device, p)
  IN  IF i = 0 THEN None ELSE Reconciled(ByDefault(BridgeTree(device)[i]))

ReadPoint(c) ==
  LET found == AtPoint(call[c].points[1])
  IN  /\ Pc(c) = "read"
      /\ IF found # None /\ HasFrame(found) /\ IsRemotelyHosted(found.frame, Asked(c).at)
         THEN Goes(c, "locate", [target |-> found])
         ELSE Answers(c, "ok", [answer |-> found])
      /\ OnlyCalls

\* The tree corrects the frame, and only the frame; a failing read leaves it.
LocatePoint(c) ==
  LET corrected == LocateInTree(ReadScreenTree, call[c].target, Asked(c).at)
      found     == call[c].target
  IN  /\ Pc(c) = "locate"
      /\ \/ /\ Answers(c, "ok", [answer |-> IF corrected = NoFrame THEN found
                                            ELSE [found EXCEPT !.frame = corrected]])
            /\ OnlyCalls
         \/ Answers(c, "ok", [answer |-> found]) /\ Fails

(***************************************************************************)
(* Lookup: findByLabel, findByIdentifier, findByMarker.                     *)
(***************************************************************************)
\* The first element whose label, or whose identifier, includes the marker.
Marked(tree, marker, key) ==
  LET hits == {i \in Nodes(tree) : Includes(tree[i][key], marker) /\ tree[i][key] # <<>>}
  IN  IF hits = {} THEN None ELSE tree[LeastOf(hits)]

\* An identifier is compared exactly, which the companion does not do.  Fault: it is not.
FindByMarkerLoosely(tree, marker, key) ==
  LET found == Marked(tree, marker, key)
  IN  IF found = None THEN None ELSE Reconciled(found)

FindByMarker(tree, marker, key) ==
  LET found == Marked(tree, marker, key)
  IN  IF found = None \/ (key = "id" /\ found.id # marker) THEN None
      ELSE Reconciled(found)

\* tap() decides what to do with the element that was found.
Operate(c, element) ==
  LET verb == DecideTapVerb(element, Asked(c).plain)
      seen == [target |-> element, verb |-> verb]
  IN  CASE verb \in {"element-disabled", "toggle-needs-plain-tap"} -> Answers(c, verb, seen)
        [] verb \in {"touch", "activation"} ->
             IF HasCentre(element) THEN Goes(c, "dims", seen)
             ELSE IF verb = "activation" THEN Goes(c, "queue", seen)
             ELSE Answers(c, "element-unusable-frame", seen)

\* A lookup by label ends: it was tap()'s own, or activateToggle()'s reading back.
Found(c, element) ==
  IF "verb" \in DOMAIN call[c] THEN Answers(c, "activated", [answer |-> element])
  ELSE IF element = None THEN Answers(c, "element-not-found", << >>)
  ELSE Operate(c, element)

FindByLabel(c) ==
  LET found == FindByMarker(DefaultTree(device), Asked(c).label, "label")
  IN  /\ Pc(c) = "byLabel"
      /\ IF found = None THEN Goes(c, "byId", << >>) ELSE Found(c, found)
      /\ OnlyCalls

FindById(c) ==
  LET found == FindByMarker(DefaultTree(device), Asked(c).label, "id")
  IN  /\ Pc(c) = "byId"
      /\ IF found = None THEN Goes(c, "inTree", << >>) ELSE Found(c, found)
      /\ OnlyCalls

\* The tree is the best effort: where it cannot be read, nothing was found.
FindInTree(c) ==
  LET i == MatchInTree(ReadScreenTree, Asked(c).label)
  IN  /\ Pc(c) = "inTree"
      /\ \/ Found(c, IF i = 0 THEN None ELSE ReadScreenTree[i]) /\ OnlyCalls
         \/ Found(c, None) /\ Fails

(***************************************************************************)
(* Tapping what was found.                                                 *)
(***************************************************************************)
\* Fault: whatever there is at the point will do.
HitTestAnything(c) ==
  /\ Pc(c) = "hitTest"
  /\ IF AtPoint(call[c].points[1]) # None THEN Goes(c, "queue", << >>)
     ELSE Answers(c, "tap-obstructed", << >>)
  /\ OnlyCalls

HitTest(c) ==
  LET found == AtPoint(call[c].points[1])
  IN  /\ Pc(c) = "hitTest"
      /\ IF found # None /\ HitTestReaches(call[c].target, found)
         THEN Goes(c, "queue", << >>)
         ELSE Answers(c, "tap-obstructed", << >>)
      /\ OnlyCalls

Activating(c) == "verb" \in DOMAIN call[c] /\ call[c].verb = "activation"

\* The element that the companion makes of the name it is given.
Resolved(d, target, query) ==
  IF target.id # <<>> THEN Marked(DefaultTree(d), target.id, "id")
  ELSE Marked(DefaultTree(d), IF target.label # <<>> THEN target.label ELSE query, "label")

\* AXPress on that element, which operates what is on top of its centre, as was
\* measured (ax/tap.ts:116-122); or the answer that there is no such element, and
\* the tap falls back to a touch, if it has a point for one.
Activate(c) ==
  LET target == call[c].target
      found  == Resolved(device, target, Asked(c).label)
      i      == TopmostAt(device, CentreOf(found.place))
  IN  /\ Pc(c) = "run" /\ Activating(c)
      /\ FnSettles(call[c].ticket)
      /\ IF found = None
         THEN /\ status'[call[c].ticket] = "err" /\ UNCHANGED device
              /\ IF HasCentre(target) THEN Goes(c, "queue", [verb |-> "touch"])
                 ELSE Answers(c, "element-unusable-frame", << >>)
         ELSE /\ status'[call[c].ticket] = "ok"
              /\ device' = Flip(device, i)
              /\ Goes(c, IF target.id # <<>> THEN "readBack" ELSE "byLabel",
                      [hit |-> <<BridgeTree(device)[i]>>])
      /\ UNCHANGED <<local, world, sure, mixed>>

ReadBack(c) ==
  /\ Pc(c) = "readBack"
  /\ Answers(c, "activated",
             [answer |-> FindByMarker(DefaultTree(device), call[c].target.id, "id")])
  /\ OnlyCalls
(***************************************************************************)
(* Typing: typeText and its two gates, which let a failing read pass.       *)
(***************************************************************************)
RefuseText(c) ==
  /\ Pc(c) = "gate" /\ UnmappedCharacters(Asked(c).text) # {}
  /\ Answers(c, "untypeable-text", << >>)
  /\ OnlyCalls

SecureFieldGate(c) ==
  /\ Pc(c) = "gate" /\ UnmappedCharacters(Asked(c).text) = {}
  /\ \/ /\ Goes(c, IF EditingSecureField(DefaultTree(device)) THEN "sheet" ELSE "queue", << >>)
        /\ OnlyCalls
     \/ Goes(c, "queue", << >>) /\ Fails

StrongPasswordSheetId == <<"strong-password-sheet">>

PasswordSheetGate(c) ==
  /\ Pc(c) = "sheet"
  /\ \/ /\ IF FindByMarker(BridgeTree(device), StrongPasswordSheetId, "id") = None
           THEN Goes(c, "queue", << >>)
           ELSE Answers(c, "typing-blocked", << >>)
        /\ OnlyCalls
     \/ Goes(c, "queue", << >>) /\ Fails

(***************************************************************************)
(* Delivery: sendTouch, and the streams of client.tap, swipe, typeText and  *)
(* pressButton, one event at a time under the lock.                         *)
(***************************************************************************)
Touch(p, direction) == [kind |-> "touch", at |-> p, direction |-> direction]
Button(direction)   == [kind |-> "button", direction |-> direction]
Delay               == [kind |-> "delay"]

\* A tap is held at least for as long as a control takes to notice it, and given as
\* often as was asked for; a button is held only if that is asked for.
TapEvents(p, count) ==
  [k \in 1 .. 3 * count |-> CASE k % 3 = 1 -> Touch(p, "down")
                             [] k % 3 = 2 -> Delay
                             [] k % 3 = 0 -> Touch(p, "up")]
ButtonEvents(held) == <<Button("down")>> \o (IF held THEN <<Delay>> ELSE <<>>) \o <<Button("up")>>

Events(c) ==
  CASE Asked(c).op \in {"tap", "named"} -> TapEvents(call[c].points[1], Asked(c).count)
    [] Asked(c).op = "swipe" ->
         <<[kind |-> "swipe", from |-> call[c].points[1], to |-> call[c].points[2]]>>
    [] Asked(c).op = "type" -> KeyEvents(Asked(c).text)
    [] Asked(c).op = "button" -> ButtonEvents(Asked(c).held)

\* A key goes to the sheet when there is one, which swallows it.  A toggle in a
\* bar is its own control; the frame of any other is not where it is switched.
Swallows(d) == FindByMarker(BridgeTree(d), StrongPasswordSheetId, "id") # None

Take(d, event) ==
  CASE event.kind = "key" ->
         IF Swallows(d) THEN d ELSE [d EXCEPT !.keyboard = Press(@, event)]
    [] event.kind = "touch" /\ event.direction = "down" -> [d EXCEPT !.finger = event.at]
    [] event.kind = "touch" /\ event.direction = "up" ->
         LET i == ReadPointAt(d, event.at)
         IN  [(IF i # 0 /\ BridgeTree(d)[i].bridge THEN Flip(d, i) ELSE d)
                EXCEPT !.finger = None]
    [] event.kind = "button" ->
         [d EXCEPT !.finger = IF event.direction = "down" THEN "button" ELSE None]
    [] OTHER -> d

\* Where on the logical screen the points of an event are, and on what.
Logical(p) == LogicalOf(p, device.orientation, LogicalScreen(device))
Lands(event) ==
  CASE event.kind = "touch" ->
         LET i == ReadPointAt(device, event.at)
         IN  [landed |-> <<Logical(event.at)>>,
              hit |-> IF i = 0 THEN <<>> ELSE <<BridgeTree(device)[i]>>]
    [] event.kind = "swipe" -> [landed |-> <<Logical(event.from), Logical(event.to)>>]
    [] OTHER -> << >>

Queue(c) ==
  /\ Pc(c) = "queue"
  /\ Exclusively
  /\ Goes(c, "wait", [ticket |-> arrived + 1])
  /\ UNCHANGED <<device, local, world, sure, mixed>>

Run(c) ==
  /\ Pc(c) = "wait"
  /\ StartFn(call[c].ticket)
  /\ Goes(c, "run", IF Activating(c) THEN << >> ELSE [events |-> Events(c)])
  /\ UNCHANGED <<device, local, world, sure, mixed>>

Deliver(c) ==
  /\ Pc(c) = "run" /\ ~Activating(c) /\ call[c].events # <<>>
  /\ device' = Take(device, Head(call[c].events))
  /\ Goes(c, "run", Updated(Lands(Head(call[c].events)), [events |-> Tail(call[c].events)]))
  /\ UNCHANGED <<local, world, sure, mixed, chainVars>>

Acknowledge(c) ==
  /\ Pc(c) = "run" /\ ~Activating(c) /\ call[c].events = <<>>
  /\ FnSettles(call[c].ticket) /\ status'[call[c].ticket] = "ok"
  /\ Answers(c, "ok", << >>)
  /\ UNCHANGED <<device, local, world, sure, mixed>>

\* Fault: a stream that breaks leaves the lock locked.
CutHoldingTheLock(c) ==
  /\ Pc(c) = "run" /\ (~Activating(c) => call[c].events # <<>>)
  /\ MayUpset /\ faults' = faults + 1
  /\ Answers(c, "error", << >>)
  /\ UNCHANGED <<device, local, turns, changes, sure, mixed, chainVars>>

\* The stream breaks: the rest of the events is lost.
Cut(c) ==
  /\ Pc(c) = "run" /\ (~Activating(c) => call[c].events # <<>>)
  /\ MayUpset /\ faults' = faults + 1
  /\ FnSettles(call[c].ticket) /\ status'[call[c].ticket] = "err"
  /\ Answers(c, "error", << >>)
  /\ UNCHANGED <<device, local, turns, changes, sure, mixed>>

ForgetTail(t) ==
  DropTail(t) /\ UNCHANGED <<device, local, call, world, sure, mixed>>

(***************************************************************************)
(* Orientation: rotate, detectOrientation, probeOrientation.                *)
(***************************************************************************)
Rotate(c) ==
  LET to == Asked(c).to
  IN  /\ Pc(c) = "turn"
      /\ device' = IF to \in Declined THEN device ELSE [device EXCEPT !.orientation = to]
      /\ call' = [d \in Calls |-> IF d = c THEN Updated(call[c], [pc |-> "clear"])
                                  ELSE Disturbed(d, TRUE)]
      /\ UNCHANGED <<local, world, sure, mixed, chainVars>>

\* The companion does not take the event.
RotateFails(c) == Pc(c) = "turn" /\ Answers(c, "error", << >>) /\ Fails

ClearDims(c) ==
  /\ Pc(c) = "clear"
  /\ dims' = None
  /\ Goes(c, "probeTree", << >>)
  /\ UNCHANGED <<device, hint, world, sure, mixed, chainVars>>

Detects(c, orientation) == Goes(c, "detected", [answer |-> orientation])

\* The labels of the screen that name one element, and where its centre is.
Probes(tree, size) ==
  LET found == InOrder(UniquelyLabelled(tree, CollectProbeCandidates(tree, size)))
  IN  [k \in DOMAIN found |->
         [label |-> tree[found[k]].label, at |-> CentreOfNode(tree[found[k]])]]

NoProbe == [tried |-> 0, matches |-> {}]

ProbeTree(c) ==
  LET size   == LogicalScreen(device)
      probes == Probes(DefaultTree(device), size)
  IN  /\ Pc(c) = "probeTree"
      /\ \/ /\ IF probes = <<>> THEN Detects(c, CandidateOrientations(IsLandscape(size))[1])
               ELSE Goes(c, "probe", Updated(NoProbe, [dims |-> size, probes |-> probes]))
            /\ OnlyCalls
         \/ Detects(c, "portrait") /\ Fails

\* Fault: an element that settled nothing is tried once more.
TriedAgain(c, matches) ==
  LET both == CandidateOrientations(IsLandscape(call[c].dims))
  IN  IF call[c].tried = 0 THEN Goes(c, "probe", [tried |-> 1, matches |-> matches])
      ELSE IF Cardinality(matches) = 1 THEN Detects(c, CHOOSE o \in matches : TRUE)
      ELSE Goes(c, "probe", NoProbe)

\* One point is read for each candidate; exactly one match is the answer, and
\* otherwise the next element is tried.
Tried(c, matches) ==
  LET rest == Tail(call[c].probes)
      both == CandidateOrientations(IsLandscape(call[c].dims))
  IN  IF call[c].tried = 0 THEN Goes(c, "probe", [tried |-> 1, matches |-> matches])
      ELSE IF Cardinality(matches) = 1 THEN Detects(c, CHOOSE o \in matches : TRUE)
      ELSE IF rest = <<>> THEN Detects(c, both[1])
      ELSE Goes(c, "probe", Updated(NoProbe, [probes |-> rest]))

\* Fault: a point is transformed by what the handle believes, not by the candidate.
ProbeByHint(c) ==
  LET probe     == Head(call[c].probes)
      size      == call[c].dims
      candidate == CandidateOrientations(IsLandscape(size))[call[c].tried + 1]
      found     == AtPoint(RoundPoint(ToPortrait(probe.at, size)))
  IN  /\ Pc(c) = "probe"
      /\ \/ /\ Tried(c, IF found # None /\ found.label = probe.label
                       THEN call[c].matches \cup {candidate} ELSE call[c].matches)
            /\ OnlyCalls
         \/ Tried(c, call[c].matches) /\ Fails

Probe(c) ==
  LET probe     == Head(call[c].probes)
      size      == call[c].dims
      candidate == CandidateOrientations(IsLandscape(size))[call[c].tried + 1]
      found     == AtPoint(RoundPoint(TransformPointToPortrait(probe.at, candidate, size)))
  IN  /\ Pc(c) = "probe"
      /\ \/ /\ Tried(c, IF found # None /\ found.label = probe.label
                       THEN call[c].matches \cup {candidate} ELSE call[c].matches)
            /\ OnlyCalls
         \/ Tried(c, call[c].matches) /\ Fails

NoteDetected(c) ==
  /\ Pc(c) = "detected"
  /\ hint' = call[c].answer
  /\ Answers(c, "ok", << >>)
  /\ sure' = (Active = {c} /\ ~mixed /\ call[c].answer = device.orientation)
  /\ UNCHANGED <<device, dims, world, mixed, chainVars>>

(***************************************************************************)
(* Screenshots: simctl captures in portrait, and the image is turned by the *)
(* orientation that was decided before.                                     *)
(***************************************************************************)
Capture(c) == Pc(c) = "capture" /\ Answers(c, "ok", << >>) /\ OnlyCalls
--------------------------------------------------------------------------------
\* What runs to the end of its own accord: every RPC has a deadline.
Reading(c) ==
  \/ DimsFromCache(c) \/ AskRootFrame(c) \/ RootFrameServed(c) \/ RootFrameArrives(c)
  \/ Aim(c) \/ ScreenServed(c) \/ ScreenArrives(c) \/ ReadPoint(c) \/ LocatePoint(c)
  \/ FindByLabel(c) \/ FindById(c) \/ FindInTree(c) \/ HitTest(c) \/ ReadBack(c)
  \/ RefuseText(c) \/ SecureFieldGate(c) \/ PasswordSheetGate(c) \/ Capture(c)

Turns(c) ==
  Rotate(c) \/ ClearDims(c) \/ ProbeTree(c) \/ Probe(c) \/ NoteDetected(c)

Delivery(c) == Queue(c) \/ Run(c) \/ Activate(c) \/ Deliver(c) \/ Acknowledge(c)

Failure(c) == RootFrameFails(c) \/ ReadFails(c) \/ RotateFails(c) \/ Cut(c)

AllDone == (\A c \in Calls : Pc(c) = "done") /\ UNCHANGED vars

Next ==
  \/ \E c \in Calls : Begin(c) \/ Reading(c) \/ Turns(c) \/ Delivery(c) \/ Failure(c)
  \/ \E t \in Tickets : ForgetTail(t)
  \/ Turn \/ Change
  \/ AllDone

Spec == Init /\ [][Next]_vars

\* Whether a call has something to do next is told by where it is, except for its
\* turn at the lock; calls keep moving as long as one of them has.
CanGoOn(c) ==
  /\ c \in Active
  /\ Pc(c) = "queue" => ENABLED Exclusively
  /\ Pc(c) = "wait"  => ENABLED StartFn(call[c].ticket)

Fairness ==
  /\ []<>(\A c \in Calls : ~CanGoOn(c)) \/ []<><<TRUE>>_call
  /\ \A t \in Tickets : WF_vars(ForgetTail(t))

FairSpec == Spec /\ Fairness

--------------------------------------------------------------------------------
\* The shape of the state; and the fn that the chain is running is that of the one
\* call which is delivering, so that nobody holds the lock who will not let go of it,
\* and nobody's events come between another's.
TypeOK ==
  /\ device.orientation \in Orientations /\ device.screen \in Screens
  /\ hint \in Hints /\ dims \in Sizes \cup {None}
  /\ sure \in BOOLEAN /\ mixed \in BOOLEAN
  /\ \A t \in Tickets : status[t] = "running" =>
       \E c \in Calls : Pc(c) = "run" /\ call[c].ticket = t
  /\ \A c, d \in Calls : Pc(c) = "run" /\ Pc(d) = "run" => c = d

Done(c, op) == Pc(c) = "done" /\ Asked(c).op = op

\* The device as a finished call found it, when nothing disturbed it meanwhile.
Seen(c) == [device EXCEPT !.orientation = call[c].orientation, !.screen = call[c].screen]

\* The handle worked with the orientation and the screen that the device had.
Oriented(c) == call[c].dims = LogicalScreen(Seen(c)) /\ call[c].by = call[c].orientation

Inside(node, target) ==
  SameName(node, target) \/ Encloses(target.place, node.place)

\* A tap by name that nothing disturbed has operated the element it was aimed at
\* or something inside it, never what covers the element: tap()'s hit test, in
\* front of the touch and of the activation, whatever the handle believes of the
\* orientation.
Hits(c) == \A k \in DOMAIN call[c].hit : Inside(call[c].hit[k], call[c].target)

Operated(c) == Done(c, "named") /\ call[c].calm /\ "hit" \in DOMAIN call[c]

\* An earlier element whose name contains the target's is not the target.
NamesAnother(c) ==
  Resolved(Seen(c), call[c].target, Asked(c).label).key # call[c].target.key

NamedTapHitsItsTarget ==
  \A c \in Calls :
    Operated(c) => Hits(c) \/ (call[c].outcome \in Activations /\ NamesAnother(c))

\* A tap by name is not refused either where the centre of the element is its own:
\* the hit test reads the point that it means.
ClearTapsAreNotRefused ==
  \A c \in Calls :
    Done(c, "named") /\ call[c].calm /\ call[c].outcome = "tap-obstructed" =>
      \/ ~Oriented(c)
      \/ LET i == TopmostAt(Seen(c), CentreOf(call[c].target.place))
         IN  i = 0 \/ ~Inside(BridgeTree(Seen(c))[i], call[c].target)

\* Within a point: coordinates are rounded on their way.
Close(p, q) == p.x - q.x \in -1 .. 1 /\ p.y - q.y \in -1 .. 1

LandsWhereMeant(c) ==
  /\ Asked(c).op = "tap" /\ call[c].outcome = "ok" =>
       Close(call[c].landed[1], Asked(c).at)
  /\ Asked(c).op = "swipe" /\ call[c].outcome = "ok" =>
       Close(call[c].landed[1], Asked(c).from) /\ Close(call[c].landed[2], Asked(c).to)
  /\ Asked(c).op = "shot" /\ call[c].outcome = "ok" => call[c].by = call[c].orientation

\* Once a detection has found the device's orientation, every gesture lands where
\* its caller sees it, and every screenshot is upright, until the device is turned
\* again: no read in between loses what the probe has paid for, and no dimension
\* of before the rotation survives it.
SureGesturesLand ==
  \A c \in Calls :
    Pc(c) = "done" /\ Asked(c).op # "type" /\ "sure" \in DOMAIN call[c] /\ call[c].sure =>
      LandsWhereMeant(c)

\* What describePoint answers has a frame on the screen and near the point, also
\* when another process draws it in coordinates of its own.
PointFramesAreOnScreen ==
  \A c \in Calls :
    Done(c, "point") /\ call[c].calm /\ call[c].outcome = "ok" /\ call[c].answer # None
    /\ Oriented(c) /\ faults = 0 =>
      DistanceOutsideFrame(call[c].answer.frame, Asked(c).at) <= HitSlop

\* A detection that nothing disturbs is right, unless an element of the screen is
\* covered at its own centre and so answers elsewhere, or no element tells the two
\* candidates apart, each naming what is drawn at the mirror image of its centre too.
Mirrored(p, size) == At(size.width - p.x, size.height - p.y)

IsNamedAt(d, p, label) ==
  LET i == TopmostAt(d, p) IN i # 0 /\ BridgeTree(d)[i].label = label

Unclear(d) ==
  LET probes == Probes(DefaultTree(d), LogicalScreen(d))
  IN  \/ \E k \in DOMAIN probes : ~IsNamedAt(d, probes[k].at, probes[k].label)
      \/ \A k \in DOMAIN probes :
            IsNamedAt(d, Mirrored(probes[k].at, LogicalScreen(d)), probes[k].label)

DetectionIsRight ==
  \A c \in Calls :
    Pc(c) = "done" /\ Turning(Asked(c)) /\ call[c].calm /\ faults = 0 =>
      call[c].answer = call[c].orientation \/ Unclear(Seen(c))

\* What has been typed, by the calls that are done and in the order of the lock.
Typed(c) == Pc(c) = "done" /\ Asked(c).op = "type" /\ "ticket" \in DOMAIN call[c]

TypedAt(t) ==
  IF \E c \in Calls : Typed(c) /\ call[c].ticket = t
  THEN Asked(CHOOSE c \in Calls : Typed(c) /\ call[c].ticket = t).text
  ELSE <<>>

TypedSoFar == FlattenSeq([t \in 1 .. arrived |-> TypedAt(t)])

\* As long as no stream breaks and the screen stays, the text that has been typed
\* is the texts of the calls that succeeded, whole and in the order of the lock,
\* and neither a key, the glass nor a button is left down: a sheet that would swallow the text
\* is seen before.
TextsAreWhole ==
  faults = 0 /\ changes = 0 /\ (\A c \in Calls : Pc(c) # "run") =>
    device.keyboard = [held |-> {}, typed |-> TypedSoFar] /\ device.finger = None

\* A toggle with an identifier is read back as itself or not at all, whatever else
\* on the screen mentions its name.
ReadsBackItsToggle ==
  \A c \in Calls :
    Done(c, "named") /\ call[c].outcome = "activated" /\ call[c].target.id # <<>> =>
      call[c].answer = None \/ call[c].answer.key = call[c].target.key

\* Every call ends, whatever fails and whoever else acts.
EveryActEnds == []<>(Active = {})

--------------------------------------------------------------------------------
(***************************************************************************)
(* The inductive strengthening of the lock's promise and of                 *)
(* SureGesturesLand.                                                        *)
(***************************************************************************)
\* Where a call may be, by what was asked for.
Aiming == {"dims", "root", "rootRead", "aim"}
Delivering == {"queue", "wait", "run"}
Detecting == {"clear", "probeTree", "probe", "detected"}

Places(op) ==
  CASE op \in {"tap", "swipe"} -> Aiming \cup Delivering
    [] op = "point"    -> Aiming \cup {"read", "locate"}
    [] op = "shot"     -> Aiming \cup {"capture"}
    [] op = "named"    -> Aiming \cup Delivering
                            \cup {"byLabel", "byId", "inTree", "hitTest", "readBack"}
    [] op = "type"     -> Delivering \cup {"gate", "sheet"}
    [] op = "button"   -> Delivering
    [] op = "rotate"   -> Detecting \cup {"turn"}
    [] op = "detect"   -> Detecting
    [] op = "describe" -> {"screen", "screenRead"}

\* What a call in progress remembers: its request, which tells where it may be, and
\* from the queue on its ticket.
Remembers(c) ==
  c \in Active =>
    /\ {"request", "pc", "calm", "sure", "dims"} \subseteq DOMAIN call[c]
    /\ call[c].request \in Asks /\ Pc(c) \in Places(call[c].request.op)
    /\ call[c].sure \in BOOLEAN
    /\ call[c].request.op # "named" => "verb" \notin DOMAIN call[c]
    /\ Pc(c) \in {"wait", "run"} =>
         "ticket" \in DOMAIN call[c] /\ call[c].ticket \in Tickets
    /\ Pc(c) \in {"rootRead", "screenRead"} => call[c].dims \in Sizes
    /\ Pc(c) = "probe" =>
         /\ {"tried", "matches"} \subseteq DOMAIN call[c]
         /\ call[c].tried \in {0, 1} /\ call[c].matches \subseteq Orientations
    /\ Pc(c) = "detected" => "answer" \in DOMAIN call[c] /\ call[c].answer \in Orientations

\* A call that is at the lock has a ticket of its own, which is as far as the call.
TurnsAreOwn ==
  \A c \in Active : Pc(c) \in {"wait", "run"} =>
    /\ status[call[c].ticket] = IF Pc(c) = "wait" THEN "waiting" ELSE "running"
    /\ \A d \in Active \ {c} :
         Pc(d) \in {"wait", "run"} => call[d].ticket # call[c].ticket

\* Calls that turn the device are told from the others as long as none overlap: then
\* the dimensions stay forgotten until a detection is over, and nothing that was read
\* before it arrives after it.
DetectionsAreAlone ==
  ~mixed =>
    \A c \in Active : Turning(Asked(c)) =>
      /\ Active = {c}
      /\ Pc(c) \in Detecting \ {"clear"} => dims = None

\* Being sure: the hint is the device's orientation, no dimensions but the screen's
\* are remembered, and no call is turning the device.
SureIsRight ==
  /\ sure => /\ hint = device.orientation
             /\ dims \in {None, LogicalScreen(device)}
             /\ \A c \in Active : ~Turning(Asked(c))
  /\ \A c \in Active : call[c].sure => sure

\* What a call has read of the screen's size, since the handle is sure.
Measured(c) ==
  c \in Active /\ sure =>
    /\ Pc(c) \in {"rootRead", "screenRead"} => call[c].dims = LogicalScreen(device)
    /\ Asked(c).op # "named" =>
         /\ Pc(c) \in {"dims", "root"} => call[c].dims = None
         /\ Pc(c) = "aim" => /\ call[c].dims \in {None, LogicalScreen(device)}
                             /\ call[c].sure /\ Asked(c).op # "shot" => call[c].dims # None

\* What a call that is sure has made of its points, and where they have landed.
Portrait(p) == TransformPointToPortrait(p, device.orientation, LogicalScreen(device))

AimedTap(c) ==
  Asked(c).op = "tap" =>
    /\ Pc(c) \in Delivering =>
         "points" \in DOMAIN call[c] /\ call[c].points = <<Portrait(Asked(c).at)>>
    /\ Pc(c) = "run" =>
         /\ "events" \in DOMAIN call[c]
         /\ call[c].events \in Seq([kind : {"touch"}, at : {call[c].points[1]},
                                    direction : {"down", "up"}] \cup {Delay})
         /\ \/ call[c].events # <<>> /\ Head(call[c].events).kind = "touch"
            \/ "landed" \in DOMAIN call[c] /\ Close(call[c].landed[1], Asked(c).at)

AimedSwipe(c) ==
  Asked(c).op = "swipe" =>
    /\ Pc(c) \in Delivering =>
         /\ "points" \in DOMAIN call[c]
         /\ call[c].points =
              <<RoundPoint(Portrait(Asked(c).from)), RoundPoint(Portrait(Asked(c).to))>>
    /\ Pc(c) = "run" => "events" \in DOMAIN call[c] /\
         \/ call[c].events =
               <<[kind |-> "swipe", from |-> call[c].points[1], to |-> call[c].points[2]]>>
         \/ /\ call[c].events = <<>> /\ "landed" \in DOMAIN call[c]
            /\ Close(call[c].landed[1], Asked(c).from)
            /\ Close(call[c].landed[2], Asked(c).to)

Aimed(c) ==
  c \in Active /\ call[c].sure =>
    /\ AimedTap(c) /\ AimedSwipe(c)
    /\ Pc(c) = "capture" => "by" \in DOMAIN call[c] /\ call[c].by = device.orientation

IInv ==
  /\ ChainIInv /\ TypeOK
  /\ DOMAIN call = Calls /\ \A c \in Calls : "pc" \in DOMAIN call[c]
  /\ {"orientation", "screen"} \subseteq DOMAIN device
  /\ TurnsAreOwn /\ DetectionsAreAlone /\ SureIsRight
  /\ \A c \in Calls : Remembers(c) /\ Measured(c) /\ Aimed(c)
  /\ SureGesturesLand

(***************************************************************************)
(* The inductive strengthening of ReadsBackItsToggle, for an app whose      *)
(* identifiers each name one element.                                       *)
(***************************************************************************)
Shown ==
  UNION {UNION {{ScreenTree(screen, on)[i] : i \in Nodes(ScreenTree(screen, on))} :
                  on \in SUBSET Toggles} : screen \in Screens}

IdsAreUnique == \A a, b \in Shown : a.id # <<>> /\ a.id = b.id => a.key = b.key

\* It is an element of the app's, whatever has been made of the rest of it.
IsShown(element) == \E a \in Shown : a.id = element.id /\ a.key = element.key

DeviceOK ==
  /\ {"orientation", "screen", "on", "keyboard", "finger"} \subseteq DOMAIN device
  /\ device.on \subseteq Toggles

\* What tap() has found it keeps, and it looks for it again by its identifier.
KeepsTarget(c) ==
  c \in Active =>
    /\ "verb" \in DOMAIN call[c] => "target" \in DOMAIN call[c] /\ IsShown(call[c].target)
    /\ Pc(c) \in {"byLabel", "byId", "inTree"} /\ "verb" \in DOMAIN call[c] =>
         call[c].target.id = <<>>
    /\ Pc(c) = "readBack" => "verb" \in DOMAIN call[c]

ReadBackInv == DeviceOK /\ (\A c \in Calls : KeepsTarget(c)) /\ ReadsBackItsToggle

(***************************************************************************)
(* The inductive strengthening of TextsAreWhole, for a sheet that comes only *)
(* over a secure field that is being edited, whichever toggles are on.      *)
(***************************************************************************)
HasSheet(v) == FindByMarker(BridgeTrees[v], StrongPasswordSheetId, "id") # None

SheetsAreOverFields ==
  \A v, w \in Views : v.screen = w.screen /\ HasSheet(v) =>
    HasSheet(w) /\ EditingSecureField(DefaultTrees[w])

\* The tickets of those who have typed are their own, and had their turn.
TypersAreOrdered ==
  /\ \A c \in Active : Asked(c).op = "type" /\ Pc(c) \notin {"wait", "run"} =>
       "ticket" \notin DOMAIN call[c]
  /\ \A c \in Calls : Typed(c) =>
       /\ Asked(c).text \in Seq(STRING)
       /\ call[c].ticket \in Tickets /\ status[call[c].ticket] \in Settled
       /\ \A d \in Calls : Typed(d) /\ call[d].ticket = call[c].ticket => d = c

\* A call that has come past the gates can type its text, and no sheet swallows it.
PastTheGates(c) ==
  c \in Active /\ Asked(c).op = "type" =>
    /\ Pc(c) \in Delivering \cup {"sheet"} => UnmappedCharacters(Asked(c).text) = {}
    /\ Pc(c) \in Delivering => ~Swallows(device)

\* What the rest of its events make of the keyboard, and of the glass and the buttons.
Pressed(keyboard, events) ==
  LET after[i \in 0 .. Len(events)] ==
        IF i = 0 THEN keyboard ELSE Press(after[i - 1], events[i])
  IN  after[Len(events)]

Lifts(event)     == event.kind \in {"touch", "button"} /\ event.direction = "up"
HandsOff(events) == \A i \in DOMAIN events : events[i].kind \notin {"touch", "button"}

LeavesNothingDown(events) ==
  \/ device.finger = None /\ HandsOff(events)
  \/ events # <<>> /\ Lifts(events[Len(events)])

WholeSoFar == [held |-> {}, typed |-> TypedSoFar]

AtTheDevice(c) ==
  Pc(c) = "run" =>
    IF Activating(c) THEN device.keyboard = WholeSoFar /\ device.finger = None
    ELSE /\ "events" \in DOMAIN call[c] /\ call[c].events \in Seq(Range(call[c].events))
         /\ LeavesNothingDown(call[c].events)
         /\ IF Asked(c).op = "type"
            THEN /\ \A i \in DOMAIN call[c].events : call[c].events[i].kind = "key"
                 /\ Pressed(device.keyboard, call[c].events)
                      = [held |-> {}, typed |-> TypedSoFar \o Asked(c).text]
            ELSE /\ \A i \in DOMAIN call[c].events : call[c].events[i].kind # "key"
                 /\ device.keyboard = WholeSoFar

TypingInv ==
  /\ DeviceOK /\ changes \in Nat /\ faults \in Nat
  /\ TypersAreOrdered
  /\ faults = 0 /\ changes = 0 => \A c \in Calls : PastTheGates(c) /\ AtTheDevice(c)
  /\ TextsAreWhole

(***************************************************************************)
(* The inductive strengthening of what is said of undisturbed calls.  Of    *)
(* the app it takes that what they see does not depend on which toggles are *)
(* on, and that frames and names tell what is inside of what.  A call is    *)
(* looked at as the record r that it is, on a screen held so.               *)
(***************************************************************************)
Alike(orientation, screen) ==
  {[orientation |-> orientation, screen |-> screen, on |-> on] : on \in SUBSET Toggles}

\* What tap() may take for the element of a name.
Candidates(v, label) ==
  LET i == MatchInTree(ReadTrees[v], label)
  IN  {FindByMarker(DefaultTrees[v], label, "label"), FindByMarker(DefaultTrees[v], label, "id"),
       IF i = 0 THEN None ELSE ReadTrees[v][i]} \ {None}

\* Where a point is read that is meant at p on a device held so.
ReadAt(p, orientation) ==
  RoundPoint(TransformPointToPortrait(p, orientation, PortraitSize(orientation, PortraitScreen)))

\* What a frame says of where the target is and of what is inside of it, is so.
TestTells(target, v, w) ==
  /\ \A i \in Nodes(BridgeTrees[v]) :
       HitTestReaches(target, BridgeTrees[v][i]) <=> Inside(BridgeTrees[w][i], target)
  /\ ReadPointAt(v, ReadAt(CentreOfNode(target), v.orientation))
       = TopmostAt(v, CentreOf(target.place))

\* A name means the same element to the companion all the time; and if that is the
\* target, it is on top at its own centre, or nowhere to be seen.
PointsOf(f) == {At(x, y) : x \in f.x .. f.x + f.width, y \in f.y .. f.y + f.height}

IsSeen(v, i) == \E p \in PointsOf(BridgeTrees[v][i].place) : TopmostAt(v, p) = i

PressTells(target, label, alike) ==
  LET Made(v) == Resolved(v, target, label)
  IN  /\ \A v, w \in alike : Made(v) # None => Made(w) # None /\ Made(w).key = Made(v).key
      /\ \/ HasCentre(target) /\ \A v \in alike : \A i \in Nodes(BridgeTrees[v]) :
              HitTestReaches(target, BridgeTrees[v][i]) => ~IsSeen(v, i)
         \/ \A v \in alike : Made(v) # None /\ Made(v).key = target.key =>
              Inside(BridgeTrees[v][TopmostAt(v, CentreOf(Made(v).place))], target)

NothingMoves(alike) ==
  \A v, w \in alike :
    /\ Nodes(BridgeTrees[v]) = Nodes(BridgeTrees[w])
    /\ \A i \in Nodes(BridgeTrees[v]) : BridgeTrees[v][i].place = BridgeTrees[w][i].place

NameTells(label, alike) ==
  \A target \in UNION {Candidates(v, label) : v \in alike} :
    /\ HasCentre(target) => \A v, w \in alike : TestTells(target, v, w)
    /\ IsToggle(target) => PressTells(target, label, alike)

NamesTell ==
  \A orientation \in Orientations, screen \in Screens :
    LET alike == Alike(orientation, screen)
    IN  /\ NothingMoves(alike)
        /\ \A c \in Calls : \A r \in Requests(c, screen) :
             r.op = "named" => NameTells(r.label, alike)

\* What is read at a point says that it is there, or the tree does.
PointsTell ==
  \A orientation \in Orientations, screen \in Screens, c \in Calls :
    \A r \in Requests(c, screen) : r.op = "point" =>
      \A v, w \in Alike(orientation, screen) :
        LET i     == ReadPointAt(v, ReadAt(r.at, orientation))
            found == Reconciled(ByDefault(BridgeTrees[v][i]))
        IN  i # 0 =>
              /\ HasFrame(found)
              /\ \/ DistanceOutsideFrame(found.frame, r.at) <= HitSlop
                 \/ /\ ~HasNoSize(found.frame)
                    /\ LocateInTree(ReadTrees[w], found, r.at) # NoFrame

\* A probe that is named where the other candidate looks for it is also named where it
\* is; and there is one that is named only where it is.
Opposite ==
  [portrait |-> "upside_down", upside_down |-> "portrait",
   landscape_right |-> "landscape_left", landscape_left |-> "landscape_right"]

ReadsAs(v, probe, candidate) ==
  LET p == RoundPoint(TransformPointToPortrait(probe.at, candidate, LogicalScreen(v)))
      i == ReadPointAt(v, p)
  IN  i # 0 /\ BridgeTrees[v][i].label = probe.label

IsFair(probe, alike) ==
  \A v, w \in alike :
    ReadsAs(v, probe, Opposite[v.orientation]) => ReadsAs(w, probe, w.orientation)

IsTelling(probe, alike) ==
  \A v \in alike :
    ReadsAs(v, probe, v.orientation) /\ ~ReadsAs(v, probe, Opposite[v.orientation])

Decisive(probes, alike) ==
  /\ \A k \in DOMAIN probes : IsFair(probes[k], alike)
  /\ \E k \in DOMAIN probes : IsTelling(probes[k], alike)

IsDecisive(alike) ==
  \A v \in alike : Decisive(Probes(DefaultTrees[v], LogicalScreen(v)), alike)

ScreensTell ==
  \A orientation \in Orientations, screen \in Screens :
    LET alike == Alike(orientation, screen)
    IN  (\A v \in alike : Unclear(v)) \/ IsDecisive(alike)

\* What an undisturbed call remembers of the screen is so.
MeantAt(p, r) ==
  RoundPoint(IF r.dims = None THEN p ELSE TransformPointToPortrait(p, r.by, r.dims))

Reached(r, alike) ==
  /\ "points" \in DOMAIN r /\ r.points[1] \in Points
  /\ \E v \in alike :
       LET i == ReadPointAt(v, r.points[1])
       IN  i # 0 /\ HitTestReaches(r.target, BridgeTrees[v][i])

HitsIn(r) == \A k \in DOMAIN r.hit : Inside(r.hit[k], r.target)

MisnamedIn(r, alike) ==
  \A v \in alike : Resolved(v, r.target, r.request.label).key # r.target.key

SeesTarget(r, alike) ==
  /\ r.dims \in Sizes \cup {None}
  /\ "verb" \in DOMAIN r =>
       /\ "target" \in DOMAIN r
       /\ \E v \in alike : r.target \in Candidates(v, r.request.label)
       /\ r.verb = "activation" => IsToggle(r.target)
  /\ r.pc \in Aiming \cup Delivering \cup {"hitTest", "readBack"} => "verb" \in DOMAIN r
  /\ r.pc \in Aiming \cup {"hitTest"} => HasCentre(r.target)
  /\ r.pc = "hitTest" =>
       /\ {"points", "by"} \subseteq DOMAIN r /\ r.by \in Orientations
       /\ r.points = <<MeantAt(CentreOfNode(r.target), r)>>
  /\ r.pc \in Delivering =>
       (r.verb = "activation" \/ HasCentre(r.target)) /\ (HasCentre(r.target) => Reached(r, alike))
  /\ r.pc = "run" /\ r.verb # "activation" =>
       /\ "events" \in DOMAIN r
       /\ r.events \in Seq([kind : {"touch"}, at : {r.points[1]}, direction : {"down", "up"}]
                             \cup {Delay})
  /\ "hit" \in DOMAIN r =>
       /\ "verb" \in DOMAIN r
       /\ HitsIn(r) \/ (r.pc \in LookingUp \cup {"readBack"} /\ MisnamedIn(r, alike))

SeesPoint(r, alike) ==
  /\ r.pc \in {"read", "locate"} =>
       {"points", "by"} \subseteq DOMAIN r /\ r.points = <<MeantAt(r.request.at, r)>>
  /\ r.pc = "locate" =>
       /\ "target" \in DOMAIN r
       /\ HasFrame(r.target) /\ IsRemotelyHosted(r.target.frame, r.request.at)
       /\ \E v \in alike :
            LET i == ReadPointAt(v, r.points[1])
            IN  i # 0 /\ r.target = Reconciled(ByDefault(BridgeTrees[v][i]))

SeesProbes(r, alike) ==
  /\ r.pc = "probe" =>
       /\ {"tried", "matches", "probes"} \subseteq DOMAIN r
       /\ \A v \in alike : r.dims = LogicalScreen(v)
       /\ r.probes \in Seq(Range(r.probes)) /\ Decisive(r.probes, alike)
       /\ \E v \in alike :
            LET first == CandidateOrientations(IsLandscape(r.dims))[1]
            IN  r.matches = IF r.tried = 1 /\ ReadsAs(v, r.probes[1], first) THEN {first} ELSE {}
  /\ r.pc = "detected" => \A v \in alike : r.answer = v.orientation

Sees(c) ==
  c \in Active /\ call[c].calm =>
    LET alike == Alike(device.orientation, device.screen)
    IN  /\ Asked(c) \in Requests(c, device.screen)
        /\ NamesTell /\ Asked(c).op = "named" => SeesTarget(call[c], alike)
        /\ Asked(c).op = "point" => SeesPoint(call[c], alike)
        /\ Turning(Asked(c)) /\ faults = 0 /\ IsDecisive(alike) => SeesProbes(call[c], alike)

\* What such a call has done and said was so, and still would be with other toggles on.
OrientedIn(r) ==
  r.dims = PortraitSize(r.orientation, PortraitScreen) /\ r.by = r.orientation

TellsTarget(r, alike) ==
  /\ "hit" \in DOMAIN r => HitsIn(r) \/ (r.outcome \in Activations /\ MisnamedIn(r, alike))
  /\ r.outcome = "tap-obstructed" /\ OrientedIn(r) => \A v \in alike :
       LET i == TopmostAt(v, CentreOf(r.target.place))
       IN  i = 0 \/ ~Inside(BridgeTrees[v][i], r.target)

TellsPoint(r) ==
  r.outcome = "ok" /\ r.answer # None /\ OrientedIn(r) =>
    DistanceOutsideFrame(r.answer.frame, r.request.at) <= HitSlop

Tells(c) ==
  Pc(c) = "done" /\ Asked(c).op \notin {"none", "type"} /\ call[c].calm =>
    LET alike == Alike(call[c].orientation, call[c].screen)
    IN  /\ call[c].orientation \in Orientations /\ call[c].screen \in Screens
        /\ NamesTell /\ Asked(c).op = "named" => TellsTarget(call[c], alike)
        /\ PointsTell /\ Asked(c).op = "point" /\ faults = 0 => TellsPoint(call[c])
        /\ Turning(Asked(c)) /\ faults = 0 /\ IsDecisive(alike) =>
             call[c].answer = call[c].orientation

SightInv == DeviceOK /\ faults \in Nat /\ \A c \in Calls : Sees(c) /\ Tells(c)
================================================================================
