----------------------------- MODULE ActingProofs -----------------------------
(***************************************************************************)
(* What a handle promises of its acting, for every device, screen, number   *)
(* of calls and request: the coordinate rules, the lock made of promises,   *)
(* that gestures land where a detection has once found the device, that a   *)
(* toggle is read back as itself, that texts are typed whole, and that what *)
(* undisturbed calls do and say of the screen is so.                        *)
(***************************************************************************)
EXTENDS Acting, FiniteSetTheorems, SequenceTheorems, WellFoundedInduction, TLAPS

(***************************************************************************)
(* The coordinate rules, for screens of any size.                           *)
(***************************************************************************)
\* transformPointToPortrait undoes what the device does: a touch sent for a
\* logical point lands on that point, in every orientation.
THEOREM TransformInvertsDevice ==
    ASSUME NEW p \in Points, NEW o \in Orientations, NEW size \in Sizes
    PROVE  LogicalOf(TransformPointToPortrait(p, o, size), o, size) = p
<1>1. p = At(p.x, p.y) /\ p.x \in Int /\ p.y \in Int
  BY DEF Points, At
<1>2. size.width \in Int /\ size.height \in Int
  BY DEF Sizes
<1>3. CASE o = "portrait"
  BY <1>3 DEF LogicalOf, TransformPointToPortrait
<1>4. CASE o = "landscape_right"
  BY <1>1, <1>2, <1>4 DEF LogicalOf, TransformPointToPortrait, At
<1>5. CASE o = "landscape_left"
  BY <1>1, <1>2, <1>5 DEF LogicalOf, TransformPointToPortrait, At
<1>6. CASE o = "upside_down"
  BY <1>1, <1>2, <1>6 DEF LogicalOf, TransformPointToPortrait, At
<1> QED BY <1>3, <1>4, <1>5, <1>6 DEF Orientations

\* A point of the screen is sent as a point of the portrait screen: no
\* orientation aims a touch off the device.
THEOREM TransformStaysOnScreen ==
    ASSUME NEW p \in Points, NEW o \in Orientations, NEW size \in Sizes,
           OnScreen(p, size)
    PROVE  OnScreen(TransformPointToPortrait(p, o, size), PortraitSize(o, size))
<1>1. p = At(p.x, p.y) /\ p.x \in Int /\ p.y \in Int
  BY DEF Points, At
<1>2. size.width \in Nat /\ size.height \in Nat
  BY DEF Sizes
<1>3. 0 <= p.x /\ p.x <= size.width /\ 0 <= p.y /\ p.y <= size.height
  BY <1>1, <1>2 DEF OnScreen
<1>4. CASE o = "portrait"
  BY <1>4 DEF OnScreen, TransformPointToPortrait, PortraitSize, Landscapes
<1>5. CASE o = "landscape_right"
  BY <1>1, <1>2, <1>3, <1>5
     DEF OnScreen, TransformPointToPortrait, PortraitSize, Landscapes, At
<1>6. CASE o = "landscape_left"
  BY <1>1, <1>2, <1>3, <1>6
     DEF OnScreen, TransformPointToPortrait, PortraitSize, Landscapes, At
<1>7. CASE o = "upside_down"
  BY <1>1, <1>2, <1>3, <1>7
     DEF OnScreen, TransformPointToPortrait, PortraitSize, Landscapes, At
<1> QED BY <1>4, <1>5, <1>6, <1>7 DEF Orientations

\* The two candidates of an aspect send a logical point to two points that are
\* each other's reflections, and to the same point only at the centre of the
\* screen: a probe that is not in the centre does tell them apart.
THEOREM CandidatesDisagree ==
    ASSUME NEW p \in Points, NEW size \in Sizes, NEW landscape \in BOOLEAN,
           TransformPointToPortrait(p, CandidateOrientations(landscape)[1], size)
             = TransformPointToPortrait(p, CandidateOrientations(landscape)[2], size)
    PROVE  2 * p.x = size.width /\ 2 * p.y = size.height
<1>1. p = At(p.x, p.y) /\ p.x \in Int /\ p.y \in Int
  BY DEF Points, At
<1>2. size.width \in Nat /\ size.height \in Nat
  BY DEF Sizes
<1>3. CASE landscape
  <2>1. At(p.y, size.width - p.x) = At(size.height - p.y, p.x)
    BY <1>3 DEF TransformPointToPortrait, CandidateOrientations
  <2>2. /\ At(p.y, size.width - p.x).x = p.y
        /\ At(p.y, size.width - p.x).y = size.width - p.x
        /\ At(size.height - p.y, p.x).x = size.height - p.y
        /\ At(size.height - p.y, p.x).y = p.x
    BY DEF At
  <2>3. p.y = size.height - p.y /\ size.width - p.x = p.x
    BY <2>1, <2>2
  <2> QED BY <2>3, <1>1, <1>2
<1>4. CASE ~landscape
  <2>1. p = At(size.width - p.x, size.height - p.y)
    BY <1>4 DEF TransformPointToPortrait, CandidateOrientations
  <2>2. /\ At(size.width - p.x, size.height - p.y).x = size.width - p.x
        /\ At(size.width - p.x, size.height - p.y).y = size.height - p.y
    BY DEF At
  <2>3. p.x = size.width - p.x /\ p.y = size.height - p.y
    BY <2>1, <2>2
  <2> QED BY <2>3, <1>1, <1>2
<1> QED BY <1>3, <1>4

\* After a root frame was noted, the orientation that touches are transformed
\* by has the aspect of that frame, and a hint it agrees with has survived,
\* chirality included.
THEOREM ReconciledHintAgrees ==
    ASSUME NEW old \in Hints, NEW size \in Sizes
    PROVE  LET kept == ReconcileHint(old, IsLandscape(size))
           IN  /\ kept \in Hints
               /\ GetEffectiveOrientation(kept, size) \in Landscapes <=> IsLandscape(size)
               /\ GetEffectiveOrientation(kept, size) \in Orientations
               /\ old # "auto" /\ (old \in Landscapes <=> IsLandscape(size)) => kept = old
<1> DEFINE kept == ReconcileHint(old, IsLandscape(size))
           used == GetEffectiveOrientation(kept, size)
<1>1. CASE IsLandscape(size)
  <2>1. kept = IF old = "auto" \/ old \in Landscapes THEN old ELSE "auto"
    BY <1>1 DEF ReconcileHint
  <2>2. used = IF kept # "auto" THEN kept ELSE "landscape_right"
    BY <1>1 DEF GetEffectiveOrientation
  <2>3. kept \in Hints /\ used \in Landscapes /\ used \in Orientations
    BY <2>1, <2>2 DEF Hints, Landscapes, Orientations
  <2>4. old # "auto" /\ old \in Landscapes => kept = old
    BY <2>1
  <2> QED BY <1>1, <2>3, <2>4
<1>2. CASE ~IsLandscape(size)
  <2>1. kept = IF old = "auto" \/ old \notin Landscapes THEN old ELSE "auto"
    BY <1>2 DEF ReconcileHint
  <2>2. used = IF kept # "auto" THEN kept ELSE "portrait"
    BY <1>2 DEF GetEffectiveOrientation
  <2>3. kept \in Hints /\ used \notin Landscapes /\ used \in Orientations
    BY <2>1, <2>2 DEF Hints, Landscapes, Orientations
  <2>4. old # "auto" /\ old \notin Landscapes => kept = old
    BY <2>1
  <2> QED BY <1>2, <2>3, <2>4
<1> QED BY <1>1, <1>2

\* What hides a target is not taken for it: when another element, bigger than the
\* target by more than the slack in either dimension, is what a point read finds,
\* the hit test does not say that the target is reached.
THEOREM HitTestRefusesCover ==
    ASSUME NEW target, NEW cover, HasFrame(target), HasFrame(cover),
           target.frame \in Frames, cover.frame \in Frames, ~SameName(target, cover),
           \/ cover.frame.width > target.frame.width + 4
           \/ cover.frame.height > target.frame.height + 4
    PROVE  ~HitTestReaches(target, cover)
<1>1. ~Encloses(target.frame, cover.frame)
  <2>1. CASE cover.frame.width > target.frame.width + 4
    BY <2>1 DEF Frames, Encloses
  <2>2. CASE cover.frame.height > target.frame.height + 4
    BY <2>2 DEF Frames, Encloses
  <2> QED
    BY <2>1, <2>2
<1> QED
  BY <1>1 DEF HitTestReaches

--------------------------------------------------------------------------------
(***************************************************************************)
(* The promise chain implements the FIFO lock, for any number of calls.     *)
(***************************************************************************)
LEMMA ChainInitIInv == ChainInit => ChainIInv
  BY MaxCallsAssumption DEF Tickets, NoTicket, Settled, ChainInit, ChainIInv, ChainTypeOK, ChainInv

LEMMA ChainStepIInv == ChainIInv /\ [ChainNext]_chainVars => ChainIInv'
<1> SUFFICES ASSUME ChainIInv, [ChainNext]_chainVars PROVE ChainIInv'
  OBVIOUS
<1> USE MaxCallsAssumption DEF Tickets, NoTicket, Settled, ChainIInv, ChainTypeOK, ChainInv
<1>1. ASSUME Exclusively PROVE ChainIInv'
  <2> USE <1>1 DEF Exclusively
  <2>1. ChainTypeOK'
    OBVIOUS
  <2>2. ASSUME NEW t \in Tickets, t # arrived + 1
        PROVE  status'[t] = status[t] /\ previous'[t] = previous[t]
    BY <2>2
  <2>3. status'[arrived + 1] = "waiting" /\ previous'[arrived + 1] = tail
    OBVIOUS
  <2>4. ChainInv'
    BY <2>2, <2>3
  <2> QED
    BY <2>1, <2>4
<1>2. ASSUME NEW t \in Tickets, StartFn(t) PROVE ChainIInv'
  BY <1>2 DEF StartFn, TailResolved
<1>3. ASSUME NEW t \in Tickets, FnSettles(t) PROVE ChainIInv'
  BY <1>3 DEF FnSettles
<1>4. ASSUME NEW t \in Tickets, DropTail(t) PROVE ChainIInv'
  BY <1>4 DEF DropTail
<1>5. ASSUME UNCHANGED chainVars PROVE ChainIInv'
  BY <1>5 DEF chainVars
<1> QED
  BY <1>1, <1>2, <1>3, <1>4, <1>5 DEF ChainNext

\* The stored tail and the links between calls keep the calls in one line.
THEOREM ChainStaysInLine == ChainSpec => []ChainIInv
  BY ChainInitIInv, ChainStepIInv, PTL DEF ChainSpec

\* Every step of the chain is a step of the FIFO lock, or none.
LEMMA ChainStepRefines == ChainIInv /\ [ChainNext]_chainVars => [Lock!Next]_(Lock!vars)
<1> SUFFICES ASSUME ChainIInv, [ChainNext]_chainVars PROVE [Lock!Next]_(Lock!vars)
  OBVIOUS
<1> USE MaxCallsAssumption DEF Tickets, NoTicket, Settled, ChainIInv, ChainTypeOK, Lock!Next, Lock!vars, Lock!Tickets, Lock!Settled
<1>1. ASSUME Exclusively PROVE Lock!Arrive
  BY <1>1 DEF Exclusively, Lock!Arrive
<1>2. ASSUME NEW t \in Tickets, StartFn(t) PROVE Lock!Run(t)
  <2>1. \A u \in Tickets : u < t => status[u] \in Settled
    BY <1>2 DEF StartFn, TailResolved, ChainInv
  <2> QED
    BY <1>2, <2>1 DEF StartFn, Lock!Run
<1>3. ASSUME NEW t \in Tickets, FnSettles(t) PROVE Lock!Settle(t)
  BY <1>3 DEF FnSettles, Lock!Settle
<1>4. ASSUME NEW t \in Tickets, DropTail(t) PROVE UNCHANGED Lock!vars
  BY <1>4 DEF DropTail
<1>5. ASSUME UNCHANGED chainVars PROVE UNCHANGED Lock!vars
  BY <1>5 DEF chainVars
<1> QED
  BY <1>1, <1>2, <1>3, <1>4, <1>5 DEF ChainNext

THEOREM ChainIsFifoLock == ChainSpec => ImplementsFifoLock
<1>1. ChainInit => Lock!Init
  BY DEF Tickets, ChainInit, Lock!Init, Lock!Tickets
<1> QED
  BY <1>1, ChainStepRefines, ChainStaysInLine, PTL
     DEF ChainSpec, ImplementsFifoLock, Lock!Spec

--------------------------------------------------------------------------------
(***************************************************************************)
(* How a call's memory changes.                                             *)
(***************************************************************************)
LEMMA UpdatedIs ==
  ASSUME NEW r, NEW fields
  PROVE  /\ DOMAIN Updated(r, fields) = DOMAIN r \cup DOMAIN fields
         /\ \A f \in DOMAIN fields : Updated(r, fields)[f] = fields[f]
         /\ \A f \in DOMAIN r \ DOMAIN fields : Updated(r, fields)[f] = r[f]
  BY DEF Updated

\* No other call is touched, but that one that is done may be forgotten.
Moved(c) ==
  /\ DOMAIN call' = Calls /\ \A d \in Calls : "pc" \in DOMAIN call'[d]
  /\ \A d \in Calls \ {c} :
       \/ call'[d] = call[d]
       \/ Pc(d) = "done" /\ Pc(d)' = "done" /\ "sure" \notin DOMAIN call'[d]

LEMMA GoesTo ==
  ASSUME NEW c \in Calls, DOMAIN call = Calls, \A d \in Calls : "pc" \in DOMAIN call[d],
         NEW pc, NEW memory, Goes(c, pc, memory)
  PROVE  /\ Moved(c) /\ Pc(c)' = pc
         /\ \A d \in Calls \ {c} : call'[d] = call[d]
         /\ DOMAIN call'[c] = DOMAIN call[c] \cup {"pc"} \cup DOMAIN memory
         /\ \A f \in DOMAIN memory \ {"pc"} : call'[c][f] = memory[f]
         /\ \A f \in DOMAIN call[c] \ (DOMAIN memory \cup {"pc"}) : call'[c][f] = call[c][f]
<1> DEFINE told == Updated(call[c], memory)
           end  == [pc |-> pc]
           new  == Updated(told, end)
<1>1. call' = [call EXCEPT ![c] = new]
  BY DEF Goes
<1>2. /\ call'[c] = new /\ DOMAIN call' = Calls
      /\ \A d \in Calls \ {c} : call'[d] = call[d]
  BY <1>1
<1>3. DOMAIN end = {"pc"} /\ end["pc"] = pc
  OBVIOUS
<1>4. /\ DOMAIN new = DOMAIN told \cup DOMAIN end
      /\ \A f \in DOMAIN end : new[f] = end[f]
      /\ \A f \in DOMAIN told \ DOMAIN end : new[f] = told[f]
  BY UpdatedIs
<1>5. /\ DOMAIN told = DOMAIN call[c] \cup DOMAIN memory
      /\ \A f \in DOMAIN memory : told[f] = memory[f]
      /\ \A f \in DOMAIN call[c] \ DOMAIN memory : told[f] = call[c][f]
  BY UpdatedIs
<1> HIDE DEF told, end, new
<1>6. /\ DOMAIN call'[c] = DOMAIN call[c] \cup {"pc"} \cup DOMAIN memory
      /\ \A f \in DOMAIN memory \ {"pc"} : call'[c][f] = memory[f]
      /\ \A f \in DOMAIN call[c] \ (DOMAIN memory \cup {"pc"}) : call'[c][f] = call[c][f]
  BY <1>2, <1>3, <1>4, <1>5
<1>7. Pc(c)' = pc
  BY <1>2, <1>3, <1>4 DEF Pc
<1>8. Moved(c)
  BY <1>2, <1>6 DEF Moved
<1> QED
  BY <1>2, <1>6, <1>7, <1>8

LEMMA OfIs ==
  ASSUME NEW r, NEW fields
  PROVE  /\ DOMAIN Of(r, fields) = DOMAIN r \cap fields
         /\ \A f \in DOMAIN r \cap fields : Of(r, fields)[f] = r[f]
  BY DEF Of

\* A call that is done is forgotten, but for its end.
LEMMA PastIs ==
  ASSUME NEW d \in Calls, "pc" \in DOMAIN call[d]
  PROVE  /\ "pc" \in DOMAIN Past(d) /\ Past(d)["pc"] = call[d]["pc"]
         /\ Past(d) # call[d] => Pc(d) = "done" /\ "sure" \notin DOMAIN Past(d)
<1>1. CASE Pc(d) # "done"
  <2>1. Past(d) = call[d]
    BY <1>1 DEF Past
  <2> QED
    BY <2>1
<1>2. CASE Pc(d) = "done"
  <2> DEFINE kept == {"pc"} \cup IF Asked(d).op = "type" THEN {"request", "outcome", "ticket"} ELSE {}
  <2>1. Past(d) = Of(call[d], kept)
    BY <1>2 DEF Past
  <2>2. "pc" \in kept /\ "sure" \notin kept
    OBVIOUS
  <2> HIDE DEF kept
  <2>3. /\ DOMAIN Of(call[d], kept) = DOMAIN call[d] \cap kept
        /\ \A f \in DOMAIN call[d] \cap kept : Of(call[d], kept)[f] = call[d][f]
    BY OfIs
  <2> QED
    BY <1>2, <2>1, <2>2, <2>3
<1> QED
  BY <1>1, <1>2

LEMMA AnswersWith ==
  ASSUME NEW c \in Calls, DOMAIN call = Calls, \A d \in Calls : "pc" \in DOMAIN call[d],
         NEW outcome, NEW memory, Answers(c, outcome, memory)
  PROVE  /\ Moved(c) /\ Pc(c)' = "done"
         /\ call'[c].outcome = outcome /\ call'[c].orientation = device.orientation
         /\ DOMAIN call'[c] =
              (DOMAIN call[c] \cup DOMAIN memory \cup {"pc", "outcome", "screen", "orientation"})
                \cap Lasting
         /\ \A f \in (DOMAIN call[c] \cap Lasting)
                       \ (DOMAIN memory \cup {"pc", "outcome", "screen", "orientation"}) :
              call'[c][f] = call[c][f]
<1> DEFINE told == Updated(call[c], memory)
           end  == [pc |-> "done", outcome |-> outcome, screen |-> device.screen,
                    orientation |-> device.orientation]
           new  == Of(Updated(told, end), Lasting)
<1>1. call' = [d \in Calls |-> IF d # c THEN Past(d) ELSE new]
  BY DEF Answers
<1>2. call'[c] = new /\ DOMAIN call' = Calls /\ \A d \in Calls \ {c} : call'[d] = Past(d)
  BY <1>1
<1>3. DOMAIN end = {"pc", "outcome", "screen", "orientation"}
      /\ end["pc"] = "done" /\ end["outcome"] = outcome
      /\ end["orientation"] = device.orientation
  OBVIOUS
<1>4. /\ DOMAIN told = DOMAIN call[c] \cup DOMAIN memory
      /\ \A f \in DOMAIN call[c] \ DOMAIN memory : told[f] = call[c][f]
  BY UpdatedIs
<1>5. /\ DOMAIN Updated(told, end) = DOMAIN told \cup DOMAIN end
      /\ \A f \in DOMAIN end : Updated(told, end)[f] = end[f]
      /\ \A f \in DOMAIN told \ DOMAIN end : Updated(told, end)[f] = told[f]
  BY UpdatedIs
<1>6. /\ DOMAIN new = DOMAIN Updated(told, end) \cap Lasting
      /\ \A f \in DOMAIN Updated(told, end) \cap Lasting : new[f] = Updated(told, end)[f]
  BY OfIs
<1>7. {"pc", "outcome", "screen", "orientation"} \subseteq Lasting
  BY DEF Lasting
<1>8. ASSUME NEW d \in Calls \ {c}
      PROVE  /\ "pc" \in DOMAIN call'[d]
             /\ \/ call'[d] = call[d]
                \/ Pc(d) = "done" /\ Pc(d)' = "done" /\ "sure" \notin DOMAIN call'[d]
  BY <1>2, PastIs DEF Pc
<1> HIDE DEF told, end, new
<1>9. /\ call'[c]["pc"] = "done" /\ call'[c]["outcome"] = outcome
      /\ call'[c]["orientation"] = device.orientation
  BY <1>2, <1>3, <1>5, <1>6, <1>7
<1>10. /\ DOMAIN call'[c] =
           (DOMAIN call[c] \cup DOMAIN memory \cup {"pc", "outcome", "screen", "orientation"})
             \cap Lasting
       /\ \A f \in (DOMAIN call[c] \cap Lasting)
                     \ (DOMAIN memory \cup {"pc", "outcome", "screen", "orientation"}) :
            call'[c][f] = call[c][f]
  BY <1>2, <1>3, <1>4, <1>5, <1>6
<1>11. Moved(c)
  BY <1>2, <1>7, <1>8, <1>10 DEF Moved
<1> QED
  BY <1>9, <1>10, <1>11 DEF Pc

--------------------------------------------------------------------------------
(***************************************************************************)
(* The device and what is asked of it.                                      *)
(***************************************************************************)
Ops == {"tap", "swipe", "point", "named", "type", "button", "rotate", "detect", "describe", "shot"}

LEMMA AskedFor ==
  ASSUME NEW r \in Asks
  PROVE  /\ r.op \in Ops
         /\ r.op = "tap" => r.at \in Points /\ r.count \in Nat \ {0}
         /\ r.op = "swipe" => r.from \in Points /\ r.to \in Points
         /\ r.op = "rotate" => r.to \in Orientations
  BY DEF Asks, Ops

LEMMA ScreenSize ==
  ASSUME device.orientation \in Orientations
  PROVE  /\ LogicalScreen(device) \in Sizes /\ LogicalScreen(device) # None
         /\ IsLandscape(LogicalScreen(device)) <=> device.orientation \in Landscapes
<1>1. PortraitScreen.width \in Nat /\ PortraitScreen.height \in Nat
  BY DeviceAssumption DEF Sizes
<1>2. CASE device.orientation \in Landscapes
  <2>1. LogicalScreen(device) = [width |-> PortraitScreen.height, height |-> PortraitScreen.width]
    BY <1>2 DEF LogicalScreen, PortraitSize
  <2> QED
    BY <1>1, <1>2, <2>1, DeviceAssumption DEF Sizes, IsLandscape
<1>3. CASE device.orientation \notin Landscapes
  <2>1. LogicalScreen(device) = PortraitScreen
    BY <1>3 DEF LogicalScreen, PortraitSize
  <2> QED
    BY <1>1, <1>3, <2>1, DeviceAssumption DEF IsLandscape
<1> QED
  BY <1>2, <1>3

\* A frame of the screen as it is leaves a hint alone that is right.
LEMMA RightHintSurvives ==
  ASSUME device.orientation \in Orientations, hint = device.orientation
  PROVE  ReconcileHint(hint, IsLandscape(LogicalScreen(device))) = hint
  BY ScreenSize DEF ReconcileHint

LEMMA EffectiveIsRight ==
  ASSUME device.orientation \in Orientations, hint = device.orientation, NEW size
  PROVE  Effective(size) = device.orientation
  BY DEF Effective, GetEffectiveOrientation, Orientations

\* A whole point is at most half a point away.
LEMMA RoundingIsClose ==
  ASSUME NEW p \in Points
  PROVE  RoundPoint(p) \in Points /\ Close(RoundPoint(p), p)
  BY DEF Points, RoundPoint, Close, At

LEMMA PortraitIsPoint ==
  ASSUME NEW p \in Points, NEW o \in Orientations, NEW size \in Sizes
  PROVE  TransformPointToPortrait(p, o, size) \in Points
  BY DEF Points, Sizes, Orientations, TransformPointToPortrait, At

\* The device moves points, and never apart.
LEMMA DeviceKeepsClose ==
  ASSUME NEW p \in Points, NEW q \in Points, NEW o \in Orientations, NEW size \in Sizes,
         Close(p, q)
  PROVE  Close(LogicalOf(p, o, size), LogicalOf(q, o, size))
<1>1. /\ p.x \in Int /\ p.y \in Int /\ q.x \in Int /\ q.y \in Int
      /\ size.width \in Nat /\ size.height \in Nat
  BY DEF Points, Sizes
<1>2. p.x - q.x \in -1 .. 1 /\ p.y - q.y \in -1 .. 1
  BY DEF Close
<1>3. CASE o = "portrait"
  BY <1>3 DEF LogicalOf
<1>4. CASE o = "landscape_right"
  BY <1>1, <1>2, <1>4 DEF LogicalOf, Close, At
<1>5. CASE o = "landscape_left"
  BY <1>1, <1>2, <1>5 DEF LogicalOf, Close, At
<1>6. CASE o = "upside_down"
  BY <1>1, <1>2, <1>6 DEF LogicalOf, Close, At
<1> QED
  BY <1>3, <1>4, <1>5, <1>6 DEF Orientations

\* A read or a touch aimed at the centre of an element falls on that element and not
\* past its edge, on every screen and in every orientation, although it is rounded to
\* whole points of the portrait screen on the way: for that the element need only be a
\* point wide and a point high.
THEOREM AimedCentreStaysInside ==
    ASSUME NEW f \in Frames, NEW o \in Orientations, NEW size \in Sizes,
           f.width >= 2, f.height >= 2
    PROVE  FrameContains(f, LogicalOf(RoundPoint(TransformPointToPortrait(CentreOf(f), o, size)), o, size))
<1> DEFINE centre == CentreOf(f)
           sent   == TransformPointToPortrait(centre, o, size)
           lands  == LogicalOf(RoundPoint(sent), o, size)
<1>1. /\ f.x \in Int /\ f.y \in Int /\ f.width \in Nat /\ f.height \in Nat
  BY DEF Frames
<1>2. /\ centre \in Points
      /\ f.x + 1 <= centre.x /\ centre.x + 1 <= f.x + f.width
      /\ f.y + 1 <= centre.y /\ centre.y + 1 <= f.y + f.height
  BY <1>1 DEF CentreOf, Points, At
<1>3. sent \in Points /\ LogicalOf(sent, o, size) = centre
  BY <1>2, PortraitIsPoint, TransformInvertsDevice
<1>4. RoundPoint(sent) \in Points /\ Close(RoundPoint(sent), sent)
  BY <1>3, RoundingIsClose
<1>5. Close(lands, centre)
  BY <1>3, <1>4, DeviceKeepsClose
<1>6. lands.x \in Int /\ lands.y \in Int
  <2>1. /\ RoundPoint(sent).x \in Int /\ RoundPoint(sent).y \in Int
        /\ size.width \in Int /\ size.height \in Int
    BY <1>4 DEF Points, Sizes
  <2> HIDE DEF sent
  <2> QED
    BY <2>1 DEF LogicalOf, Orientations, At
<1>7. lands.x - centre.x \in -1 .. 1 /\ lands.y - centre.y \in -1 .. 1
  BY <1>5 DEF Close
<1>8. centre.x \in Int /\ centre.y \in Int
  BY <1>2 DEF Points
<1> HIDE DEF lands, centre
<1>9. FrameContains(f, lands)
  BY <1>1, <1>2, <1>6, <1>7, <1>8 DEF FrameContains
<1> QED
  BY <1>9 DEF lands, sent, centre

\* Rounded or not, what was transformed for the device's orientation lands where its
\* caller sees it.
LEMMA PortraitLands ==
  ASSUME device.orientation \in Orientations, NEW p \in Points
  PROVE  /\ Portrait(p) \in Points
         /\ Close(Logical(Portrait(p)), p)
         /\ Close(Logical(RoundPoint(Portrait(p))), p)
<1> DEFINE o == device.orientation
           size == LogicalScreen(device)
<1>1. size \in Sizes
  BY ScreenSize
<1>2. Portrait(p) \in Points /\ Logical(Portrait(p)) = p
  BY <1>1, PortraitIsPoint, TransformInvertsDevice DEF Portrait, Logical
<1>3. Close(p, p)
  BY DEF Close, Points
<1>4. RoundPoint(Portrait(p)) \in Points /\ Close(RoundPoint(Portrait(p)), Portrait(p))
  BY <1>2, RoundingIsClose
<1>5. Close(Logical(RoundPoint(Portrait(p))), Logical(Portrait(p)))
  BY <1>1, <1>2, <1>4, DeviceKeepsClose DEF Logical
<1> QED
  BY <1>2, <1>3, <1>5

\* What a touch or a key does to the device leaves its orientation and its screen.
LEMMA TakeKeeps ==
  ASSUME {"orientation", "screen"} \subseteq DOMAIN device, NEW event
  PROVE  /\ Take(device, event).orientation = device.orientation
         /\ Take(device, event).screen = device.screen
         /\ {"orientation", "screen"} \subseteq DOMAIN Take(device, event)
<1>1. ASSUME NEW i
      PROVE  /\ Flip(device, i).orientation = device.orientation
             /\ Flip(device, i).screen = device.screen
             /\ {"orientation", "screen"} \subseteq DOMAIN Flip(device, i)
  BY DEF Flip
<1> QED
  BY <1>1 DEF Take

--------------------------------------------------------------------------------
(***************************************************************************)
(* One call moves.                                                          *)
(***************************************************************************)
Knows(c) == Remembers(c) /\ Measured(c) /\ Aimed(c)

SureLands(c) ==
  Pc(c) = "done" /\ Asked(c).op # "type" /\ "sure" \in DOMAIN call[c] /\ call[c].sure =>
    LandsWhereMeant(c)

\* What a call knows stays, whatever becomes of the rest, unless it has learnt that it
\* was disturbed.
LEMMA KnowsStays ==
  ASSUME NEW d \in Calls, Knows(d), d \in Active,
         DOMAIN call'[d] = DOMAIN call[d],
         \A f \in DOMAIN call[d] \ {"calm", "sure"} : call'[d][f] = call[d][f],
         call'[d].sure \in BOOLEAN, call'[d].sure => call[d].sure,
         sure' => sure,
         sure' \/ call'[d].sure => device'.orientation = device.orientation
  PROVE  Knows(d)'
<1>1. /\ {"request", "pc", "calm", "sure", "dims"} \subseteq DOMAIN call[d]
      /\ Pc(d)' = Pc(d) /\ Asked(d)' = Asked(d) /\ call'[d].dims = call[d].dims
      /\ call'[d].request = call[d].request /\ Asked(d) = call[d].request
  BY DEF Knows, Remembers, Pc, Asked
<1>2. Remembers(d)'
  <2>1. Remembers(d)
    BY DEF Knows
  <2> QED
    BY <1>1, <2>1 DEF Remembers
<1>3. Measured(d)'
  <2>1. Measured(d)
    BY DEF Knows
  <2>2. sure' => LogicalScreen(device)' = LogicalScreen(device)
    BY DEF LogicalScreen
  <2> QED
    BY <1>1, <2>1, <2>2 DEF Measured
<1>4. Aimed(d)'
  <2> SUFFICES ASSUME call'[d].sure
               PROVE  /\ AimedTap(d)' /\ AimedSwipe(d)'
                      /\ Pc(d)' = "capture" =>
                           "by" \in DOMAIN call'[d] /\ call'[d].by = device'.orientation
    BY DEF Aimed
  <2>1. AimedTap(d) /\ AimedSwipe(d)
        /\ (Pc(d) = "capture" => "by" \in DOMAIN call[d] /\ call[d].by = device.orientation)
    BY DEF Knows, Aimed
  <2>2. \A p : Portrait(p)' = Portrait(p)
    BY DEF Portrait, LogicalScreen
  <2>3. AimedTap(d)'
    BY <1>1, <2>1, <2>2 DEF AimedTap, Delivering
  <2>4. AimedSwipe(d)'
    BY <1>1, <2>1, <2>2 DEF AimedSwipe, Delivering
  <2> QED
    BY <1>1, <2>1, <2>3, <2>4
<1> QED
  BY <1>2, <1>3, <1>4 DEF Knows

\* The chain has moved with the call, if it has moved at all.
ChainMovesWith(c) ==
  /\ ChainIInv'
  /\ \A t \in Tickets : status'[t] = "running" =>
       \/ status[t] = "running" /\ (Pc(c) = "run" => t # call[c].ticket)
       \/ Pc(c)' = "run" /\ call'[c].ticket = t
  /\ \A t \in Tickets : status'[t] # status[t] =>
       \/ status[t] = "none"
       \/ Pc(c) \in {"wait", "run"} /\ call[c].ticket = t
  /\ Pc(c)' \in {"wait", "run"} =>
       /\ status'[call'[c].ticket] = IF Pc(c)' = "wait" THEN "waiting" ELSE "running"
       /\ \/ Pc(c) \in {"wait", "run"} /\ call'[c].ticket = call[c].ticket
          \/ status[call'[c].ticket] = "none"

LEMMA ChainRests ==
  ASSUME IInv, NEW c \in Active, UNCHANGED chainVars,
         Pc(c) # "run", Pc(c)' \notin {"wait", "run"}
  PROVE  ChainMovesWith(c)
<1>1. ChainIInv'
  BY DEF IInv, ChainIInv, ChainTypeOK, ChainInv, chainVars
<1> QED
  BY <1>1 DEF ChainMovesWith, chainVars

\* Whoever has an own turn that is running runs alone.
LEMMA RunsAlone ==
  ASSUME ChainIInv', TurnsAreOwn', \A d \in Calls : Remembers(d)',
         NEW c \in Calls, NEW d \in Calls, Pc(c)' = "run", Pc(d)' = "run"
  PROVE  c = d
<1> SUFFICES ASSUME c # d PROVE FALSE
  OBVIOUS
<1>1. c \in Active' /\ d \in Active'
  BY DEF Active, Pc
<1>2. call'[c].ticket \in Tickets /\ call'[d].ticket \in Tickets
  BY <1>1 DEF Remembers
<1>3. /\ status'[call'[c].ticket] = "running" /\ status'[call'[d].ticket] = "running"
      /\ call'[c].ticket # call'[d].ticket
  BY <1>1 DEF TurnsAreOwn
<1>4. \A t, u \in Tickets : status'[t] = "running" /\ u < t => status'[u] # "running"
  BY DEF ChainIInv, ChainInv, Settled
<1> QED
  BY <1>2, <1>3, <1>4 DEF Tickets

\* The chain and the device are as before, or have moved with the call.
LEMMA MovesOn ==
  ASSUME IInv, NEW c \in Active, Moved(c), ChainMovesWith(c),
         device'.orientation = device.orientation, device'.screen = device.screen,
         {"orientation", "screen"} \subseteq DOMAIN device',
         UNCHANGED <<sure, mixed>>,
         hint' \in Hints, dims' \in Sizes \cup {None},
         sure => hint' = hint /\ dims' \in {None, LogicalScreen(device)},
         Pc(c)' # "idle",
         Pc(c)' # "done" =>
            /\ Asked(c)' = Asked(c) /\ call'[c].sure \in BOOLEAN
            /\ call'[c].sure => call[c].sure
            /\ ~mixed /\ Turning(Asked(c)) /\ Pc(c)' \in Detecting \ {"clear"} => dims' = None
            /\ Knows(c)',
         SureLands(c)'
  PROVE  IInv'
<1>0. /\ c \in Calls /\ Active' \subseteq Active /\ Active \subseteq Calls
      /\ \A d \in Calls \ {c} : d \in Active => d \in Active' /\ call'[d] = call[d]
  BY DEF Active, Moved, Pc
<1>0a. \A d \in Calls : Knows(d)
  BY DEF IInv, Knows
<1>1. ASSUME NEW t \in Tickets, status'[t] = "running"
    PROVE  \E d \in Calls : Pc(d)' = "run" /\ call'[d].ticket = t
  <2>1. CASE Pc(c)' = "run" /\ call'[c].ticket = t
    BY <1>0, <2>1
  <2>2. CASE status[t] = "running" /\ (Pc(c) = "run" => t # call[c].ticket)
    <3>1. PICK d \in Calls : Pc(d) = "run" /\ call[d].ticket = t
      BY <2>2 DEF IInv, TypeOK
    <3>2. d # c /\ Pc(d) # "done"
      BY <2>2, <3>1
    <3>3. call'[d] = call[d]
      BY <3>2 DEF Moved
    <3> QED
      BY <3>1, <3>3 DEF Pc
  <2> QED
    BY <1>1, <2>1, <2>2 DEF ChainMovesWith
<1>2. DOMAIN call' = Calls /\ \A d \in Calls : "pc" \in DOMAIN call'[d]
  BY DEF Moved
<1>3. \A d \in Active' : Asked(d)' = Asked(d) /\ (call'[d].sure => call[d].sure)
  <2>1. ASSUME NEW d \in Active', d # c PROVE call'[d] = call[d]
    BY <1>0, <2>1
  <2>2. c \in Active' => Pc(c)' # "done"
    BY DEF Active, Pc
  <2> QED
    BY <2>1, <2>2 DEF Asked
<1>4. DetectionsAreAlone'
  <2> SUFFICES ASSUME ~mixed, NEW d \in Active', Turning(Asked(d)')
               PROVE  Active' = {d} /\ (Pc(d)' \in Detecting \ {"clear"} => dims' = None)
    BY DEF DetectionsAreAlone
  <2>1. Turning(Asked(d)) /\ d \in Active
    BY <1>0, <1>3 
  <2>2. Active = {d}
    BY <2>1 DEF IInv, DetectionsAreAlone
  <2>3. d = c /\ Active' = {d} /\ Pc(c)' # "done"
    BY <1>0, <2>2 DEF Active, Pc
  <2> QED
    BY <2>1, <2>3
<1>5. SureIsRight'
  <2>1. SureIsRight
    BY DEF IInv
  <2>2. LogicalScreen(device)' = LogicalScreen(device)
    BY DEF LogicalScreen
  <2>3. sure => \A d \in Active' : ~Turning(Asked(d)')
    BY <1>0, <1>3, <2>1 DEF SureIsRight
  <2>4. \A d \in Active' : call'[d].sure => sure
    BY <1>0, <1>3, <2>1 DEF SureIsRight
  <2>5. sure => hint' = device'.orientation /\ dims' \in {None, LogicalScreen(device)'}
    BY <2>1, <2>2 DEF SureIsRight
  <2> QED
    BY <2>3, <2>4, <2>5 DEF SureIsRight
<1>6. \A d \in Calls : Knows(d)'
  <2>1. ASSUME NEW d \in Calls, d \notin Active' PROVE Knows(d)'
    BY <2>1 DEF Knows, Remembers, Measured, Aimed
  <2>2. ASSUME NEW d \in Calls, d \in Active', d # c PROVE Knows(d)'
    <3>1. d \in Active /\ call'[d] = call[d] /\ call[d].sure \in BOOLEAN
      BY <1>0, <1>0a, <2>2 DEF Knows, Remembers
    <3> QED
      BY <1>0a, <3>1, KnowsStays
  <2>3. c \in Active' => Knows(c)'
    BY DEF Active, Pc
  <2> QED
    BY <2>1, <2>2, <2>3
<1>7. TurnsAreOwn'
  <2> SUFFICES ASSUME NEW d \in Active', Pc(d)' \in {"wait", "run"}
               PROVE  /\ status'[call'[d].ticket] = IF Pc(d)' = "wait" THEN "waiting" ELSE "running"
                      /\ \A e \in Active' \ {d} :
                           Pc(e)' \in {"wait", "run"} => call'[e].ticket # call'[d].ticket
    BY DEF TurnsAreOwn
  <2>1. TurnsAreOwn
    BY DEF IInv
  <2>2. \A e \in Active' : Pc(e)' \in {"wait", "run"} => call'[e].ticket \in Tickets
    BY <1>0, <1>6 DEF Knows, Remembers
  <2>3. ASSUME NEW e \in Active' \ {c}, Pc(e)' \in {"wait", "run"}
        PROVE  /\ e \in Active /\ Pc(e) = Pc(e)' /\ call'[e].ticket = call[e].ticket
               /\ status[call[e].ticket] = IF Pc(e) = "wait" THEN "waiting" ELSE "running"
               /\ status'[call[e].ticket] = status[call[e].ticket]
    <3>1. e \in Active /\ Pc(e) = Pc(e)' /\ call'[e] = call[e]
      BY <1>0, <2>3 DEF Pc
    <3>2. status[call[e].ticket] = IF Pc(e) = "wait" THEN "waiting" ELSE "running"
      BY <2>1, <2>3, <3>1 DEF TurnsAreOwn
    <3>3. Pc(c) \in {"wait", "run"} => call[c].ticket # call[e].ticket
      BY <2>1, <2>3, <3>1 DEF TurnsAreOwn
    <3>4. call[e].ticket \in Tickets /\ status[call[e].ticket] # "none"
      BY <2>2, <2>3, <3>1, <3>2
    <3> QED
      BY <3>1, <3>2, <3>3, <3>4 DEF ChainMovesWith
  <2>4. ASSUME c \in Active', Pc(c)' \in {"wait", "run"}, NEW e \in Active' \ {c},
               Pc(e)' \in {"wait", "run"}
        PROVE  call'[e].ticket # call'[c].ticket
    <3>1. CASE Pc(c) \in {"wait", "run"} /\ call'[c].ticket = call[c].ticket
      BY <2>1, <2>3, <2>4, <3>1 DEF TurnsAreOwn
    <3>2. CASE status[call'[c].ticket] = "none"
      BY <2>3, <2>4, <3>2
    <3> QED
      BY <2>4, <3>1, <3>2 DEF ChainMovesWith
  <2>5. CASE d = c
    BY <2>4, <2>5 DEF ChainMovesWith
  <2>6. CASE d # c
    <3>1. ASSUME NEW e \in Active' \ {d}, Pc(e)' \in {"wait", "run"}
          PROVE  call'[e].ticket # call'[d].ticket
      <4>1. CASE e = c
        BY <2>4, <2>6, <3>1, <4>1
      <4>2. CASE e # c
        BY <2>1, <2>3, <2>6, <3>1, <4>2 DEF TurnsAreOwn
      <4> QED
        BY <4>1, <4>2
    <3> QED
      BY <2>3, <2>6, <3>1
  <2> QED
    BY <2>5, <2>6
<1>8. TypeOK'
  <2>1. ChainIInv' /\ \A d \in Calls : Remembers(d)'
    BY <1>6 DEF ChainMovesWith, Knows
  <2> QED
    BY <1>1, <1>7, <2>1, RunsAlone DEF TypeOK, IInv
<1>9. SureGesturesLand'
  <2>1. ASSUME NEW d \in Calls, d # c PROVE SureLands(d)'
    <3>1. CASE call'[d] = call[d]
      BY <3>1 DEF IInv, SureGesturesLand, SureLands, LandsWhereMeant, Pc, Asked
    <3>2. CASE "sure" \notin DOMAIN call'[d]
      BY <3>2 DEF SureLands
    <3> QED
      BY <2>1, <3>1, <3>2 DEF Moved
  <2> QED
    BY <2>1 DEF SureGesturesLand, SureLands
<1> QED
  BY <1>2, <1>4, <1>5, <1>6, <1>7, <1>8, <1>9 DEF IInv, Knows, ChainMovesWith

\* What is known of a call in progress.
LEMMA ActiveCall ==
  ASSUME IInv, NEW c \in Active
  PROVE  /\ c \in Calls /\ DOMAIN call = Calls /\ \A d \in Calls : "pc" \in DOMAIN call[d]
         /\ Remembers(c) /\ Measured(c) /\ Aimed(c)
         /\ {"request", "pc", "calm", "sure", "dims"} \subseteq DOMAIN call[c]
         /\ Asked(c) = call[c].request /\ Asked(c) \in Asks /\ Asked(c).op \in Ops
         /\ Pc(c) \in Places(Asked(c).op) /\ call[c].sure \in BOOLEAN
         /\ Asked(c).op # "named" => "verb" \notin DOMAIN call[c]
         /\ call[c].sure => sure
         /\ sure => hint = device.orientation
         /\ device.orientation \in Orientations
<1>1. c \in Calls /\ Remembers(c) /\ Measured(c) /\ Aimed(c)
  BY DEF IInv, Active
<1>2. Asked(c) = call[c].request /\ Asked(c) \in Asks
  BY <1>1 DEF Remembers, Asked
<1> QED
  BY <1>1, <1>2, AskedFor DEF IInv, Remembers, SureIsRight, TypeOK

\* A call goes on to another place.
LEMMA GoesOn ==
  ASSUME IInv, NEW c \in Active, NEW pc, NEW memory, Goes(c, pc, memory),
         DOMAIN memory \cap {"request", "pc"} = {},
         "sure" \in DOMAIN memory => memory["sure"] = FALSE,
         "verb" \in DOMAIN memory => Asked(c).op = "named",
         pc \in Places(Asked(c).op),
         pc \in {"wait", "run"} => "ticket" \in DOMAIN call'[c] /\ call'[c].ticket \in Tickets,
         pc \in {"rootRead", "screenRead"} => call'[c].dims \in Sizes,
         pc = "probe" => /\ {"tried", "matches"} \subseteq DOMAIN call'[c]
                         /\ call'[c].tried \in {0, 1} /\ call'[c].matches \subseteq Orientations,
         pc = "detected" => "answer" \in DOMAIN call'[c] /\ call'[c].answer \in Orientations
  PROVE  /\ Moved(c) /\ Pc(c)' = pc /\ pc \notin {"idle", "done"} /\ c \in Active'
         /\ Asked(c)' = Asked(c) /\ call'[c].sure \in BOOLEAN
         /\ call'[c].sure => call[c].sure
         /\ "sure" \notin DOMAIN memory => call'[c].sure = call[c].sure
         /\ Remembers(c)'
<1>1. /\ c \in Calls /\ DOMAIN call = Calls /\ \A d \in Calls : "pc" \in DOMAIN call[d]
      /\ {"request", "pc", "calm", "sure", "dims"} \subseteq DOMAIN call[c]
      /\ Asked(c) = call[c].request /\ Asked(c) \in Asks /\ Asked(c).op \in Ops
      /\ call[c].sure \in BOOLEAN
      /\ Asked(c).op # "named" => "verb" \notin DOMAIN call[c]
  BY ActiveCall
<1>2. /\ Moved(c) /\ Pc(c)' = pc
      /\ DOMAIN call'[c] = DOMAIN call[c] \cup {"pc"} \cup DOMAIN memory
      /\ \A f \in DOMAIN memory \ {"pc"} : call'[c][f] = memory[f]
      /\ \A f \in DOMAIN call[c] \ (DOMAIN memory \cup {"pc"}) : call'[c][f] = call[c][f]
  BY <1>1, GoesTo
<1>3. pc \notin {"idle", "done"}
  BY <1>1 DEF Places, Ops, Aiming, Delivering, Detecting
<1>4. c \in Active'
  BY <1>1, <1>2, <1>3 DEF Active, Pc
<1>5. call'[c].request = call[c].request /\ Asked(c)' = Asked(c)
  BY <1>1, <1>2 DEF Asked
<1>6. /\ call'[c].sure \in BOOLEAN
      /\ call'[c].sure => call[c].sure
      /\ "sure" \notin DOMAIN memory => call'[c].sure = call[c].sure
  BY <1>1, <1>2
<1>7. Remembers(c)'
  <2>1. {"request", "pc", "calm", "sure", "dims"} \subseteq DOMAIN call'[c]
    BY <1>1, <1>2
  <2>2. Asked(c).op # "named" => "verb" \notin DOMAIN call'[c]
    BY <1>1, <1>2
  <2> QED
    BY <1>1, <1>2, <1>5, <1>6, <2>1, <2>2 DEF Remembers
<1> QED
  BY <1>2, <1>3, <1>4, <1>5, <1>6, <1>7

\* A call ends, without a gesture that was delivered.
LEMMA EndsWell ==
  ASSUME IInv, NEW c \in Active, NEW outcome, NEW memory, Answers(c, outcome, memory),
         "request" \notin DOMAIN memory,
         outcome # "ok" \/ Asked(c).op \notin {"tap", "swipe", "shot"}
  PROVE  Moved(c) /\ Pc(c)' = "done" /\ SureLands(c)'
<1>1. /\ c \in Calls /\ DOMAIN call = Calls /\ \A d \in Calls : "pc" \in DOMAIN call[d]
      /\ "request" \in DOMAIN call[c] /\ Asked(c) = call[c].request
  BY ActiveCall
<1>2. /\ Moved(c) /\ Pc(c)' = "done" /\ call'[c].outcome = outcome
      /\ DOMAIN call'[c] =
           (DOMAIN call[c] \cup DOMAIN memory \cup {"pc", "outcome", "screen", "orientation"})
             \cap Lasting
      /\ \A f \in (DOMAIN call[c] \cap Lasting)
                    \ (DOMAIN memory \cup {"pc", "outcome", "screen", "orientation"}) :
           call'[c][f] = call[c][f]
  BY <1>1, AnswersWith
<1>3. "request" \in DOMAIN call'[c] /\ call'[c].request = call[c].request
  BY <1>1, <1>2 DEF Lasting
<1>4. Asked(c)' = Asked(c)
  BY <1>1, <1>3 DEF Asked
<1> QED
  BY <1>2, <1>4 DEF SureLands, LandsWhereMeant

\* A read of the call's, or its end, that changes nothing else.
Quiet == UNCHANGED <<device, local, sure, mixed, chainVars>>

LEMMA QuietStep ==
  ASSUME IInv, NEW c \in Active, Moved(c), Quiet, Pc(c) # "run",
         Pc(c)' \notin {"idle", "wait", "run"},
         Pc(c)' # "done" =>
            /\ Asked(c)' = Asked(c) /\ call'[c].sure \in BOOLEAN
            /\ call'[c].sure => call[c].sure
            /\ ~mixed /\ Turning(Asked(c)) /\ Pc(c)' \in Detecting \ {"clear"} => dims = None
            /\ Knows(c)',
         SureLands(c)'
  PROVE  IInv'
<1> USE DEF Quiet, local
<1>1. ChainMovesWith(c)
  BY ChainRests
<1>2. /\ hint' \in Hints /\ dims' \in Sizes \cup {None}
      /\ sure => dims' \in {None, LogicalScreen(device)}
      /\ {"orientation", "screen"} \subseteq DOMAIN device'
  BY DEF IInv, TypeOK, SureIsRight
<1> QED
  BY <1>1, <1>2, MovesOn

LEMMA QuietEnd ==
  ASSUME IInv, NEW c \in Active, NEW outcome, NEW memory, Answers(c, outcome, memory),
         Quiet, Pc(c) # "run", "request" \notin DOMAIN memory,
         outcome # "ok" \/ Asked(c).op \notin {"tap", "swipe", "shot"}
  PROVE  IInv'
  BY EndsWell, QuietStep

\* A step of a call that aims at nothing.
LEMMA QuietGo ==
  ASSUME IInv, NEW c \in Active, NEW pc, NEW memory, Goes(c, pc, memory), Quiet,
         Pc(c) # "run",
         DOMAIN memory \cap {"request", "pc", "sure"} = {},
         "verb" \in DOMAIN memory => Asked(c).op = "named",
         Asked(c).op \notin {"tap", "swipe", "shot"},
         Asked(c).op # "named" => pc \notin {"dims", "root", "aim"},
         pc \in Places(Asked(c).op),
         pc \notin {"wait", "run"},
         ~mixed /\ Turning(Asked(c)) /\ pc \in Detecting \ {"clear"} => dims = None,
         pc \in {"rootRead", "screenRead"} => call'[c].dims = LogicalScreen(device),
         pc = "probe" => /\ {"tried", "matches"} \subseteq DOMAIN call'[c]
                         /\ call'[c].tried \in {0, 1} /\ call'[c].matches \subseteq Orientations,
         pc = "detected" => "answer" \in DOMAIN call'[c] /\ call'[c].answer \in Orientations
  PROVE  IInv'
<1>1. /\ Asked(c).op \in Ops /\ device.orientation \in Orientations
  BY ActiveCall
<1>2. pc \in {"rootRead", "screenRead"} => call'[c].dims \in Sizes
  BY <1>1, ScreenSize
<1>3. /\ Moved(c) /\ Pc(c)' = pc /\ pc \notin {"idle", "done"}
      /\ Asked(c)' = Asked(c) /\ call'[c].sure \in BOOLEAN
      /\ call'[c].sure => call[c].sure
      /\ Remembers(c)'
  BY <1>2, GoesOn
<1>4. Measured(c)'
  <2>1. LogicalScreen(device)' = LogicalScreen(device)
    BY DEF Quiet
  <2> QED
    BY <1>3, <2>1 DEF Measured
<1>5. Aimed(c)'
  <2>1. pc # "capture"
    BY <1>1 DEF Places, Ops, Aiming, Delivering, Detecting
  <2> QED
    BY <1>3, <2>1 DEF Aimed, AimedTap, AimedSwipe
<1>6. SureLands(c)'
  BY <1>3 DEF SureLands
<1> QED
  BY <1>3, <1>4, <1>5, <1>6, QuietStep DEF Knows

--------------------------------------------------------------------------------
(***************************************************************************)
(* The steps of reading and looking up.                                     *)
(***************************************************************************)
LEMMA Underway ==
  ASSUME NEW c \in Calls, Pc(c) \notin {"idle", "done"}
  PROVE  c \in Active
  BY DEF Active, Pc

LEMMA PlaceTellsOp ==
  ASSUME IInv, NEW c \in Active
  PROVE  /\ Pc(c) \in {"byLabel", "byId", "inTree", "hitTest", "readBack"} => Asked(c).op = "named"
         /\ Pc(c) \in {"gate", "sheet"} => Asked(c).op = "type"
         /\ Pc(c) \in {"read", "locate"} => Asked(c).op = "point"
         /\ Pc(c) \in {"screen", "screenRead"} => Asked(c).op = "describe"
         /\ Pc(c) = "capture" => Asked(c).op = "shot"
         /\ Pc(c) = "turn" => Asked(c).op = "rotate"
         /\ Pc(c) \in Detecting => Asked(c).op \in {"rotate", "detect"}
         /\ Pc(c) \in Aiming => Asked(c).op \in {"tap", "swipe", "point", "shot", "named"}
         /\ Pc(c) \in Delivering => Asked(c).op \in {"tap", "swipe", "named", "type", "button"}
<1>1. Pc(c) \in Places(Asked(c).op) /\ Asked(c).op \in Ops
  BY ActiveCall
<1> QED
  BY <1>1 DEF Places, Ops, Aiming, Delivering, Detecting

LEMMA QuietOnes ==
  (OnlyCalls => Quiet) /\ (Fails => Quiet)
  BY DEF OnlyCalls, Fails, Quiet, local, world

LEMMA ThrownOutcome ==
  ASSUME NEW c
  PROVE  ThrownBy(c) \in {"unreadable", "unread", "error"}
  BY DEF ThrownBy

LEMMA ScreenStep ==
  ASSUME IInv, NEW c \in Calls, ScreenServed(c) \/ ReadFails(c)
  PROVE  IInv'
<1>2. CASE ScreenServed(c)
  <2>0. c \in Active /\ Pc(c) = "screen" /\ Asked(c).op = "describe" /\ Quiet
    BY <1>2, Underway, PlaceTellsOp, QuietOnes DEF ScreenServed
  <2> DEFINE memory == [dims |-> LogicalScreen(device)]
  <2>1. Goes(c, "screenRead", memory) /\ DOMAIN memory = {"dims"}
        /\ memory["dims"] = LogicalScreen(device)
    BY <1>2 DEF ScreenServed
  <2> HIDE DEF memory
  <2>2. call'[c].dims = LogicalScreen(device)
    BY <2>0, <2>1, ActiveCall, GoesTo
  <2>3. "screenRead" \in Places(Asked(c).op) /\ ~Turning(Asked(c))
    BY <2>0 DEF Places, Turning
  <2> QED
    BY <2>0, <2>1, <2>2, <2>3, QuietGo
<1>3. CASE ReadFails(c)
  <2>1. /\ c \in Active /\ Pc(c) # "run" /\ Quiet
        /\ Answers(c, ThrownBy(c), << >>) /\ DOMAIN << >> = {}
    BY <1>3, Underway, QuietOnes DEF ReadFails
  <2>2. ThrownBy(c) # "ok"
    BY ThrownOutcome
  <2> QED
    BY <2>1, <2>2, QuietEnd
<1> QED
  BY <1>2, <1>3

LEMMA PointStep ==
  ASSUME IInv, NEW c \in Calls, ReadPoint(c) \/ LocatePoint(c)
  PROVE  IInv'
<1>1. c \in Active /\ Asked(c).op = "point" /\ Quiet /\ Pc(c) # "run"
  BY Underway, PlaceTellsOp, QuietOnes DEF ReadPoint, LocatePoint
<1>2. "locate" \in Places(Asked(c).op) /\ ~Turning(Asked(c))
  BY <1>1 DEF Places, Turning
<1>3. ASSUME NEW found, Goes(c, "locate", [target |-> found]) PROVE IInv'
  <2> DEFINE memory == [target |-> found]
  <2>1. DOMAIN memory = {"target"}
    OBVIOUS
  <2> HIDE DEF memory
  <2>2. Goes(c, "locate", memory)
    BY <1>3 DEF memory
  <2> QED
    BY <1>1, <1>2, <2>1, <2>2, QuietGo
<1>4. ASSUME NEW found, Answers(c, "ok", [answer |-> found]) PROVE IInv'
  <2>1. DOMAIN [answer |-> found] = {"answer"}
    OBVIOUS
  <2> QED
    BY <1>1, <1>4, <2>1, QuietEnd
<1>5. CASE ReadPoint(c)
  BY <1>3, <1>4, <1>5 DEF ReadPoint
<1>6. CASE LocatePoint(c)
  BY <1>4, <1>6 DEF LocatePoint
<1> QED
  BY <1>5, <1>6

\* tap() by a name goes on, or ends, with what was found.
LEMMA NamedStep ==
  ASSUME IInv, NEW c \in Active, Asked(c).op = "named", Quiet, Pc(c) # "run",
         \/ \E pc \in {"byId", "inTree", "dims", "queue"} : \E memory :
              /\ Goes(c, pc, memory) /\ DOMAIN memory \subseteq {"target", "verb"}
         \/ \E outcome, memory :
              /\ Answers(c, outcome, memory)
              /\ DOMAIN memory \subseteq {"target", "verb", "answer"}
  PROVE  IInv'
<1>1. CASE \E pc \in {"byId", "inTree", "dims", "queue"} : \E memory :
              /\ Goes(c, pc, memory) /\ DOMAIN memory \subseteq {"target", "verb"}
  <2>1. PICK pc \in {"byId", "inTree", "dims", "queue"} : \E memory :
              /\ Goes(c, pc, memory) /\ DOMAIN memory \subseteq {"target", "verb"}
    BY <1>1
  <2>2. PICK memory : Goes(c, pc, memory) /\ DOMAIN memory \subseteq {"target", "verb"}
    BY <2>1
  <2>3. pc \in Places(Asked(c).op) /\ pc \notin Detecting
    BY DEF Places, Aiming, Delivering, Detecting
  <2> QED
    BY <2>2, <2>3, QuietGo
<1>2. CASE \E outcome, memory :
              /\ Answers(c, outcome, memory)
              /\ DOMAIN memory \subseteq {"target", "verb", "answer"}
  BY <1>2, QuietEnd
<1> QED
  BY <1>1, <1>2

LEMMA FoundIsNamedStep ==
  ASSUME NEW c \in Calls, NEW element, Found(c, element)
  PROVE  \/ \E pc \in {"byId", "inTree", "dims", "queue"} : \E memory :
              /\ Goes(c, pc, memory) /\ DOMAIN memory \subseteq {"target", "verb"}
         \/ \E outcome, memory :
              /\ Answers(c, outcome, memory)
              /\ DOMAIN memory \subseteq {"target", "verb", "answer"}
<1>1. DOMAIN [answer |-> element] = {"answer"} /\ DOMAIN << >> = {}
  OBVIOUS
<1>2. CASE Answers(c, "activated", [answer |-> element])
  BY <1>1, <1>2
<1>3. CASE Answers(c, "element-not-found", << >>)
  BY <1>1, <1>3
<1>4. CASE Operate(c, element)
  <2> DEFINE verb == DecideTapVerb(element, Asked(c).plain)
             seen == [target |-> element, verb |-> verb]
  <2>1. DOMAIN seen = {"target", "verb"}
    OBVIOUS
  <2>2. verb \in {"element-disabled", "touch", "activation", "toggle-needs-plain-tap"}
    BY DEF DecideTapVerb
  <2>3. \/ Answers(c, verb, seen) \/ Answers(c, "element-unusable-frame", seen)
        \/ Goes(c, "dims", seen) \/ Goes(c, "queue", seen)
    BY <1>4, <2>2 DEF Operate
  <2> HIDE DEF seen, verb
  <2> QED
    BY <2>1, <2>3
<1> QED
  BY <1>2, <1>3, <1>4 DEF Found

LEMMA LookupStep ==
  ASSUME IInv, NEW c \in Calls, FindByLabel(c) \/ FindById(c) \/ FindInTree(c)
  PROVE  IInv'
<1>1. c \in Active /\ Asked(c).op = "named" /\ Quiet /\ Pc(c) # "run"
  BY Underway, PlaceTellsOp, QuietOnes DEF FindByLabel, FindById, FindInTree
<1>2. \/ \E element : Found(c, element)
      \/ Goes(c, "byId", << >>) \/ Goes(c, "inTree", << >>)
  BY DEF FindByLabel, FindById, FindInTree
<1>3. DOMAIN << >> = {}
  OBVIOUS
<1> QED
  BY <1>1, <1>2, <1>3, FoundIsNamedStep, NamedStep

LEMMA HitTestStep ==
  ASSUME IInv, NEW c \in Calls, HitTest(c) \/ ReadBack(c)
  PROVE  IInv'
<1>1. c \in Active /\ Asked(c).op = "named" /\ Quiet /\ Pc(c) # "run"
  BY Underway, PlaceTellsOp, QuietOnes DEF HitTest, ReadBack
<1>2. \/ Goes(c, "queue", << >>) \/ Answers(c, "tap-obstructed", << >>)
      \/ \E found : Answers(c, "activated", [answer |-> found])
  BY DEF HitTest, ReadBack
<1>3. DOMAIN << >> = {} /\ \A found : DOMAIN [answer |-> found] = {"answer"}
  OBVIOUS
<1> QED
  BY <1>1, <1>2, <1>3, NamedStep

LEMMA TypingStep ==
  ASSUME IInv, NEW c \in Calls, RefuseText(c) \/ SecureFieldGate(c) \/ PasswordSheetGate(c)
  PROVE  IInv'
<1>1. c \in Active /\ Asked(c).op = "type" /\ Quiet /\ Pc(c) # "run"
  BY Underway, PlaceTellsOp, QuietOnes DEF RefuseText, SecureFieldGate, PasswordSheetGate
<1>2. \/ \E pc \in {"sheet", "queue"} : Goes(c, pc, << >>)
      \/ \E outcome : Answers(c, outcome, << >>)
  BY DEF RefuseText, SecureFieldGate, PasswordSheetGate
<1>3. DOMAIN << >> = {} /\ \A pc \in {"sheet", "queue"} : pc \in Places(Asked(c).op)
  BY <1>1 DEF Places, Delivering
<1>4. \A pc \in {"sheet", "queue"} : pc \notin Detecting
  BY DEF Detecting
<1>5. ASSUME NEW pc \in {"sheet", "queue"}, Goes(c, pc, << >>) PROVE IInv'
  BY <1>1, <1>3, <1>4, <1>5, QuietGo
<1>6. ASSUME NEW outcome, Answers(c, outcome, << >>) PROVE IInv'
  BY <1>1, <1>3, <1>6, QuietEnd
<1> QED
  BY <1>2, <1>5, <1>6

--------------------------------------------------------------------------------
(***************************************************************************)
(* The steps of turning and detecting.                                      *)
(***************************************************************************)
LEMMA RotateFailsStep ==
  ASSUME IInv, NEW c \in Calls, RotateFails(c)
  PROVE  IInv'
<1>1. c \in Active /\ Asked(c).op = "rotate" /\ Quiet /\ Pc(c) # "run"
  BY Underway, PlaceTellsOp, QuietOnes DEF RotateFails
<1>2. DOMAIN << >> = {}
  OBVIOUS
<1> QED
  BY <1>1, <1>2, QuietEnd DEF RotateFails

\* A detection tries on, or has its answer.
LEMMA DetectingStep ==
  ASSUME IInv, NEW c \in Active, Quiet, Pc(c) \in Detecting \ {"clear"},
         NEW pc \in {"probe", "detected"}, NEW memory, Goes(c, pc, memory),
         DOMAIN memory \cap {"request", "pc", "sure", "verb"} = {},
         pc = "probe" => /\ {"tried", "matches"} \subseteq DOMAIN memory
                         /\ memory["tried"] \in {0, 1} /\ memory["matches"] \subseteq Orientations,
         pc = "detected" => "answer" \in DOMAIN memory /\ memory["answer"] \in Orientations
  PROVE  IInv'
<1>1. Asked(c).op \in {"rotate", "detect"} /\ Pc(c) # "run"
  BY PlaceTellsOp DEF Detecting
<1>2. pc \in Places(Asked(c).op)
  BY <1>1 DEF Places, Detecting
<1>3. ~mixed /\ Turning(Asked(c)) => dims = None
  BY DEF IInv, DetectionsAreAlone
<1>4. /\ pc = "probe" => /\ {"tried", "matches"} \subseteq DOMAIN call'[c]
                         /\ call'[c]["tried"] \in {0, 1} /\ call'[c]["matches"] \subseteq Orientations
      /\ pc = "detected" => "answer" \in DOMAIN call'[c] /\ call'[c]["answer"] \in Orientations
  BY ActiveCall, GoesTo
<1> QED
  BY <1>1, <1>2, <1>3, <1>4, QuietGo

LEMMA BothAreOrientations ==
  ASSUME NEW size
  PROVE  /\ CandidateOrientations(IsLandscape(size))[1] \in Orientations
         /\ CandidateOrientations(IsLandscape(size))[2] \in Orientations
  BY DEF CandidateOrientations, Orientations

LEMMA DetectsStep ==
  ASSUME IInv, NEW c \in Active, Quiet, Pc(c) \in Detecting \ {"clear"},
         NEW o \in Orientations, Detects(c, o)
  PROVE  IInv'
<1> DEFINE memory == [answer |-> o]
<1>1. Goes(c, "detected", memory) /\ DOMAIN memory = {"answer"} /\ memory["answer"] = o
  BY DEF Detects
<1> HIDE DEF memory
<1> QED
  BY <1>1, DetectingStep

LEMMA ProbesOn ==
  ASSUME IInv, NEW c \in Active, Quiet, Pc(c) \in Detecting \ {"clear"}, NEW others,
         DOMAIN others \subseteq {"dims", "probes"},
         Goes(c, "probe", Updated(NoProbe, others))
  PROVE  IInv'
<1> DEFINE memory == Updated(NoProbe, others)
<1>1. DOMAIN NoProbe = {"tried", "matches"} /\ NoProbe["tried"] = 0 /\ NoProbe["matches"] = {}
  BY DEF NoProbe
<1>2. /\ DOMAIN memory = DOMAIN NoProbe \cup DOMAIN others
      /\ \A f \in DOMAIN NoProbe \ DOMAIN others : memory[f] = NoProbe[f]
  BY UpdatedIs
<1> HIDE DEF memory
<1>3. /\ DOMAIN memory \cap {"request", "pc", "sure", "verb"} = {}
      /\ {"tried", "matches"} \subseteq DOMAIN memory
      /\ memory["tried"] \in {0, 1} /\ memory["matches"] \subseteq Orientations
  BY <1>1, <1>2
<1>4. Goes(c, "probe", memory)
  BY DEF memory
<1> QED
  BY <1>3, <1>4, DetectingStep

LEMMA ProbeTreeStep ==
  ASSUME IInv, NEW c \in Calls, ProbeTree(c)
  PROVE  IInv'
<1>1. c \in Active /\ Pc(c) \in Detecting \ {"clear"} /\ Quiet
  BY Underway, QuietOnes DEF ProbeTree, Detecting
<1>2. \/ Detects(c, "portrait")
      \/ \E size : Detects(c, CandidateOrientations(IsLandscape(size))[1])
      \/ \E size, probes : Goes(c, "probe", Updated(NoProbe, [dims |-> size, probes |-> probes]))
  BY DEF ProbeTree
<1>3. ASSUME NEW size, NEW probes,
             Goes(c, "probe", Updated(NoProbe, [dims |-> size, probes |-> probes]))
      PROVE  IInv'
  <2> DEFINE others == [dims |-> size, probes |-> probes]
  <2>1. DOMAIN others \subseteq {"dims", "probes"} /\ Goes(c, "probe", Updated(NoProbe, others))
    BY <1>3
  <2> HIDE DEF others
  <2> QED
    BY <1>1, <2>1, ProbesOn
<1>4. "portrait" \in Orientations
  BY DEF Orientations
<1> QED
  BY <1>1, <1>2, <1>3, <1>4, DetectsStep, BothAreOrientations

LEMMA TriedStep ==
  ASSUME IInv, NEW c \in Active, Quiet, Pc(c) \in Detecting \ {"clear"},
         NEW matches \in SUBSET Orientations, Tried(c, matches)
  PROVE  IInv'
<1>1. \/ Goes(c, "probe", [tried |-> 1, matches |-> matches])
      \/ Cardinality(matches) = 1 /\ Detects(c, CHOOSE o \in matches : TRUE)
      \/ Detects(c, CandidateOrientations(IsLandscape(call[c].dims))[1])
      \/ Goes(c, "probe", Updated(NoProbe, [probes |-> Tail(call[c].probes)]))
  BY DEF Tried
<1>2. CASE Goes(c, "probe", [tried |-> 1, matches |-> matches])
  <2> DEFINE memory == [tried |-> 1, matches |-> matches]
  <2>1. /\ DOMAIN memory = {"tried", "matches"}
        /\ memory["tried"] = 1 /\ memory["matches"] = matches
        /\ Goes(c, "probe", memory)
    BY <1>2
  <2> HIDE DEF memory
  <2> QED
    BY <2>1, DetectingStep
<1>3. CASE Cardinality(matches) = 1 /\ Detects(c, CHOOSE o \in matches : TRUE)
  <2>1. matches # {}
    BY <1>3, FS_EmptySet
  <2>2. (CHOOSE o \in matches : TRUE) \in Orientations
    BY <2>1
  <2> QED
    BY <1>3, <2>2, DetectsStep
<1>4. CASE Detects(c, CandidateOrientations(IsLandscape(call[c].dims))[1])
  BY <1>4, DetectsStep, BothAreOrientations
<1>5. CASE Goes(c, "probe", Updated(NoProbe, [probes |-> Tail(call[c].probes)]))
  <2> DEFINE others == [probes |-> Tail(call[c].probes)]
  <2>1. DOMAIN others \subseteq {"dims", "probes"} /\ Goes(c, "probe", Updated(NoProbe, others))
    BY <1>5
  <2> HIDE DEF others
  <2> QED
    BY <2>1, ProbesOn
<1> QED
  BY <1>1, <1>2, <1>3, <1>4, <1>5

LEMMA ProbeStep ==
  ASSUME IInv, NEW c \in Calls, Probe(c)
  PROVE  IInv'
<1>1. c \in Active /\ Pc(c) \in Detecting \ {"clear"} /\ Quiet /\ Pc(c) = "probe"
  BY Underway, QuietOnes DEF Probe, Detecting
<1>2. call[c].tried \in {0, 1} /\ call[c].matches \in SUBSET Orientations
  BY <1>1, ActiveCall DEF Remembers
<1>3. CandidateOrientations(IsLandscape(call[c].dims))[call[c].tried + 1] \in Orientations
  <2>1. call[c].tried + 1 \in {1, 2}
    BY <1>2
  <2> QED
    BY <2>1, BothAreOrientations
<1>4. PICK matches \in SUBSET Orientations : Tried(c, matches)
  BY <1>2, <1>3 DEF Probe
<1> QED
  BY <1>1, <1>4, TriedStep

LEMMA ClearDimsStep ==
  ASSUME IInv, NEW c \in Calls, ClearDims(c)
  PROVE  IInv'
<1>1. c \in Active /\ Pc(c) = "clear" /\ Asked(c).op \in {"rotate", "detect"}
  BY Underway, PlaceTellsOp DEF ClearDims, Detecting
<1>2. Goes(c, "probeTree", << >>) /\ DOMAIN << >> = {}
  BY DEF ClearDims
<1>3. "probeTree" \in Places(Asked(c).op)
  BY <1>1 DEF Places, Detecting
<1>4. /\ Moved(c) /\ Pc(c)' = "probeTree"
      /\ Asked(c)' = Asked(c) /\ call'[c].sure \in BOOLEAN
      /\ call'[c].sure => call[c].sure
      /\ Remembers(c)'
  BY <1>1, <1>2, <1>3, GoesOn
<1>5. Measured(c)' /\ Aimed(c)' /\ SureLands(c)'
  BY <1>1, <1>4 DEF Measured, Aimed, AimedTap, AimedSwipe, SureLands
<1>6. UNCHANGED <<device, hint, sure, mixed, chainVars>> /\ dims' = None
  BY DEF ClearDims
<1>7. ChainMovesWith(c)
  BY <1>1, <1>4, <1>6, ChainRests
<1>8. hint' \in Hints /\ {"orientation", "screen"} \subseteq DOMAIN device'
  BY <1>6 DEF IInv, TypeOK
<1> QED
  BY <1>1, <1>4, <1>5, <1>6, <1>7, <1>8, MovesOn DEF Knows

--------------------------------------------------------------------------------
(***************************************************************************)
(* The steps of aiming.                                                     *)
(***************************************************************************)
LEMMA AimsOn ==
  ASSUME IInv, NEW c \in Active, Pc(c) \in Aiming,
         NEW pc \in {"root", "rootRead", "aim"}, NEW memory, Goes(c, pc, memory),
         DOMAIN memory \subseteq {"dims", "sure"},
         "sure" \in DOMAIN memory => memory["sure"] = FALSE,
         pc = "rootRead" => call'[c].dims \in Sizes
  PROVE  /\ Moved(c) /\ Pc(c)' = pc /\ ~Turning(Asked(c)) /\ Pc(c) # "run"
         /\ Asked(c)' = Asked(c) /\ call'[c].sure \in BOOLEAN
         /\ call'[c].sure => call[c].sure
         /\ "sure" \in DOMAIN memory => ~call'[c].sure
         /\ Remembers(c)' /\ Aimed(c)' /\ SureLands(c)'
         /\ "dims" \in DOMAIN memory => call'[c].dims = memory["dims"]
         /\ "dims" \notin DOMAIN memory => call'[c].dims = call[c].dims
<1>1. Asked(c).op \in {"tap", "swipe", "point", "shot", "named"}
  BY PlaceTellsOp
<1>2. pc \in Places(Asked(c).op) /\ ~Turning(Asked(c)) /\ Pc(c) # "run"
  BY <1>1 DEF Places, Turning, Aiming
<1>3. /\ Moved(c) /\ Pc(c)' = pc
      /\ Asked(c)' = Asked(c) /\ call'[c].sure \in BOOLEAN
      /\ call'[c].sure => call[c].sure
      /\ Remembers(c)'
  BY <1>2, GoesOn
<1>4. Aimed(c)' /\ SureLands(c)'
  BY <1>3 DEF Aimed, AimedTap, AimedSwipe, SureLands, Delivering
<1>5. /\ "dims" \in DOMAIN memory => call'[c]["dims"] = memory["dims"]
      /\ "dims" \notin DOMAIN memory => call'[c]["dims"] = call[c]["dims"]
      /\ "sure" \in DOMAIN memory => ~call'[c]["sure"]
  BY ActiveCall, GoesTo
<1> QED
  BY <1>2, <1>3, <1>4, <1>5

LEMMA DimsFromCacheStep ==
  ASSUME IInv, NEW c \in Calls, DimsFromCache(c)
  PROVE  IInv'
<1> DEFINE memory == [dims |-> dims]
<1>1. c \in Active /\ Pc(c) \in Aiming /\ Quiet /\ dims # None
  BY Underway, QuietOnes DEF DimsFromCache, Aiming
<1>2. Goes(c, "aim", memory) /\ DOMAIN memory = {"dims"} /\ memory["dims"] = dims
  BY DEF DimsFromCache
<1> HIDE DEF memory
<1>3. /\ Moved(c) /\ Pc(c)' = "aim" /\ ~Turning(Asked(c)) /\ Pc(c) # "run"
      /\ Asked(c)' = Asked(c) /\ call'[c].sure \in BOOLEAN
      /\ call'[c].sure => call[c].sure
      /\ Remembers(c)' /\ Aimed(c)' /\ SureLands(c)'
      /\ call'[c].dims = dims
  BY <1>1, <1>2, AimsOn
<1>4. sure => dims = LogicalScreen(device)
  BY <1>1 DEF IInv, SureIsRight
<1>5. Measured(c)'
  <2>1. sure' = sure /\ LogicalScreen(device)' = LogicalScreen(device)
    BY <1>1 DEF Quiet
  <2> QED
    BY <1>1, <1>3, <1>4, <2>1 DEF Measured
<1> QED
  BY <1>1, <1>3, <1>5, QuietStep DEF Knows

LEMMA RootFrameStep ==
  ASSUME IInv, NEW c \in Calls, AskRootFrame(c) \/ RootFrameServed(c)
  PROVE  IInv'
<1>1. c \in Active /\ Pc(c) \in Aiming /\ Pc(c) \in {"dims", "root"} /\ Quiet
  BY Underway, QuietOnes DEF AskRootFrame, RootFrameServed, Aiming
<1>2. sure' = sure /\ LogicalScreen(device)' = LogicalScreen(device)
  BY <1>1 DEF Quiet
<1>3. CASE AskRootFrame(c)
  <2>1. Goes(c, "root", << >>) /\ DOMAIN << >> = {}
    BY <1>3 DEF AskRootFrame
  <2>2. /\ Moved(c) /\ Pc(c)' = "root" /\ ~Turning(Asked(c)) /\ Pc(c) # "run"
        /\ Asked(c)' = Asked(c) /\ call'[c].sure \in BOOLEAN
        /\ call'[c].sure => call[c].sure
        /\ Remembers(c)' /\ Aimed(c)' /\ SureLands(c)'
        /\ call'[c].dims = call[c].dims
    BY <1>1, <2>1, AimsOn
  <2>3. sure /\ Asked(c).op # "named" => call[c].dims = None
    BY <1>1, ActiveCall DEF Measured
  <2>4. Measured(c)'
    BY <1>2, <2>2, <2>3 DEF Measured
  <2> QED
    BY <1>1, <2>2, <2>4, QuietStep DEF Knows
<1>4. CASE RootFrameServed(c)
  <2> DEFINE memory == [dims |-> LogicalScreen(device)]
  <2>1. /\ Goes(c, "rootRead", memory) /\ DOMAIN memory = {"dims"}
        /\ memory["dims"] = LogicalScreen(device)
    BY <1>4 DEF RootFrameServed
  <2> HIDE DEF memory
  <2>2. call'[c].dims = LogicalScreen(device) /\ LogicalScreen(device) \in Sizes
    BY <1>1, <2>1, ActiveCall, GoesTo, ScreenSize
  <2>3. /\ Moved(c) /\ Pc(c)' = "rootRead" /\ ~Turning(Asked(c)) /\ Pc(c) # "run"
        /\ Asked(c)' = Asked(c) /\ call'[c].sure \in BOOLEAN
        /\ call'[c].sure => call[c].sure
        /\ Remembers(c)' /\ Aimed(c)' /\ SureLands(c)'
    BY <1>1, <2>1, <2>2, AimsOn
  <2>4. Measured(c)'
    BY <1>2, <2>2, <2>3 DEF Measured
  <2> QED
    BY <1>1, <2>3, <2>4, QuietStep DEF Knows
<1> QED
  BY <1>3, <1>4

LEMMA RootFrameFailsStep ==
  ASSUME IInv, NEW c \in Calls, RootFrameFails(c)
  PROVE  IInv'
<1>1. c \in Active /\ Pc(c) \in Aiming /\ Pc(c) = "root" /\ Quiet /\ Pc(c) # "run"
  BY Underway, QuietOnes DEF RootFrameFails, Aiming
<1>2. CASE Answers(c, "error", << >>)
  <2>1. DOMAIN << >> = {}
    OBVIOUS
  <2> QED
    BY <1>1, <1>2, <2>1, QuietEnd
<1>3. CASE Goes(c, "aim", [sure |-> FALSE])
  <2> DEFINE memory == [sure |-> FALSE]
  <2>1. Goes(c, "aim", memory) /\ DOMAIN memory = {"sure"} /\ memory["sure"] = FALSE
    BY <1>3
  <2> HIDE DEF memory
  <2>2. /\ Moved(c) /\ Pc(c)' = "aim" /\ ~Turning(Asked(c))
        /\ Asked(c)' = Asked(c) /\ call'[c].sure \in BOOLEAN
        /\ ~call'[c].sure
        /\ Remembers(c)' /\ Aimed(c)' /\ SureLands(c)'
        /\ call'[c].dims = call[c].dims
    BY <1>1, <2>1, AimsOn
  <2>3. sure /\ Asked(c).op # "named" => call[c].dims = None
    BY <1>1, ActiveCall DEF Measured
  <2>4. Measured(c)'
    <3>1. sure' = sure
      BY <1>1 DEF Quiet
    <3> QED
      BY <2>2, <2>3, <3>1 DEF Measured
  <2> QED
    BY <1>1, <2>2, <2>4, QuietStep DEF Knows
<1> QED
  BY <1>2, <1>3 DEF RootFrameFails

\* A root frame is noted: what the handle was sure of stays.
LEMMA NotesWell ==
  ASSUME IInv, NEW c \in Active, Pc(c) \in {"rootRead", "screenRead"},
         NoteRootFrame(call[c].dims)
  PROVE  /\ hint' \in Hints /\ dims' \in Sizes /\ dims' = call[c].dims
         /\ sure => hint' = hint /\ dims' = LogicalScreen(device)
<1>1. call[c].dims \in Sizes /\ (sure => call[c].dims = LogicalScreen(device))
  BY ActiveCall DEF Remembers, Measured
<1>2. hint \in Hints
  BY DEF IInv, TypeOK
<1>3. hint' = ReconcileHint(hint, IsLandscape(call[c].dims)) /\ dims' = call[c].dims
  BY DEF NoteRootFrame
<1>4. hint' \in Hints
  BY <1>1, <1>2, <1>3, ReconciledHintAgrees
<1>5. sure => hint' = hint
  BY <1>1, <1>3, ActiveCall, RightHintSurvives
<1> QED
  BY <1>1, <1>3, <1>4, <1>5

LEMMA RootFrameArrivesStep ==
  ASSUME IInv, NEW c \in Calls, RootFrameArrives(c)
  PROVE  IInv'
<1>1. c \in Active /\ Pc(c) \in Aiming /\ Pc(c) = "rootRead"
  BY Underway DEF RootFrameArrives, Aiming
<1>2. Goes(c, "aim", << >>) /\ DOMAIN << >> = {}
  BY DEF RootFrameArrives
<1>3. /\ Moved(c) /\ Pc(c)' = "aim" /\ ~Turning(Asked(c)) /\ Pc(c) # "run"
      /\ Asked(c)' = Asked(c) /\ call'[c].sure \in BOOLEAN
      /\ call'[c].sure => call[c].sure
      /\ Remembers(c)' /\ Aimed(c)' /\ SureLands(c)'
      /\ call'[c].dims = call[c].dims
  BY <1>1, <1>2, AimsOn
<1>4. /\ hint' \in Hints /\ dims' \in Sizes /\ dims' = call[c].dims
      /\ sure => hint' = hint /\ dims' = LogicalScreen(device)
  BY <1>1, NotesWell DEF RootFrameArrives
<1>5. UNCHANGED <<device, sure, mixed, chainVars>>
  BY DEF RootFrameArrives
<1>6. Measured(c)'
  <2>1. LogicalScreen(device)' = LogicalScreen(device) /\ LogicalScreen(device) # None
    BY <1>1, <1>5, ActiveCall, ScreenSize
  <2> QED
    BY <1>3, <1>4, <1>5, <2>1 DEF Measured
<1>7. ChainMovesWith(c)
  BY <1>1, <1>3, <1>5, ChainRests
<1>8. {"orientation", "screen"} \subseteq DOMAIN device'
  BY <1>5 DEF IInv
<1> QED
  BY <1>1, <1>3, <1>4, <1>5, <1>6, <1>7, <1>8, MovesOn DEF Knows

LEMMA ScreenArrivesStep ==
  ASSUME IInv, NEW c \in Calls, ScreenArrives(c)
  PROVE  IInv'
<1>1. c \in Active /\ Pc(c) = "screenRead" /\ Asked(c).op = "describe"
  BY Underway, PlaceTellsOp DEF ScreenArrives
<1>2. Answers(c, "ok", << >>) /\ DOMAIN << >> = {}
  BY DEF ScreenArrives
<1>3. Moved(c) /\ Pc(c)' = "done" /\ SureLands(c)'
  BY <1>1, <1>2, EndsWell
<1>4. /\ hint' \in Hints /\ dims' \in Sizes
      /\ sure => hint' = hint /\ dims' = LogicalScreen(device)
  BY <1>1, NotesWell DEF ScreenArrives
<1>5. UNCHANGED <<device, sure, mixed, chainVars>>
  BY DEF ScreenArrives
<1>6. ChainMovesWith(c)
  BY <1>1, <1>3, <1>5, ChainRests
<1>7. {"orientation", "screen"} \subseteq DOMAIN device'
  BY <1>5 DEF IInv
<1> QED
  BY <1>1, <1>3, <1>4, <1>5, <1>6, <1>7, MovesOn

\* What is sent of a point, by a call that is sure.
LEMMA SureAim ==
  ASSUME IInv, NEW c \in Active, Pc(c) = "aim", call[c].sure,
         Asked(c).op \in {"tap", "swipe"}, NEW p
  PROVE  ToPortrait(p, call[c].dims) = Portrait(p)
<1>1. sure /\ hint = device.orientation /\ device.orientation \in Orientations
  BY ActiveCall
<1>2. call[c].dims = LogicalScreen(device) /\ call[c].dims # None
  BY <1>1, ActiveCall DEF Measured
<1>3. Effective(call[c].dims) = device.orientation
  BY <1>1, EffectiveIsRight
<1> QED
  BY <1>2, <1>3 DEF ToPortrait, Portrait

\* A gesture of the caller's own points goes to the queue.
LEMMA AimsGesture ==
  ASSUME IInv, NEW c \in Active, Pc(c) = "aim", Asked(c).op \in {"tap", "swipe"}, Quiet,
         NEW points, NEW by, Goes(c, "queue", [points |-> points, by |-> by]),
         call[c].sure =>
           /\ Asked(c).op = "tap" => points = <<Portrait(Asked(c).at)>>
           /\ Asked(c).op = "swipe" =>
                points = <<RoundPoint(Portrait(Asked(c).from)), RoundPoint(Portrait(Asked(c).to))>>
  PROVE  IInv'
<1> DEFINE memory == [points |-> points, by |-> by]
<1>1. /\ Goes(c, "queue", memory) /\ DOMAIN memory = {"points", "by"}
      /\ memory["points"] = points
  OBVIOUS
<1> HIDE DEF memory
<1>2. "queue" \in Places(Asked(c).op) /\ ~Turning(Asked(c)) /\ Pc(c) # "run"
  BY DEF Places, Delivering, Turning
<1>3. /\ Moved(c) /\ Pc(c)' = "queue"
      /\ Asked(c)' = Asked(c) /\ call'[c].sure \in BOOLEAN
      /\ call'[c].sure => call[c].sure
      /\ Remembers(c)'
  BY <1>1, <1>2, GoesOn
<1>4. "points" \in DOMAIN call'[c] /\ call'[c]["points"] = points
  BY <1>1, ActiveCall, GoesTo
<1>5. Measured(c)' /\ SureLands(c)'
  BY <1>3 DEF Measured, SureLands
<1>6. Aimed(c)'
  <2>1. \A p : Portrait(p)' = Portrait(p)
    BY DEF Portrait, LogicalScreen, Quiet
  <2> QED
    BY <1>3, <1>4, <2>1 DEF Aimed, AimedTap, AimedSwipe
<1> QED
  BY <1>2, <1>3, <1>5, <1>6, QuietStep DEF Knows

\* A point read and a tap by name are aimed as well, and sure of nothing.
LEMMA AimsRead ==
  ASSUME IInv, NEW c \in Active, Pc(c) = "aim", Quiet,
         NEW points, NEW by,
         \/ Asked(c).op = "point" /\ Goes(c, "read", [points |-> points, by |-> by])
         \/ Asked(c).op = "named" /\ Goes(c, "hitTest", [points |-> points, by |-> by])
  PROVE  IInv'
<1> DEFINE memory == [points |-> points, by |-> by]
<1>1. /\ DOMAIN memory = {"points", "by"}
      /\ \/ Asked(c).op = "point" /\ Goes(c, "read", memory)
         \/ Asked(c).op = "named" /\ Goes(c, "hitTest", memory)
  OBVIOUS
<1> HIDE DEF memory
<1>2. PICK pc \in {"read", "hitTest"} : Goes(c, pc, memory) /\ pc \in Places(Asked(c).op)
  BY <1>1 DEF Places
<1>3. pc \notin {"dims", "root", "aim", "wait", "run", "rootRead", "screenRead", "probe", "detected"}
      /\ Asked(c).op \notin {"tap", "swipe", "shot", "rotate", "detect"} /\ Pc(c) # "run"
  BY <1>1
<1>4. ~Turning(Asked(c))
  BY <1>3 DEF Turning
<1> QED
  BY <1>1, <1>2, <1>3, <1>4, QuietGo

LEMMA AimsShot ==
  ASSUME IInv, NEW c \in Active, Pc(c) = "aim", Asked(c).op = "shot", Quiet,
         Goes(c, "capture", [by |-> Effective(call[c].dims)])
  PROVE  IInv'
<1> DEFINE memory == [by |-> Effective(call[c].dims)]
<1>1. /\ Goes(c, "capture", memory) /\ DOMAIN memory = {"by"}
      /\ memory["by"] = Effective(call[c].dims)
  OBVIOUS
<1> HIDE DEF memory
<1>2. "capture" \in Places(Asked(c).op) /\ ~Turning(Asked(c)) /\ Pc(c) # "run"
  BY DEF Places, Turning
<1>3. /\ Moved(c) /\ Pc(c)' = "capture"
      /\ Asked(c)' = Asked(c) /\ call'[c].sure \in BOOLEAN
      /\ call'[c].sure => call[c].sure
      /\ Remembers(c)'
  BY <1>1, <1>2, GoesOn
<1>4. "by" \in DOMAIN call'[c] /\ call'[c]["by"] = Effective(call[c].dims)
  BY <1>1, ActiveCall, GoesTo
<1>5. Measured(c)' /\ SureLands(c)'
  BY <1>3 DEF Measured, SureLands
<1>6. Aimed(c)'
  <2>1. call[c].sure => Effective(call[c].dims) = device.orientation
    BY ActiveCall, EffectiveIsRight
  <2>2. device' = device
    BY DEF Quiet
  <2> QED
    BY <1>3, <1>4, <2>1, <2>2 DEF Aimed, AimedTap, AimedSwipe, Delivering
<1> QED
  BY <1>2, <1>3, <1>5, <1>6, QuietStep DEF Knows

LEMMA AimStep ==
  ASSUME IInv, NEW c \in Calls, Aim(c)
  PROVE  IInv'
<1> DEFINE size == call[c].dims
           r == Asked(c)
<1>1. c \in Active /\ Pc(c) = "aim" /\ Quiet
      /\ Asked(c).op \in {"tap", "swipe", "point", "shot", "named"}
  BY Underway, PlaceTellsOp, QuietOnes DEF Aim, Aiming
<1>2. CASE r.op = "tap"
  <2> DEFINE points == <<ToPortrait(r.at, size)>>
  <2>1. Goes(c, "queue", [points |-> points, by |-> Effective(size)])
    BY <1>2 DEF Aim
  <2>2. call[c].sure => points = <<Portrait(r.at)>>
    BY <1>1, <1>2, SureAim
  <2> HIDE DEF points
  <2> QED
    BY <1>1, <1>2, <2>1, <2>2, AimsGesture
<1>3. CASE r.op = "swipe"
  <2> DEFINE points == SwipeEnds(r, size)
  <2>1. Goes(c, "queue", [points |-> points, by |-> Effective(size)])
    BY <1>3 DEF Aim
  <2>2. call[c].sure =>
          points = <<RoundPoint(Portrait(r.from)), RoundPoint(Portrait(r.to))>>
    BY <1>1, <1>3, SureAim DEF SwipeEnds
  <2> HIDE DEF points
  <2> QED
    BY <1>1, <1>3, <2>1, <2>2, AimsGesture
<1>4. CASE r.op = "point"
  <2> DEFINE points == <<RoundPoint(ToPortrait(r.at, size))>>
  <2>1. Goes(c, "read", [points |-> points, by |-> Effective(size)])
    BY <1>4 DEF Aim
  <2> HIDE DEF points
  <2> QED
    BY <1>1, <1>4, <2>1, AimsRead
<1>5. CASE r.op = "named"
  <2> DEFINE points == <<RoundPoint(ToPortrait(CentreOfNode(call[c].target), size))>>
  <2>1. Goes(c, "hitTest", [points |-> points, by |-> Effective(size)])
    BY <1>5 DEF Aim
  <2> HIDE DEF points
  <2> QED
    BY <1>1, <1>5, <2>1, AimsRead
<1>6. CASE r.op = "shot"
  <2>1. Goes(c, "capture", [by |-> Effective(size)])
    BY <1>6 DEF Aim
  <2> QED
    BY <1>1, <1>6, <2>1, AimsShot
<1> QED
  BY <1>1, <1>2, <1>3, <1>4, <1>5, <1>6

LEMMA CaptureStep ==
  ASSUME IInv, NEW c \in Calls, Capture(c)
  PROVE  IInv'
<1>1. c \in Active /\ Pc(c) = "capture" /\ Asked(c).op = "shot" /\ Quiet /\ Pc(c) # "run"
  BY Underway, PlaceTellsOp, QuietOnes DEF Capture
<1>2. Answers(c, "ok", << >>) /\ DOMAIN << >> = {}
  BY DEF Capture
<1>3. /\ DOMAIN call = Calls /\ \A d \in Calls : "pc" \in DOMAIN call[d]
      /\ {"request", "sure"} \subseteq DOMAIN call[c]
      /\ Asked(c) = call[c].request
      /\ call[c].sure => "by" \in DOMAIN call[c] /\ call[c].by = device.orientation
  BY <1>1, ActiveCall DEF Aimed
<1>4. /\ Moved(c) /\ Pc(c)' = "done" /\ call'[c].orientation = device.orientation
      /\ DOMAIN call'[c] =
           (DOMAIN call[c] \cup {"pc", "outcome", "screen", "orientation"}) \cap Lasting
      /\ \A f \in (DOMAIN call[c] \cap Lasting)
                    \ {"pc", "outcome", "screen", "orientation"} :
           call'[c][f] = call[c][f]
  BY <1>2, <1>3, AnswersWith
<1>5. /\ {"request", "sure"} \subseteq DOMAIN call'[c]
      /\ call'[c]["request"] = call[c]["request"] /\ call'[c]["sure"] = call[c]["sure"]
      /\ "by" \in DOMAIN call[c] => call'[c]["by"] = call[c]["by"]
  BY <1>3, <1>4 DEF Lasting
<1>6. Asked(c)' = Asked(c)
  BY <1>3, <1>5 DEF Asked
<1>7. SureLands(c)'
  BY <1>1, <1>3, <1>4, <1>5, <1>6 DEF SureLands, LandsWhereMeant
<1> QED
  BY <1>1, <1>4, <1>7, QuietStep

--------------------------------------------------------------------------------
(***************************************************************************)
(* The steps of delivery.                                                   *)
(***************************************************************************)
\* What a step of the chain does to the calls' turns.
LEMMA ChainTurns ==
  ASSUME ChainIInv
  PROVE  /\ Exclusively =>
              /\ ChainIInv' /\ arrived + 1 \in Tickets
              /\ status[arrived + 1] = "none" /\ status'[arrived + 1] = "waiting"
              /\ \A t \in Tickets \ {arrived + 1} : status'[t] = status[t]
         /\ \A u \in Tickets :
              /\ StartFn(u) =>
                   /\ ChainIInv' /\ status'[u] = "running"
                   /\ \A t \in Tickets \ {u} : status'[t] = status[t]
              /\ FnSettles(u) =>
                   /\ ChainIInv' /\ status'[u] \in Settled
                   /\ \A t \in Tickets \ {u} : status'[t] = status[t]
              /\ DropTail(u) => ChainIInv' /\ status' = status
<1>1. status \in [Tickets -> {"none", "waiting", "running"} \cup Settled] /\ arrived \in 0 .. MaxCalls
  BY DEF ChainIInv, ChainTypeOK
<1>2. ASSUME Exclusively
      PROVE  /\ ChainIInv' /\ arrived + 1 \in Tickets
             /\ status[arrived + 1] = "none" /\ status'[arrived + 1] = "waiting"
             /\ \A t \in Tickets \ {arrived + 1} : status'[t] = status[t]
  <2>1. arrived + 1 \in Tickets
    BY <1>1, <1>2, MaxCallsAssumption DEF Exclusively, Tickets
  <2>2. status[arrived + 1] = "none"
    BY <1>1, <2>1 DEF ChainIInv, ChainInv
  <2> QED
    BY <1>1, <1>2, <2>1, <2>2, ChainStepIInv DEF ChainNext, Exclusively
<1>3. ASSUME NEW u \in Tickets, StartFn(u)
      PROVE  /\ ChainIInv' /\ status'[u] = "running"
             /\ \A t \in Tickets \ {u} : status'[t] = status[t]
  BY <1>1, <1>3, ChainStepIInv DEF ChainNext, StartFn
<1>4. ASSUME NEW u \in Tickets, FnSettles(u)
      PROVE  /\ ChainIInv' /\ status'[u] \in Settled
             /\ \A t \in Tickets \ {u} : status'[t] = status[t]
  BY <1>1, <1>4, ChainStepIInv DEF ChainNext, FnSettles
<1>5. ASSUME NEW u \in Tickets, DropTail(u)
      PROVE  ChainIInv' /\ status' = status
  BY <1>5, ChainStepIInv DEF ChainNext, DropTail
<1> QED
  BY <1>2, <1>3, <1>4, <1>5

\* A call that is being delivered has asked for input.
LEMMA DeliveringOnes ==
  ASSUME IInv, NEW c \in Active, Pc(c) \in Delivering
  PROVE  /\ Asked(c).op \in {"tap", "swipe", "named", "type", "button"}
         /\ {"queue", "wait", "run"} \subseteq Places(Asked(c).op)
         /\ ~Turning(Asked(c))
<1>1. Asked(c).op \in {"tap", "swipe", "named", "type", "button"}
  BY PlaceTellsOp
<1> QED
  BY <1>1 DEF Places, Delivering, Turning

\* The device and what is known of it while a call is delivered.
LEMMA DeviceStays ==
  ASSUME IInv, UNCHANGED local, device'.orientation = device.orientation
  PROVE  /\ hint' \in Hints /\ dims' \in Sizes \cup {None}
         /\ sure => hint' = hint /\ dims' \in {None, LogicalScreen(device)}
         /\ \A p : Portrait(p)' = Portrait(p)
  BY DEF IInv, TypeOK, SureIsRight, local, Portrait, LogicalScreen

LEMMA QueueStep ==
  ASSUME IInv, NEW c \in Calls, Queue(c)
  PROVE  IInv'
<1> DEFINE memory == [ticket |-> arrived + 1]
<1>1. /\ c \in Active /\ Pc(c) \in Delivering /\ Pc(c) # "run" /\ Exclusively
      /\ UNCHANGED <<device, local, sure, mixed>>
  BY Underway DEF Queue, Delivering
<1>2. Pc(c) = "queue" /\ Goes(c, "wait", memory)
      /\ DOMAIN memory = {"ticket"} /\ memory["ticket"] = arrived + 1
  BY DEF Queue
<1> HIDE DEF memory
<1>3. /\ ChainIInv' /\ arrived + 1 \in Tickets
      /\ status[arrived + 1] = "none" /\ status'[arrived + 1] = "waiting"
      /\ \A t \in Tickets \ {arrived + 1} : status'[t] = status[t]
  BY <1>1, ChainTurns DEF IInv
<1>4. "wait" \in Places(Asked(c).op) /\ ~Turning(Asked(c))
  BY <1>1, DeliveringOnes
<1>5. /\ "ticket" \in DOMAIN call'[c] /\ call'[c]["ticket"] = arrived + 1
      /\ \A f \in DOMAIN call[c] \ {"ticket", "pc"} : call'[c][f] = call[c][f]
      /\ DOMAIN call[c] \subseteq DOMAIN call'[c]
  BY <1>1, <1>2, <1>3, ActiveCall, GoesTo
<1>6. /\ Moved(c) /\ Pc(c)' = "wait"
      /\ Asked(c)' = Asked(c) /\ call'[c].sure \in BOOLEAN
      /\ call'[c].sure => call[c].sure
      /\ Remembers(c)'
  BY <1>1, <1>2, <1>3, <1>4, <1>5, GoesOn
<1>7. Measured(c)' /\ SureLands(c)'
  BY <1>6 DEF Measured, SureLands
<1>8. Aimed(c)'
  <2>1. call[c].sure => AimedTap(c) /\ AimedSwipe(c)
    BY <1>1, ActiveCall DEF Aimed
  <2>2. \A p : Portrait(p)' = Portrait(p)
    BY <1>1, DeviceStays
  <2> QED
    BY <1>1, <1>5, <1>6, <2>1, <2>2 DEF Aimed, AimedTap, AimedSwipe
<1>9. {"orientation", "screen"} \subseteq DOMAIN device'
  BY <1>1 DEF IInv
<1>10. /\ device'.orientation = device.orientation /\ device'.screen = device.screen
       /\ hint' \in Hints /\ dims' \in Sizes \cup {None}
       /\ sure => hint' = hint /\ dims' \in {None, LogicalScreen(device)}
  BY <1>1, DeviceStays
<1>11. ChainMovesWith(c)
  <2>1. call'[c].ticket = arrived + 1
    BY <1>5
  <2>2. \A t \in Tickets : status'[t] # status[t] => status[t] = "none"
    BY <1>3
  <2>3. \A t \in Tickets : status'[t] = "running" => status[t] = "running"
    BY <1>3
  <2>4. status[call'[c].ticket] = "none" /\ status'[call'[c].ticket] = "waiting"
    BY <1>3, <2>1
  <2>5. Pc(c) # "run" /\ Pc(c)' = "wait" /\ ChainIInv'
    BY <1>1, <1>3, <1>6
  <2> QED
    BY <2>2, <2>3, <2>4, <2>5 DEF ChainMovesWith
<1> QED
  BY <1>1, <1>4, <1>6, <1>7, <1>8, <1>9, <1>10, <1>11, MovesOn DEF Knows

\* The events of a tap: they begin with a touch, and every touch is at its point.
LEMMA TapEventsTouch ==
  ASSUME NEW p, NEW count \in Nat \ {0}
  PROVE  /\ TapEvents(p, count) \in
              Seq([kind : {"touch"}, at : {p}, direction : {"down", "up"}] \cup {Delay})
         /\ TapEvents(p, count) # <<>> /\ Head(TapEvents(p, count)).kind = "touch"
<1> DEFINE Events1 == [kind : {"touch"}, at : {p}, direction : {"down", "up"}] \cup {Delay}
           n == 3 * count
           seq == TapEvents(p, count)
<1>1. n \in Nat /\ n >= 1
  OBVIOUS
<1>2. \A k \in 1 .. n : k % 3 \in {0, 1, 2}
  BY <1>1
<1>3. Touch(p, "down") \in Events1 /\ Touch(p, "up") \in Events1 /\ Delay \in Events1
      /\ Touch(p, "down").kind = "touch"
  BY DEF Touch
<1> HIDE DEF Events1, n
<1>4. seq = [k \in 1 .. n |-> CASE k % 3 = 1 -> Touch(p, "down")
                                [] k % 3 = 2 -> Delay
                                [] k % 3 = 0 -> Touch(p, "up")]
  BY DEF TapEvents, n
<1>5. \A k \in 1 .. n : seq[k] \in Events1
  BY <1>2, <1>3, <1>4
<1>6. seq \in [1 .. n -> Events1]
  BY <1>4, <1>5
<1>7. seq \in Seq(Events1) /\ Len(seq) = n
  BY <1>1, <1>6
<1>8. 1 \in 1 .. n /\ 1 % 3 = 1
  BY <1>1
<1>9. seq[1] = Touch(p, "down")
  BY <1>4, <1>8
<1>10. seq # <<>> /\ Head(seq).kind = "touch"
  BY <1>1, <1>3, <1>7, <1>9
<1> QED
  BY <1>7, <1>10 DEF Events1

LEMMA RunStep ==
  ASSUME IInv, NEW c \in Calls, Run(c)
  PROVE  IInv'
<1> DEFINE u == call[c].ticket
           memory == IF Activating(c) THEN << >> ELSE [events |-> Events(c)]
<1>1. /\ c \in Active /\ Pc(c) \in Delivering /\ Pc(c) = "wait" /\ StartFn(u)
      /\ UNCHANGED <<device, local, sure, mixed>>
  BY Underway DEF Run, Delivering
<1>2. /\ Goes(c, "run", memory) /\ DOMAIN memory \subseteq {"events"}
      /\ ~Activating(c) => "events" \in DOMAIN memory /\ memory["events"] = Events(c)
  <2>1. DOMAIN << >> = {} /\ DOMAIN [events |-> Events(c)] = {"events"}
    OBVIOUS
  <2> QED
    BY <2>1 DEF Run
<1> HIDE DEF memory
<1>3. u \in Tickets /\ "ticket" \in DOMAIN call[c]
  BY <1>1, ActiveCall DEF Remembers
<1>4. /\ ChainIInv' /\ status'[u] = "running"
      /\ \A t \in Tickets \ {u} : status'[t] = status[t]
  BY <1>1, <1>3, ChainTurns DEF IInv
<1>5. "run" \in Places(Asked(c).op) /\ ~Turning(Asked(c))
  BY <1>1, DeliveringOnes
<1>6. /\ \A f \in DOMAIN call[c] \ {"events", "pc"} : call'[c][f] = call[c][f]
      /\ DOMAIN call[c] \subseteq DOMAIN call'[c]
      /\ ~Activating(c) => "events" \in DOMAIN call'[c] /\ call'[c]["events"] = Events(c)
  BY <1>1, <1>2, ActiveCall, GoesTo
<1>7. call'[c].ticket = u /\ "ticket" \in DOMAIN call'[c]
  BY <1>3, <1>6
<1>8. /\ Moved(c) /\ Pc(c)' = "run"
      /\ Asked(c)' = Asked(c) /\ call'[c].sure \in BOOLEAN
      /\ call'[c].sure => call[c].sure
      /\ Remembers(c)'
  BY <1>1, <1>2, <1>3, <1>5, <1>7, GoesOn
<1>9. Measured(c)' /\ SureLands(c)'
  BY <1>8 DEF Measured, SureLands
<1>10. Aimed(c)'
  <2> SUFFICES ASSUME call'[c].sure, Asked(c).op # "named"
               PROVE  AimedTap(c)' /\ AimedSwipe(c)'
    BY <1>8 DEF Aimed, AimedTap, AimedSwipe
  <2>1. AimedTap(c) /\ AimedSwipe(c)
    BY <1>1, <1>8, ActiveCall DEF Aimed
  <2>2. \A p : Portrait(p)' = Portrait(p)
    BY <1>1, DeviceStays
  <2>3. ~Activating(c)
    BY <1>1, ActiveCall DEF Activating
  <2>4. "events" \in DOMAIN call'[c] /\ call'[c].events = Events(c)
    BY <1>6, <2>3
  <2>5. AimedTap(c)'
    <3> SUFFICES ASSUME Asked(c).op = "tap"
                 PROVE  AimedTap(c)'
      BY <1>8 DEF AimedTap
    <3>1. "points" \in DOMAIN call[c] /\ call[c].points = <<Portrait(Asked(c).at)>>
      BY <1>1, <2>1 DEF AimedTap
    <3>2. "points" \in DOMAIN call'[c] /\ call'[c].points = call[c].points
      BY <1>6, <3>1
    <3>3. Events(c) = TapEvents(call[c].points[1], Asked(c).count)
      BY DEF Events
    <3>4. Asked(c).count \in Nat \ {0}
      BY <1>1, ActiveCall, AskedFor
    <3>5. /\ Events(c) \in Seq([kind : {"touch"}, at : {call[c].points[1]},
                                direction : {"down", "up"}] \cup {Delay})
          /\ Events(c) # <<>> /\ Head(Events(c)).kind = "touch"
      BY <3>3, <3>4, TapEventsTouch
    <3> QED
      BY <1>8, <2>2, <2>4, <3>1, <3>2, <3>5 DEF AimedTap
  <2>6. AimedSwipe(c)'
    <3> SUFFICES ASSUME Asked(c).op = "swipe"
                 PROVE  AimedSwipe(c)'
      BY <1>8 DEF AimedSwipe
    <3>1. /\ "points" \in DOMAIN call[c]
          /\ call[c].points =
               <<RoundPoint(Portrait(Asked(c).from)), RoundPoint(Portrait(Asked(c).to))>>
      BY <1>1, <2>1 DEF AimedSwipe
    <3>2. "points" \in DOMAIN call'[c] /\ call'[c].points = call[c].points
      BY <1>6, <3>1
    <3>3. Events(c) =
            <<[kind |-> "swipe", from |-> call[c].points[1], to |-> call[c].points[2]]>>
      BY DEF Events
    <3> QED
      BY <1>8, <2>2, <2>4, <3>1, <3>2, <3>3 DEF AimedSwipe
  <2> QED
    BY <2>5, <2>6
<1>11. {"orientation", "screen"} \subseteq DOMAIN device'
  BY <1>1 DEF IInv
<1>12. /\ device'.orientation = device.orientation /\ device'.screen = device.screen
       /\ hint' \in Hints /\ dims' \in Sizes \cup {None}
       /\ sure => hint' = hint /\ dims' \in {None, LogicalScreen(device)}
  BY <1>1, DeviceStays
<1>13. ChainMovesWith(c)
  BY <1>1, <1>4, <1>7, <1>8 DEF ChainMovesWith
<1> QED
  BY <1>1, <1>5, <1>8, <1>9, <1>10, <1>11, <1>12, <1>13, MovesOn DEF Knows

\* What remains of a tap's events, once one of them has been delivered.
LEMMA TapGoesOn ==
  ASSUME device.orientation \in Orientations, NEW at \in Points,
         NEW events \in Seq([kind : {"touch"}, at : {Portrait(at)}, direction : {"down", "up"}]
                              \cup {Delay}),
         events # <<>>
  PROVE  /\ Tail(events) \in Seq([kind : {"touch"}, at : {Portrait(at)},
                                  direction : {"down", "up"}] \cup {Delay})
         /\ Head(events).kind = "touch" =>
              /\ "landed" \in DOMAIN Lands(Head(events))
              /\ Close(Lands(Head(events)).landed[1], at)
         /\ Head(events).kind # "touch" => DOMAIN Lands(Head(events)) = {}
<1> DEFINE S == [kind : {"touch"}, at : {Portrait(at)}, direction : {"down", "up"}] \cup {Delay}
           e == Head(events)
<1>0. events \in Seq(S)
  OBVIOUS
<1>1. Tail(events) \in Seq(S) /\ e \in S
  <2> HIDE DEF S
  <2> QED
    BY <1>0
<1>2. CASE e.kind = "touch"
  <2>1. e.at = Portrait(at)
    BY <1>1, <1>2 DEF Delay
  <2>2. \E hit : Lands(e) = [landed |-> <<Logical(e.at)>>, hit |-> hit]
    BY <1>2 DEF Lands
  <2>3. "landed" \in DOMAIN Lands(e) /\ Lands(e).landed[1] = Logical(Portrait(at))
    BY <2>1, <2>2
  <2>4. Close(Logical(Portrait(at)), at)
    BY PortraitLands
  <2> QED
    BY <1>1, <1>2, <2>3, <2>4
<1>3. CASE e.kind # "touch"
  <2>1. e = Delay /\ e.kind = "delay"
    BY <1>1, <1>3 DEF Delay
  <2>2. Lands(e) = << >>
    BY <2>1 DEF Lands
  <2> QED
    BY <1>1, <1>3, <2>2
<1> QED
  BY <1>2, <1>3

LEMMA LandsTells ==
  ASSUME NEW event
  PROVE  DOMAIN Lands(event) \subseteq {"landed", "hit"}
<1>1. \/ \E landed, hit : Lands(event) = [landed |-> landed, hit |-> hit]
      \/ \E landed : Lands(event) = [landed |-> landed]
      \/ Lands(event) = << >>
  BY DEF Lands
<1>2. /\ \A landed, hit : DOMAIN [landed |-> landed, hit |-> hit] = {"landed", "hit"}
      /\ \A landed : DOMAIN [landed |-> landed] = {"landed"}
      /\ DOMAIN << >> = {}
  OBVIOUS
<1> QED
  BY <1>1, <1>2

LEMMA DeliverStep ==
  ASSUME IInv, NEW c \in Calls, Deliver(c)
  PROVE  IInv'
<1> DEFINE event == Head(call[c].events)
           rest == [events |-> Tail(call[c].events)]
           memory == Updated(Lands(event), rest)
<1>1. /\ c \in Active /\ Pc(c) \in Delivering /\ Pc(c) = "run" /\ call[c].events # <<>>
      /\ UNCHANGED <<local, sure, mixed, chainVars>> /\ device' = Take(device, event)
      /\ Goes(c, "run", memory)
  BY Underway DEF Deliver, Delivering
<1>2. DOMAIN rest = {"events"} /\ rest["events"] = Tail(call[c].events)
  OBVIOUS
<1>3. /\ DOMAIN memory = DOMAIN Lands(event) \cup DOMAIN rest
      /\ \A f \in DOMAIN rest : memory[f] = rest[f]
      /\ \A f \in DOMAIN Lands(event) \ DOMAIN rest : memory[f] = Lands(event)[f]
  BY UpdatedIs
<1>4. DOMAIN Lands(event) \subseteq {"landed", "hit"}
  BY LandsTells
<1> HIDE DEF memory, rest
<1>5. /\ DOMAIN memory = DOMAIN Lands(event) \cup {"events"}
      /\ memory["events"] = Tail(call[c].events)
      /\ "landed" \in DOMAIN Lands(event) => memory["landed"] = Lands(event)["landed"]
  BY <1>2, <1>3, <1>4
<1>6. /\ {"orientation", "screen"} \subseteq DOMAIN device'
      /\ device'.orientation = device.orientation /\ device'.screen = device.screen
  BY <1>1, TakeKeeps DEF IInv
<1>7. /\ hint' \in Hints /\ dims' \in Sizes \cup {None}
      /\ sure => hint' = hint /\ dims' \in {None, LogicalScreen(device)}
      /\ \A p : Portrait(p)' = Portrait(p)
  BY <1>1, <1>6, DeviceStays
<1>8. "run" \in Places(Asked(c).op) /\ ~Turning(Asked(c))
  BY <1>1, DeliveringOnes
<1>9. /\ DOMAIN call'[c] = DOMAIN call[c] \cup {"pc"} \cup DOMAIN memory
      /\ \A f \in DOMAIN call[c] \ {"events", "landed", "hit", "pc"} : call'[c][f] = call[c][f]
      /\ call'[c]["events"] = Tail(call[c].events)
      /\ "landed" \in DOMAIN Lands(event) => call'[c]["landed"] = Lands(event)["landed"]
      /\ "landed" \in DOMAIN call[c] \ DOMAIN Lands(event) =>
           call'[c]["landed"] = call[c]["landed"]
  <2>1. /\ DOMAIN call'[c] = DOMAIN call[c] \cup {"pc"} \cup DOMAIN memory
        /\ \A f \in DOMAIN memory \ {"pc"} : call'[c][f] = memory[f]
        /\ \A f \in DOMAIN call[c] \ (DOMAIN memory \cup {"pc"}) : call'[c][f] = call[c][f]
    BY <1>1, ActiveCall, GoesTo
  <2>2. /\ "events" \in DOMAIN memory \ {"pc"}
        /\ DOMAIN memory \subseteq {"landed", "hit", "events"}
        /\ "landed" \in DOMAIN Lands(event) <=> "landed" \in DOMAIN memory \ {"pc"}
    BY <1>4, <1>5
  <2> HIDE DEF event
  <2>3. call'[c]["events"] = memory["events"]
    BY <2>1, <2>2
  <2>4. "landed" \in DOMAIN Lands(event) => call'[c]["landed"] = memory["landed"]
    BY <2>1, <2>2
  <2>5. "landed" \in DOMAIN call[c] \ DOMAIN Lands(event) =>
           call'[c]["landed"] = call[c]["landed"]
    BY <2>1, <2>2
  <2>6. \A f \in DOMAIN call[c] \ {"events", "landed", "hit", "pc"} : call'[c][f] = call[c][f]
    BY <2>1, <2>2
  <2> QED
    BY <1>5, <2>1, <2>3, <2>4, <2>5, <2>6
<1>10. "ticket" \in DOMAIN call[c] /\ call[c].ticket \in Tickets
  BY <1>1, ActiveCall DEF Remembers
<1>11. "ticket" \in DOMAIN call'[c] /\ call'[c].ticket = call[c].ticket
  BY <1>9, <1>10
<1>12. /\ Moved(c) /\ Pc(c)' = "run"
       /\ Asked(c)' = Asked(c) /\ call'[c].sure \in BOOLEAN
       /\ call'[c].sure => call[c].sure
       /\ Remembers(c)'
  BY <1>1, <1>4, <1>5, <1>8, <1>10, <1>11, GoesOn
<1>13. Measured(c)' /\ SureLands(c)'
  BY <1>12 DEF Measured, SureLands
<1>14. Aimed(c)'
  <2> SUFFICES ASSUME call'[c].sure
               PROVE  AimedTap(c)' /\ AimedSwipe(c)'
    BY <1>12 DEF Aimed
  <2>1. AimedTap(c) /\ AimedSwipe(c) /\ Asked(c) \in Asks
        /\ device.orientation \in Orientations
    BY <1>1, <1>12, ActiveCall DEF Aimed
  <2>2. AimedTap(c)'
    <3> SUFFICES ASSUME Asked(c).op = "tap"
                 PROVE  AimedTap(c)'
      BY <1>12 DEF AimedTap
    <3>1. /\ "points" \in DOMAIN call[c] /\ call[c].points = <<Portrait(Asked(c).at)>>
          /\ "events" \in DOMAIN call[c]
          /\ call[c].events \in Seq([kind : {"touch"}, at : {call[c].points[1]},
                                     direction : {"down", "up"}] \cup {Delay})
          /\ \/ Head(call[c].events).kind = "touch"
             \/ "landed" \in DOMAIN call[c] /\ Close(call[c].landed[1], Asked(c).at)
      BY <1>1, <2>1 DEF AimedTap
    <3>2. Asked(c).at \in Points /\ call[c].points[1] = Portrait(Asked(c).at)
      BY <2>1, <3>1, AskedFor
    <3>3. /\ Tail(call[c].events) \in Seq([kind : {"touch"}, at : {Portrait(Asked(c).at)},
                                           direction : {"down", "up"}] \cup {Delay})
          /\ event.kind = "touch" =>
               /\ "landed" \in DOMAIN Lands(event)
               /\ Close(Lands(event).landed[1], Asked(c).at)
          /\ event.kind # "touch" => DOMAIN Lands(event) = {}
      BY <1>1, <2>1, <3>1, <3>2, TapGoesOn
    <3>4. "points" \in DOMAIN call'[c] /\ call'[c].points = call[c].points
      BY <1>9, <3>1
    <3>5. "landed" \in DOMAIN call'[c] /\ Close(call'[c].landed[1], Asked(c).at)
      <4>1. CASE event.kind = "touch"
        BY <1>5, <1>9, <3>3, <4>1
      <4>2. CASE event.kind # "touch"
        BY <1>9, <3>1, <3>3, <4>2
      <4> QED
        BY <4>1, <4>2
    <3>6. "events" \in DOMAIN call'[c] /\ call'[c].events = Tail(call[c].events)
      BY <1>5, <1>9
    <3> QED
      BY <1>7, <1>12, <3>1, <3>2, <3>3, <3>4, <3>5, <3>6 DEF AimedTap
  <2>3. AimedSwipe(c)'
    <3> SUFFICES ASSUME Asked(c).op = "swipe"
                 PROVE  AimedSwipe(c)'
      BY <1>12 DEF AimedSwipe
    <3> DEFINE from == RoundPoint(Portrait(Asked(c).from))
               to == RoundPoint(Portrait(Asked(c).to))
    <3>1. /\ "points" \in DOMAIN call[c] /\ call[c].points = <<from, to>>
          /\ call[c].events =
               <<[kind |-> "swipe", from |-> call[c].points[1], to |-> call[c].points[2]]>>
      BY <1>1, <2>1 DEF AimedSwipe
    <3>2. event.kind = "swipe" /\ event.from = from /\ event.to = to
          /\ Tail(call[c].events) = <<>>
      BY <3>1
    <3>3. Lands(event) = [landed |-> <<Logical(from), Logical(to)>>]
      BY <3>2 DEF Lands
    <3>4. Close(Logical(from), Asked(c).from) /\ Close(Logical(to), Asked(c).to)
      BY <2>1, AskedFor, PortraitLands
    <3> HIDE DEF from, to, event
    <3>5. "landed" \in DOMAIN Lands(event) /\ Lands(event)["landed"] = <<Logical(from), Logical(to)>>
      BY <3>3
    <3>6. /\ "landed" \in DOMAIN call'[c] /\ call'[c].landed = <<Logical(from), Logical(to)>>
          /\ "events" \in DOMAIN call'[c] /\ call'[c].events = <<>>
          /\ "points" \in DOMAIN call'[c] /\ call'[c].points = <<from, to>>
      BY <1>5, <1>9, <3>1, <3>2, <3>5
    <3>7. call'[c].points =
            <<RoundPoint(Portrait(Asked(c).from)), RoundPoint(Portrait(Asked(c).to))>>'
      BY <1>7, <1>12, <3>6 DEF from, to
    <3> QED
      BY <1>12, <3>4, <3>6, <3>7 DEF AimedSwipe
  <2> QED
    BY <2>2, <2>3
<1>15. ChainMovesWith(c)
  <2>1. ChainIInv'
    BY <1>1 DEF IInv, ChainIInv, ChainTypeOK, ChainInv, chainVars
  <2>2. status[call[c].ticket] = "running"
    BY <1>1 DEF IInv, TurnsAreOwn
  <2> QED
    BY <1>1, <1>11, <1>12, <2>1, <2>2 DEF ChainMovesWith, chainVars
<1> QED
  BY <1>1, <1>6, <1>7, <1>8, <1>12, <1>13, <1>14, <1>15, MovesOn DEF Knows, local

\* The stream of a call is over, and the lock is let go.
LEMMA SettlesOn ==
  ASSUME IInv, NEW c \in Active, Pc(c) = "run", FnSettles(call[c].ticket), Moved(c),
         UNCHANGED <<local, sure, mixed>>,
         device'.orientation = device.orientation, device'.screen = device.screen,
         {"orientation", "screen"} \subseteq DOMAIN device',
         Pc(c)' \notin {"idle", "wait", "run"},
         Pc(c)' # "done" =>
            /\ Asked(c)' = Asked(c) /\ call'[c].sure \in BOOLEAN
            /\ call'[c].sure => call[c].sure
            /\ Knows(c)',
         SureLands(c)'
  PROVE  IInv'
<1>1. call[c].ticket \in Tickets
  BY ActiveCall DEF Remembers
<1>2. ChainMovesWith(c)
  <2>1. /\ ChainIInv' /\ status'[call[c].ticket] \in Settled
        /\ \A t \in Tickets \ {call[c].ticket} : status'[t] = status[t]
    BY <1>1, ChainTurns DEF IInv
  <2> QED
    BY <2>1 DEF ChainMovesWith, Settled
<1>3. ~Turning(Asked(c))
  BY DeliveringOnes DEF Delivering
<1>4. /\ hint' \in Hints /\ dims' \in Sizes \cup {None}
      /\ sure => hint' = hint /\ dims' \in {None, LogicalScreen(device)}
  BY DeviceStays
<1> QED
  BY <1>2, <1>3, <1>4, MovesOn

LEMMA CutStep ==
  ASSUME IInv, NEW c \in Calls, Cut(c)
  PROVE  IInv'
<1>1. /\ c \in Active /\ Pc(c) = "run" /\ FnSettles(call[c].ticket)
      /\ UNCHANGED <<device, local, sure, mixed>>
      /\ Answers(c, "error", << >>) /\ DOMAIN << >> = {}
  BY Underway DEF Cut
<1>2. Moved(c) /\ Pc(c)' = "done" /\ SureLands(c)'
  BY <1>1, EndsWell
<1>3. {"orientation", "screen"} \subseteq DOMAIN device'
  BY <1>1 DEF IInv
<1> QED
  BY <1>1, <1>2, <1>3, SettlesOn

LEMMA AcknowledgeStep ==
  ASSUME IInv, NEW c \in Calls, Acknowledge(c)
  PROVE  IInv'
<1>1. /\ c \in Active /\ Pc(c) = "run" /\ FnSettles(call[c].ticket)
      /\ call[c].events = <<>>
      /\ UNCHANGED <<device, local, sure, mixed>>
      /\ Answers(c, "ok", << >>) /\ DOMAIN << >> = {}
  BY Underway DEF Acknowledge
<1>2. /\ DOMAIN call = Calls /\ \A d \in Calls : "pc" \in DOMAIN call[d]
      /\ {"request", "sure"} \subseteq DOMAIN call[c]
      /\ Asked(c) = call[c].request
      /\ Asked(c).op # "shot"
      /\ call[c].sure => AimedTap(c) /\ AimedSwipe(c)
  BY <1>1, ActiveCall, DeliveringOnes DEF Aimed, Delivering
<1>3. /\ Moved(c) /\ Pc(c)' = "done"
      /\ DOMAIN call'[c] =
           (DOMAIN call[c] \cup {"pc", "outcome", "screen", "orientation"}) \cap Lasting
      /\ \A f \in (DOMAIN call[c] \cap Lasting)
                    \ {"pc", "outcome", "screen", "orientation"} :
           call'[c][f] = call[c][f]
  BY <1>1, <1>2, AnswersWith
<1>4. /\ {"request", "sure"} \subseteq DOMAIN call'[c]
      /\ call'[c]["request"] = call[c]["request"] /\ call'[c]["sure"] = call[c]["sure"]
      /\ "landed" \in DOMAIN call[c] => call'[c]["landed"] = call[c]["landed"]
  BY <1>2, <1>3 DEF Lasting
<1>5. Asked(c)' = Asked(c)
  BY <1>2, <1>4 DEF Asked
<1>6. SureLands(c)'
  <2> SUFFICES ASSUME call[c].sure
               PROVE  LandsWhereMeant(c)'
    BY <1>4 DEF SureLands
  <2>1. Asked(c).op = "tap" =>
          "landed" \in DOMAIN call[c] /\ Close(call[c].landed[1], Asked(c).at)
    BY <1>1, <1>2 DEF AimedTap
  <2>2. Asked(c).op = "swipe" =>
          /\ "landed" \in DOMAIN call[c]
          /\ Close(call[c].landed[1], Asked(c).from) /\ Close(call[c].landed[2], Asked(c).to)
    BY <1>1, <1>2 DEF AimedSwipe
  <2> QED
    BY <1>2, <1>4, <1>5, <2>1, <2>2 DEF LandsWhereMeant
<1>7. {"orientation", "screen"} \subseteq DOMAIN device'
  BY <1>1 DEF IInv
<1> QED
  BY <1>1, <1>3, <1>6, <1>7, SettlesOn

LEMMA ActivateStep ==
  ASSUME IInv, NEW c \in Calls, Activate(c)
  PROVE  IInv'
<1>1. /\ c \in Active /\ Pc(c) = "run" /\ FnSettles(call[c].ticket)
      /\ UNCHANGED <<local, sure, mixed>>
      /\ \/ device' = device
         \/ \E i : device' = Flip(device, i)
      /\ \/ \E pc \in {"queue", "readBack", "byLabel"} : \E memory :
              Goes(c, pc, memory) /\ DOMAIN memory \subseteq {"verb", "hit"}
         \/ Answers(c, "element-unusable-frame", << >>)
  <2>1. DOMAIN [verb |-> "touch"] = {"verb"} /\ \A hit : DOMAIN [hit |-> hit] = {"hit"}
    OBVIOUS
  <2>2. \/ Goes(c, "queue", [verb |-> "touch"])
        \/ Answers(c, "element-unusable-frame", << >>)
        \/ \E hit : Goes(c, "readBack", [hit |-> hit]) \/ Goes(c, "byLabel", [hit |-> hit])
    BY DEF Activate
  <2>3. \/ device' = device
        \/ \E i : device' = Flip(device, i)
    BY DEF Activate
  <2>4. /\ c \in Active /\ Pc(c) = "run" /\ FnSettles(call[c].ticket)
        /\ UNCHANGED <<local, sure, mixed>>
    BY Underway DEF Activate
  <2> QED
    BY <2>1, <2>2, <2>3, <2>4
<1>2. Asked(c).op = "named"
  BY <1>1, ActiveCall DEF Activate, Activating
<1>3. /\ device'.orientation = device.orientation /\ device'.screen = device.screen
      /\ {"orientation", "screen"} \subseteq DOMAIN device'
  BY <1>1 DEF Flip, IInv
<1>4. CASE Answers(c, "element-unusable-frame", << >>)
  <2>1. DOMAIN << >> = {}
    OBVIOUS
  <2>2. Moved(c) /\ Pc(c)' = "done" /\ SureLands(c)'
    BY <1>1, <1>4, <2>1, EndsWell
  <2> QED
    BY <1>1, <1>3, <2>2, SettlesOn
<1>5. ASSUME NEW pc \in {"queue", "readBack", "byLabel"}, NEW memory,
             Goes(c, pc, memory), DOMAIN memory \subseteq {"verb", "hit"}
      PROVE  IInv'
  <2>1. pc \in Places(Asked(c).op)
    BY <1>2 DEF Places, Delivering
  <2>2. /\ Moved(c) /\ Pc(c)' = pc
        /\ Asked(c)' = Asked(c) /\ call'[c].sure \in BOOLEAN
        /\ call'[c].sure => call[c].sure
        /\ Remembers(c)'
    BY <1>1, <1>2, <1>5, <2>1, GoesOn
  <2>3. Measured(c)' /\ Aimed(c)' /\ SureLands(c)'
    BY <1>2, <2>2 DEF Measured, Aimed, AimedTap, AimedSwipe, SureLands
  <2> QED
    BY <1>1, <1>3, <2>2, <2>3, SettlesOn DEF Knows
<1> QED
  BY <1>1, <1>4, <1>5

--------------------------------------------------------------------------------
(***************************************************************************)
(* The steps that all calls take part in.                                   *)
(***************************************************************************)
\* A call in progress that has at most learnt that it was disturbed.
Stays(d) ==
  /\ DOMAIN call'[d] = DOMAIN call[d]
  /\ \A f \in DOMAIN call[d] \ {"calm", "sure"} : call'[d][f] = call[d][f]
  /\ call'[d].sure \in BOOLEAN /\ (call'[d].sure => call[d].sure)
  /\ sure' => sure
  /\ sure' \/ call'[d].sure => device'.orientation = device.orientation

LEMMA AllMoveOn ==
  ASSUME IInv, NEW movers \in SUBSET Calls, ChainIInv', status' = status,
         device'.orientation \in Orientations, device'.screen \in Screens,
         {"orientation", "screen"} \subseteq DOMAIN device',
         hint' \in Hints, dims' \in Sizes \cup {None}, sure' \in BOOLEAN, mixed' \in BOOLEAN,
         DOMAIN call' = Calls, \A d \in Calls : "pc" \in DOMAIN call'[d],
         DetectionsAreAlone', SureIsRight',
         \A d \in movers : /\ Pc(d) # "run" /\ Pc(d)' \notin {"wait", "run"}
                           /\ Knows(d)' /\ SureLands(d)',
         \A d \in Active \ movers : Stays(d),
         \A d \in Calls \ (Active \cup movers) :
            /\ Pc(d)' = Pc(d)
            /\ call'[d] = call[d] \/ "sure" \notin DOMAIN call'[d]
  PROVE  IInv'
<1>1. \A d \in Active \ movers :
        /\ {"request", "pc"} \subseteq DOMAIN call[d]
        /\ Pc(d)' = Pc(d) /\ Asked(d)' = Asked(d)
  <2>1. \A d \in Active : {"request", "pc"} \subseteq DOMAIN call[d]
    BY ActiveCall
  <2> QED
    BY <2>1 DEF Stays, Pc, Asked
<1>2. ASSUME NEW t \in Tickets, status'[t] = "running"
      PROVE  \E d \in Calls : Pc(d)' = "run" /\ call'[d].ticket = t
  <2>1. PICK d \in Calls : Pc(d) = "run" /\ call[d].ticket = t
    BY <1>2 DEF IInv, TypeOK
  <2>2. d \in Active \ movers
    BY <2>1, Underway
  <2>3. "ticket" \in DOMAIN call[d]
    BY <2>1, <2>2, ActiveCall DEF Remembers
  <2>4. Pc(d)' = "run" /\ call'[d].ticket = t
    BY <1>1, <2>1, <2>2, <2>3 DEF Stays
  <2> QED
    BY <2>4
<1>3. ASSUME NEW d \in Calls PROVE Knows(d)'
  <2>1. CASE d \in movers
    BY <2>1
  <2>2. CASE d \in Active \ movers
    <3>1. Knows(d)
      BY DEF IInv, Knows
    <3> QED
      BY <2>2, <3>1, KnowsStays DEF Stays
  <2>3. CASE d \notin Active \cup movers
    <3>1. d \notin Active'
      BY <2>3 DEF Active, Pc
    <3> QED
      BY <3>1 DEF Knows, Remembers, Measured, Aimed
  <2> QED
    BY <2>1, <2>2, <2>3
<1>4. ASSUME NEW d \in Calls PROVE SureLands(d)'
  <2>1. CASE d \in movers
    BY <2>1
  <2>2. CASE d \in Active \ movers
    BY <1>1, <2>2 DEF SureLands, Active, Pc
  <2>3. CASE d \notin Active \cup movers
    <3>1. CASE call'[d] = call[d]
      BY <3>1 DEF IInv, SureGesturesLand, SureLands, LandsWhereMeant, Pc, Asked
    <3>2. CASE "sure" \notin DOMAIN call'[d]
      BY <3>2 DEF SureLands
    <3> QED
      BY <2>3, <3>1, <3>2
  <2> QED
    BY <2>1, <2>2, <2>3
<1>5. SureGesturesLand'
  BY <1>4 DEF SureGesturesLand, SureLands
<1>6. TurnsAreOwn'
  <2>1. \A d \in Active' : Pc(d)' \in {"wait", "run"} =>
          /\ d \in Active \ movers /\ Pc(d)' = Pc(d) /\ call'[d].ticket = call[d].ticket
    <3> SUFFICES ASSUME NEW d \in Active', Pc(d)' \in {"wait", "run"}
                 PROVE  d \in Active \ movers /\ Pc(d)' = Pc(d) /\ call'[d].ticket = call[d].ticket
      OBVIOUS
    <3>1. d \in Active \ movers
      BY DEF Active, Pc
    <3>2. Pc(d)' = Pc(d)
      BY <1>1, <3>1
    <3>3. "ticket" \in DOMAIN call[d]
      BY <3>1, <3>2, ActiveCall DEF Remembers
    <3> QED
      BY <3>1, <3>2, <3>3 DEF Stays
  <2> QED
    BY <2>1 DEF IInv, TurnsAreOwn
<1>7. TypeOK'
  <2>1. \A d \in Calls : Remembers(d)'
    BY <1>3 DEF Knows
  <2> QED
    BY <1>2, <1>6, <2>1, RunsAlone DEF TypeOK
<1> QED
  BY <1>3, <1>5, <1>6, <1>7 DEF IInv, Knows

LEMMA DisturbedIs ==
  ASSUME IInv, NEW d \in Calls, NEW turned \in BOOLEAN
  PROVE  /\ d \notin Active => Disturbed(d, turned) = call[d]
         /\ d \in Active =>
              /\ DOMAIN Disturbed(d, turned) = DOMAIN call[d]
              /\ \A f \in DOMAIN call[d] \ {"calm", "sure"} : Disturbed(d, turned)[f] = call[d][f]
              /\ Disturbed(d, turned)["sure"] = (call[d].sure /\ ~turned)
         /\ "pc" \in DOMAIN Disturbed(d, turned)
<1>1. CASE d \notin Active
  BY <1>1 DEF Disturbed, IInv
<1>2. CASE d \in Active
  <2> DEFINE news == [calm |-> FALSE, sure |-> call[d].sure /\ ~turned]
  <2>1. DOMAIN news = {"calm", "sure"} /\ news["sure"] = (call[d].sure /\ ~turned)
    OBVIOUS
  <2>2. Disturbed(d, turned) = Updated(call[d], news)
    BY <1>2 DEF Disturbed
  <2> HIDE DEF news
  <2>3. /\ DOMAIN Updated(call[d], news) = DOMAIN call[d] \cup DOMAIN news
        /\ \A f \in DOMAIN news : Updated(call[d], news)[f] = news[f]
        /\ \A f \in DOMAIN call[d] \ DOMAIN news : Updated(call[d], news)[f] = call[d][f]
    BY UpdatedIs
  <2>4. {"pc", "calm", "sure"} \subseteq DOMAIN call[d]
    BY <1>2, ActiveCall
  <2> QED
    BY <1>2, <2>1, <2>2, <2>3, <2>4
<1> QED
  BY <1>1, <1>2

\* Nothing but the world, or the chain's own memory, has moved.
LEMMA WorldMovesOn ==
  ASSUME IInv, ChainIInv', status' = status, UNCHANGED <<local, mixed>>,
         device'.orientation \in Orientations, device'.screen \in Screens,
         {"orientation", "screen"} \subseteq DOMAIN device',
         sure' \in BOOLEAN, DOMAIN call' = Calls, \A d \in Calls : "pc" \in DOMAIN call'[d],
         \A d \in Active : Stays(d) /\ (call'[d].sure => sure'),
         \A d \in Calls \ Active : call'[d] = call[d],
         sure' => sure /\ device'.orientation = device.orientation
  PROVE  IInv'
<1>1. \A d \in Active :
        /\ {"request", "pc"} \subseteq DOMAIN call[d]
        /\ Pc(d)' = Pc(d) /\ Asked(d)' = Asked(d)
  <2>1. \A d \in Active : {"request", "pc"} \subseteq DOMAIN call[d]
    BY ActiveCall
  <2> QED
    BY <2>1 DEF Stays, Pc, Asked
<1>2. Active' = Active /\ Active \subseteq Calls
  BY <1>1 DEF Active, Pc
<1>3. DetectionsAreAlone'
  BY <1>1, <1>2 DEF IInv, DetectionsAreAlone, local
<1>4. SureIsRight'
  <2>1. sure' => LogicalScreen(device)' = LogicalScreen(device)
    BY DEF LogicalScreen
  <2> QED
    BY <1>1, <1>2, <2>1 DEF IInv, SureIsRight, local
<1>5. hint' \in Hints /\ dims' \in Sizes \cup {None} /\ mixed' \in BOOLEAN
  BY DEF IInv, TypeOK, local
<1>6. \A d \in Calls \ Active : Pc(d)' = Pc(d)
  BY DEF Pc
<1> DEFINE movers == {}
<1>7. /\ movers \in SUBSET Calls /\ Active \ movers = Active
      /\ Calls \ (Active \cup movers) = Calls \ Active
      /\ \A d \in movers : FALSE
  OBVIOUS
<1> HIDE DEF movers
<1> QED
  BY <1>3, <1>4, <1>5, <1>6, <1>7, AllMoveOn

\* Behind the handle's back; nothing is sure any more once the device has turned.
LEMMA TurnStep == IInv /\ Turn => IInv'
<1> SUFFICES ASSUME IInv, Turn PROVE IInv'
  OBVIOUS
<1>1. /\ call' = [c \in Calls |-> Disturbed(c, TRUE)] /\ sure' = FALSE
      /\ UNCHANGED <<local, mixed, chainVars>>
  BY DEF Turn
<1>2. /\ device'.orientation \in Orientations /\ device'.screen \in Screens
      /\ {"orientation", "screen"} \subseteq DOMAIN device'
  BY DEF Turn, IInv, TypeOK
<1>3. ChainIInv' /\ status' = status
  BY <1>1 DEF IInv, ChainIInv, ChainTypeOK, ChainInv, chainVars
<1>4. DOMAIN call' = Calls /\ \A d \in Calls : call'[d] = Disturbed(d, TRUE)
  BY <1>1
<1>5. \A d \in Active : Stays(d) /\ ~call'[d].sure
  <2>1. \A d \in Active : d \in Calls
    BY DEF Active
  <2> QED
    BY <1>1, <1>4, <2>1, DisturbedIs DEF Stays
<1>6. (\A d \in Calls : "pc" \in DOMAIN call'[d]) /\ \A d \in Calls \ Active : call'[d] = call[d]
  BY <1>4, DisturbedIs
<1> QED
  BY <1>1, <1>2, <1>3, <1>4, <1>5, <1>6, WorldMovesOn

LEMMA ChangeStep == IInv /\ Change => IInv'
<1> SUFFICES ASSUME IInv, Change PROVE IInv'
  OBVIOUS
<1>1. /\ call' = [c \in Calls |-> Disturbed(c, FALSE)]
      /\ UNCHANGED <<local, sure, mixed, chainVars>>
      /\ \E to \in Becomes(device.screen) : device' = [device EXCEPT !.screen = to]
  BY DEF Change
<1>2. DOMAIN call' = Calls /\ \A d \in Calls : call'[d] = Disturbed(d, FALSE)
  BY <1>1
<1>3. ChainIInv' /\ status' = status
  BY <1>1 DEF IInv, ChainIInv, ChainTypeOK, ChainInv, chainVars
<1>4. /\ device'.orientation = device.orientation /\ device'.orientation \in Orientations
      /\ {"orientation", "screen"} \subseteq DOMAIN device'
  BY <1>1 DEF IInv, TypeOK
<1>5. device'.screen \in Screens
  BY <1>1, RequestsAssumption DEF IInv, TypeOK
<1>6. \A d \in Active : Stays(d) /\ (call'[d].sure => sure')
  <2>1. \A d \in Active : d \in Calls /\ (call[d].sure => sure) /\ call[d].sure \in BOOLEAN
    BY ActiveCall
  <2> QED
    BY <1>1, <1>2, <1>4, <2>1, DisturbedIs DEF Stays
<1>7. (\A d \in Calls : "pc" \in DOMAIN call'[d]) /\ \A d \in Calls \ Active : call'[d] = call[d]
  BY <1>2, DisturbedIs
<1>8. sure' \in BOOLEAN
  BY <1>1 DEF IInv, TypeOK
<1> QED
  BY <1>1, <1>2, <1>3, <1>4, <1>5, <1>6, <1>7, <1>8, WorldMovesOn

\* The chain forgets its tail, or nothing happens.
LEMMA RestStep == IInv /\ (UNCHANGED vars \/ \E t \in Tickets : ForgetTail(t)) => IInv'
<1> SUFFICES ASSUME IInv, UNCHANGED vars \/ \E t \in Tickets : ForgetTail(t) PROVE IInv'
  OBVIOUS
<1>1. UNCHANGED <<device, local, call, sure, mixed>>
  BY DEF ForgetTail, vars
<1>2. ChainIInv' /\ status' = status
  <2>1. CASE UNCHANGED vars
    BY <2>1 DEF vars, IInv, ChainIInv, ChainTypeOK, ChainInv, chainVars
  <2>2. ASSUME NEW t \in Tickets, DropTail(t) PROVE ChainIInv' /\ status' = status
    BY <2>2, ChainTurns DEF IInv
  <2> QED
    BY <2>1, <2>2 DEF ForgetTail
<1>3. \A d \in Active : Stays(d) /\ (call'[d].sure => sure')
  <2>1. \A d \in Active : d \in Calls /\ (call[d].sure => sure) /\ call[d].sure \in BOOLEAN
    BY ActiveCall
  <2> QED
    BY <1>1, <2>1 DEF Stays
<1>4. /\ device'.orientation \in Orientations /\ device'.screen \in Screens
      /\ {"orientation", "screen"} \subseteq DOMAIN device'
      /\ sure' \in BOOLEAN /\ DOMAIN call' = Calls
      /\ \A d \in Calls : "pc" \in DOMAIN call'[d]
  BY <1>1 DEF IInv, TypeOK
<1> QED
  BY <1>1, <1>2, <1>3, <1>4, WorldMovesOn

\* Nobody is sure while a call turns the device, so that nothing is lost by it.
LEMMA RotateStep ==
  ASSUME IInv, NEW c \in Calls, Rotate(c)
  PROVE  IInv'
<1> DEFINE movers == {c}
           end == [pc |-> "clear"]
<1>1. c \in Active /\ Pc(c) = "turn" /\ Asked(c).op = "rotate" /\ Turning(Asked(c))
  BY Underway, PlaceTellsOp DEF Rotate, Turning
<1>2. ~sure
  BY <1>1 DEF IInv, SureIsRight
<1>3. /\ call' = [d \in Calls |-> IF d = c THEN Updated(call[c], end) ELSE Disturbed(d, TRUE)]
      /\ UNCHANGED <<local, sure, mixed, chainVars>>
      /\ device' = device \/ device' = [device EXCEPT !.orientation = Asked(c).to]
  BY DEF Rotate
<1>4. /\ DOMAIN call' = Calls /\ call'[c] = Updated(call[c], end)
      /\ \A d \in Calls \ {c} : call'[d] = Disturbed(d, TRUE)
  BY <1>3
<1>5. DOMAIN end = {"pc"} /\ end["pc"] = "clear"
  OBVIOUS
<1> HIDE DEF end, movers
<1>6. /\ DOMAIN call'[c] = DOMAIN call[c] \cup {"pc"} /\ call'[c]["pc"] = "clear"
      /\ \A f \in DOMAIN call[c] \ {"pc"} : call'[c][f] = call[c][f]
  <2>1. /\ DOMAIN Updated(call[c], end) = DOMAIN call[c] \cup DOMAIN end
        /\ \A f \in DOMAIN end : Updated(call[c], end)[f] = end[f]
        /\ \A f \in DOMAIN call[c] \ DOMAIN end : Updated(call[c], end)[f] = call[c][f]
    BY UpdatedIs
  <2> QED
    BY <1>4, <1>5, <2>1
<1>7. /\ {"request", "pc", "calm", "sure", "dims"} \subseteq DOMAIN call[c]
      /\ Asked(c) = call[c].request /\ Asked(c) \in Asks
      /\ call[c].sure \in BOOLEAN /\ "verb" \notin DOMAIN call[c]
  BY <1>1, ActiveCall
<1>8. /\ call'[c]["request"] = call[c]["request"] /\ call'[c]["sure"] = call[c]["sure"]
      /\ Pc(c)' = "clear"
  BY <1>6, <1>7 DEF Pc
<1>9. Asked(c)' = Asked(c)
  BY <1>6, <1>7, <1>8 DEF Asked
<1>10. Knows(c)' /\ SureLands(c)'
  <2>1. "clear" \in Places(Asked(c).op)
    BY <1>1 DEF Places, Detecting
  <2>2. Remembers(c)'
    BY <1>1, <1>6, <1>7, <1>8, <1>9, <2>1 DEF Remembers
  <2>3. Measured(c)' /\ Aimed(c)' /\ SureLands(c)'
    BY <1>1, <1>8, <1>9 DEF Measured, Aimed, AimedTap, AimedSwipe, SureLands
  <2> QED
    BY <2>2, <2>3 DEF Knows
<1>11. \A d \in Active \ {c} : Stays(d) /\ ~call'[d].sure
  <2>1. \A d \in Active : d \in Calls
    BY DEF Active
  <2> QED
    BY <1>2, <1>3, <1>4, <2>1, DisturbedIs DEF Stays
<1>12. \A d \in Calls \ (Active \cup {c}) : call'[d] = call[d] /\ Pc(d)' = Pc(d)
  BY <1>4, DisturbedIs DEF Pc
<1>13. \A d \in Calls : "pc" \in DOMAIN call'[d]
  BY <1>4, <1>6, DisturbedIs
<1>14. \A d \in Active \ {c} : Pc(d)' = Pc(d) /\ Asked(d)' = Asked(d)
  <2>1. \A d \in Active : {"request", "pc"} \subseteq DOMAIN call[d]
    BY ActiveCall
  <2> QED
    BY <1>11, <2>1 DEF Stays, Pc, Asked
<1>15. Active' = Active
  BY <1>1, <1>8, <1>12, <1>14 DEF Active, Pc
<1>16. DetectionsAreAlone'
  BY <1>3, <1>8, <1>9, <1>14, <1>15 DEF IInv, DetectionsAreAlone, local
<1>17. SureIsRight'
  <2>1. ~call[c].sure
    BY <1>1, <1>2, ActiveCall
  <2> QED
    BY <1>2, <1>3, <1>8, <1>11, <1>15, <2>1 DEF SureIsRight
<1>18. ChainIInv' /\ status' = status
  BY <1>3 DEF IInv, ChainIInv, ChainTypeOK, ChainInv, chainVars
<1>19. /\ device'.orientation \in Orientations /\ device'.screen \in Screens
       /\ {"orientation", "screen"} \subseteq DOMAIN device'
  <2>1. Asked(c).to \in Orientations
    BY <1>1, <1>7, AskedFor
  <2> QED
    BY <1>3, <2>1 DEF IInv, TypeOK
<1>20. /\ hint' \in Hints /\ dims' \in Sizes \cup {None}
       /\ sure' \in BOOLEAN /\ mixed' \in BOOLEAN
  BY <1>3 DEF IInv, TypeOK, local
<1>21. movers \in SUBSET Calls /\ movers = {c} /\ Pc(c) # "run"
  BY <1>1 DEF movers
<1> QED
  BY <1>4, <1>8, <1>10, <1>11, <1>12, <1>13, <1>16, <1>17, <1>18, <1>19, <1>20, <1>21, AllMoveOn

\* A detection that was alone is sure of what it found, and no dimensions of before
\* are remembered.
LEMMA NoteDetectedStep ==
  ASSUME IInv, NEW c \in Calls, NoteDetected(c)
  PROVE  IInv'
<1> DEFINE movers == {c}
<1>1. /\ c \in Active /\ Pc(c) = "detected" /\ Pc(c) \in Detecting \ {"clear"} /\ Pc(c) # "run"
      /\ Asked(c).op \in {"rotate", "detect"} /\ Turning(Asked(c))
  BY Underway, PlaceTellsOp DEF NoteDetected, Detecting, Turning
<1>2. ~sure
  BY <1>1 DEF IInv, SureIsRight
<1>3. /\ hint' = call[c].answer /\ Answers(c, "ok", << >>) /\ DOMAIN << >> = {}
      /\ sure' = (Active = {c} /\ ~mixed /\ call[c].answer = device.orientation)
      /\ UNCHANGED <<device, dims, mixed, chainVars>>
  BY DEF NoteDetected
<1>4. call[c].answer \in Orientations
  BY <1>1, ActiveCall DEF Remembers
<1>5. Moved(c) /\ Pc(c)' = "done" /\ SureLands(c)'
  BY <1>1, <1>3, EndsWell
<1>6. /\ Active' = Active \ {c}
      /\ \A d \in Active \ {c} : call'[d] = call[d] /\ Asked(d)' = Asked(d) /\ d \in Calls
  BY <1>1, <1>5 DEF Moved, Active, Pc, Asked
<1>7. DetectionsAreAlone'
  <2>1. ~mixed => Active = {c}
    BY <1>1 DEF IInv, DetectionsAreAlone
  <2> QED
    BY <1>3, <1>6, <2>1 DEF DetectionsAreAlone
<1>8. SureIsRight'
  <2>1. sure' => Active' = {} /\ hint' = device'.orientation /\ dims' = None
    BY <1>1, <1>3, <1>6 DEF IInv, DetectionsAreAlone
  <2>2. \A d \in Active' : ~call'[d].sure
    BY <1>2, <1>6, ActiveCall
  <2> QED
    BY <2>1, <2>2 DEF SureIsRight
<1>9. Knows(c)'
  BY <1>6 DEF Knows, Remembers, Measured, Aimed
<1>10. \A d \in Active \ {c} : Stays(d)
  BY <1>3, <1>6, ActiveCall DEF Stays
<1>11. \A d \in Calls \ (Active \cup {c}) :
            /\ Pc(d)' = Pc(d)
            /\ call'[d] = call[d] \/ "sure" \notin DOMAIN call'[d]
  BY <1>5 DEF Moved, Pc
<1>12. ChainIInv' /\ status' = status
  BY <1>3 DEF IInv, ChainIInv, ChainTypeOK, ChainInv, chainVars
<1>13. /\ device'.orientation \in Orientations /\ device'.screen \in Screens
       /\ {"orientation", "screen"} \subseteq DOMAIN device'
       /\ hint' \in Hints /\ dims' \in Sizes \cup {None}
       /\ sure' \in BOOLEAN /\ mixed' \in BOOLEAN
  BY <1>3, <1>4 DEF IInv, TypeOK, Hints
<1>14. DOMAIN call' = Calls /\ \A d \in Calls : "pc" \in DOMAIN call'[d]
  BY <1>5 DEF Moved
<1>15. movers \in SUBSET Calls /\ movers = {c}
  OBVIOUS
<1> HIDE DEF movers
<1> QED
  BY <1>1, <1>5, <1>7, <1>8, <1>9, <1>10, <1>11, <1>12, <1>13, <1>14, <1>15, AllMoveOn

\* A call begins at the place that its request is for, and says whether it turns.
LEMMA FirstStepIsAPlace ==
  ASSUME NEW r \in Asks
  PROVE  /\ FirstStep(r) \in Places(r.op)
         /\ FirstStep(r) \in {"dims", "aim", "byLabel", "gate", "queue", "turn", "clear", "screen"}
         /\ r.op \in {"tap", "swipe"} => FirstStep(r) = "dims"
         /\ FirstStep(r) = "aim" => r.op = "shot"
<1>1. r.op \in Ops
  BY AskedFor
<1> QED
  BY <1>1 DEF FirstStep, Places, Ops, Aiming, Delivering, Detecting

LEMMA BeginStep ==
  ASSUME IInv, NEW c \in Calls, Begin(c)
  PROVE  IInv'
<1>1. PICK r \in Requests(c, device.screen) :
        /\ call' = [d \in Calls |->
             IF d = c THEN [request |-> r, pc |-> FirstStep(r), calm |-> TRUE,
                            sure |-> sure /\ ~Turning(r), dims |-> None]
             ELSE IF d \in Active THEN Updated(call[d], [sure |-> call[d].sure /\ ~Turning(r)])
             ELSE Past(d)]
        /\ sure' = (sure /\ ~Turning(r))
        /\ mixed' = (mixed \/ (Turning(r) /\ Active # {}) \/ \E d \in Active : Turning(Asked(d)))
  BY DEF Begin
<1>2. Pc(c) = "idle" /\ c \notin Active /\ UNCHANGED <<device, local, chainVars>>
  BY DEF Begin, Active, Pc
<1>3. r \in Asks
  BY RequestsAssumption DEF IInv, TypeOK
<1> DEFINE new == [request |-> r, pc |-> FirstStep(r), calm |-> TRUE,
                   sure |-> sure /\ ~Turning(r), dims |-> None]
           movers == {c}
<1>4. /\ DOMAIN new = {"request", "pc", "calm", "sure", "dims"}
      /\ new["request"] = r /\ new["pc"] = FirstStep(r)
      /\ new["sure"] = (sure /\ ~Turning(r)) /\ new["dims"] = None
  OBVIOUS
<1>5. /\ DOMAIN call' = Calls /\ call'[c] = new
      /\ \A d \in Active : d # c /\ call'[d] = Updated(call[d], [sure |-> call[d].sure /\ ~Turning(r)])
      /\ \A d \in Calls \ (Active \cup {c}) : call'[d] = Past(d)
  BY <1>1, <1>2 DEF Active
<1>6. movers \in SUBSET Calls /\ movers = {c} /\ Pc(c) # "run"
  BY <1>2
<1> HIDE DEF new, movers
<1>7. Asked(c)' = r /\ Pc(c)' = FirstStep(r)
  BY <1>4, <1>5 DEF Asked, Pc
<1>8. /\ FirstStep(r) \in Places(r.op)
      /\ FirstStep(r) \in {"dims", "aim", "byLabel", "gate", "queue", "turn", "clear", "screen"}
      /\ r.op \in {"tap", "swipe"} => FirstStep(r) = "dims"
      /\ FirstStep(r) = "aim" => r.op = "shot"
  BY <1>3, FirstStepIsAPlace
<1>8a. Pc(c)' \notin {"wait", "run"}
  BY <1>7, <1>8
<1>9. c \in Active'
  BY <1>7, <1>8 DEF Active, Pc
<1>10. sure \in BOOLEAN /\ mixed \in BOOLEAN /\ Turning(r) \in BOOLEAN
  BY DEF IInv, TypeOK, Turning
<1>11. Knows(c)' /\ SureLands(c)'
  <2>1. Remembers(c)'
    <3>1. /\ {"request", "pc", "calm", "sure", "dims"} \subseteq DOMAIN call'[c]
          /\ "verb" \notin DOMAIN call'[c]
          /\ call'[c].request = r /\ call'[c].sure \in BOOLEAN
      <4>1. (sure /\ ~Turning(r)) \in BOOLEAN
        BY <1>10
      <4>2. new["sure"] \in BOOLEAN
        BY <1>4, <4>1, Zenon
      <4>3. DOMAIN call'[c] = {"request", "pc", "calm", "sure", "dims"} /\ call'[c]["request"] = r
        BY <1>4, <1>5
      <4>4. call'[c]["sure"] \in BOOLEAN
        BY <1>5, <4>2
      <4> QED
        BY <4>3, <4>4
    <3>2. Pc(c)' \notin {"wait", "run", "rootRead", "screenRead", "probe", "detected"}
      BY <1>7, <1>8
    <3> QED
      BY <1>3, <1>7, <1>8, <3>1, <3>2 DEF Remembers
  <2>2. Measured(c)'
    BY <1>4, <1>5, <1>7, <1>8 DEF Measured
  <2>3. Aimed(c)' /\ SureLands(c)'
    BY <1>7, <1>8 DEF Aimed, AimedTap, AimedSwipe, SureLands, Delivering
  <2> QED
    BY <2>1, <2>2, <2>3 DEF Knows
<1>12. \A d \in Active :
         /\ Stays(d) /\ "pc" \in DOMAIN call'[d]
         /\ call'[d]["sure"] = (call[d].sure /\ ~Turning(r))
  <2> SUFFICES ASSUME NEW d \in Active
               PROVE  /\ Stays(d) /\ "pc" \in DOMAIN call'[d]
                      /\ call'[d]["sure"] = (call[d].sure /\ ~Turning(r))
    OBVIOUS
  <2> DEFINE news == [sure |-> call[d].sure /\ ~Turning(r)]
  <2>1. DOMAIN news = {"sure"} /\ news["sure"] = (call[d].sure /\ ~Turning(r))
    OBVIOUS
  <2>2. call'[d] = Updated(call[d], news)
    BY <1>5
  <2> HIDE DEF news
  <2>3. /\ DOMAIN Updated(call[d], news) = DOMAIN call[d] \cup DOMAIN news
        /\ \A f \in DOMAIN news : Updated(call[d], news)[f] = news[f]
        /\ \A f \in DOMAIN call[d] \ DOMAIN news : Updated(call[d], news)[f] = call[d][f]
    BY UpdatedIs
  <2>4. {"pc", "sure"} \subseteq DOMAIN call[d] /\ call[d].sure \in BOOLEAN
    BY ActiveCall
  <2>5. /\ DOMAIN call'[d] = DOMAIN call[d] /\ "pc" \in DOMAIN call'[d]
        /\ \A f \in DOMAIN call[d] \ {"sure"} : call'[d][f] = call[d][f]
        /\ call'[d]["sure"] = (call[d].sure /\ ~Turning(r))
    BY <2>1, <2>2, <2>3, <2>4
  <2> QED
    BY <1>1, <1>2, <1>10, <2>4, <2>5 DEF Stays
<1>13. \A d \in Calls \ (Active \cup {c}) :
         /\ Pc(d)' = Pc(d) /\ "pc" \in DOMAIN call'[d]
         /\ call'[d] = call[d] \/ "sure" \notin DOMAIN call'[d]
  BY <1>5, PastIs DEF IInv, Pc
<1>14. \A d \in Calls : "pc" \in DOMAIN call'[d]
  BY <1>4, <1>5, <1>12, <1>13
<1>15. \A d \in Active : Pc(d)' = Pc(d) /\ Asked(d)' = Asked(d)
  <2>1. \A d \in Active : {"request", "pc"} \subseteq DOMAIN call[d]
    BY ActiveCall
  <2> QED
    BY <1>12, <2>1 DEF Stays, Pc, Asked
<1>16. Active' = Active \cup {c}
  BY <1>9, <1>13, <1>15 DEF Active, Pc
<1>17. DetectionsAreAlone'
  <2> SUFFICES ASSUME ~mixed', NEW d \in Active', Turning(Asked(d)')
               PROVE  Active' = {d} /\ (Pc(d)' \in Detecting \ {"clear"} => dims' = None)
    BY DEF DetectionsAreAlone
  <2>1. d = c
    BY <1>1, <1>15, <1>16
  <2>2. Active = {}
    BY <1>1, <1>7, <2>1
  <2> QED
    BY <1>7, <1>8, <1>16, <2>1, <2>2 DEF Detecting
<1>18. SureIsRight'
  <2>1. sure' => ~Turning(r) /\ \A d \in Active : ~Turning(Asked(d))
    BY <1>1 DEF IInv, SureIsRight
  <2>2. \A d \in Active : call'[d]["sure"] => sure'
    BY <1>1, <1>12, ActiveCall
  <2>3. sure' => hint' = device'.orientation /\ dims' \in {None, LogicalScreen(device)'}
    BY <1>1, <1>2 DEF IInv, SureIsRight, local
  <2>4. call'[c]["sure"] => sure'
    BY <1>1, <1>4, <1>5
  <2> QED
    BY <1>7, <1>15, <1>16, <2>1, <2>2, <2>3, <2>4 DEF SureIsRight
<1>19. ChainIInv' /\ status' = status
  BY <1>2 DEF IInv, ChainIInv, ChainTypeOK, ChainInv, chainVars
<1>20. /\ device'.orientation \in Orientations /\ device'.screen \in Screens
       /\ {"orientation", "screen"} \subseteq DOMAIN device'
       /\ hint' \in Hints /\ dims' \in Sizes \cup {None}
       /\ sure' \in BOOLEAN /\ mixed' \in BOOLEAN
  BY <1>1, <1>2 DEF IInv, TypeOK, local
<1> QED
  BY <1>5, <1>6, <1>8a, <1>11, <1>12, <1>13, <1>14, <1>17, <1>18, <1>19, <1>20, AllMoveOn

--------------------------------------------------------------------------------
(***************************************************************************)
(* The theorems of a handle.                                                *)
(***************************************************************************)
LEMMA InitIInv == Init => IInv
<1> SUFFICES ASSUME Init PROVE IInv
  OBVIOUS
<1>1. ChainIInv /\ status = [t \in Tickets |-> "none"]
  BY ChainInitIInv DEF Init, ChainInit
<1>2. /\ device.orientation \in Orientations /\ device.screen \in Screens
      /\ {"orientation", "screen"} \subseteq DOMAIN device
  BY DeviceAssumption DEF Init
<1>3. DOMAIN call = Calls /\ \A c \in Calls : Pc(c) = "idle" /\ "pc" \in DOMAIN call[c]
  BY DEF Init, Idle, Pc
<1>4. TypeOK
  BY <1>1, <1>2, <1>3 DEF Init, TypeOK, Hints
<1>5. Active = {}
  BY <1>3 DEF Active, Pc
<1>6. TurnsAreOwn /\ DetectionsAreAlone /\ SureIsRight
  BY <1>5 DEF Init, TurnsAreOwn, DetectionsAreAlone, SureIsRight
<1>7. \A c \in Calls : Remembers(c) /\ Measured(c) /\ Aimed(c)
  BY <1>5 DEF Remembers, Measured, Aimed
<1>8. SureGesturesLand
  BY <1>3 DEF SureGesturesLand
<1> QED
  BY <1>1, <1>2, <1>3, <1>4, <1>6, <1>7, <1>8 DEF IInv

LEMMA CallStep ==
  ASSUME IInv, NEW c \in Calls,
         Begin(c) \/ Reading(c) \/ Turns(c) \/ Delivery(c) \/ Failure(c)
  PROVE  IInv'
<1>1. CASE Begin(c)
  BY <1>1, BeginStep
<1>2. CASE Reading(c)
  BY <1>2, DimsFromCacheStep, RootFrameStep, RootFrameArrivesStep, AimStep, ScreenStep,
     ScreenArrivesStep, PointStep, LookupStep, HitTestStep, TypingStep, CaptureStep
     DEF Reading
<1>3. CASE Turns(c)
  BY <1>3, RotateStep, ClearDimsStep, ProbeTreeStep, ProbeStep, NoteDetectedStep DEF Turns
<1>4. CASE Delivery(c)
  BY <1>4, QueueStep, RunStep, ActivateStep, DeliverStep, AcknowledgeStep DEF Delivery
<1>5. CASE Failure(c)
  BY <1>5, RootFrameFailsStep, ScreenStep, RotateFailsStep, CutStep DEF Failure
<1> QED
  BY <1>1, <1>2, <1>3, <1>4, <1>5

LEMMA NextIInv == IInv /\ [Next]_vars => IInv'
<1> SUFFICES ASSUME IInv, [Next]_vars PROVE IInv'
  OBVIOUS
<1>1. CASE \E c \in Calls : Begin(c) \/ Reading(c) \/ Turns(c) \/ Delivery(c) \/ Failure(c)
  BY <1>1, CallStep
<1>2. CASE UNCHANGED vars \/ \E t \in Tickets : ForgetTail(t)
  BY <1>2, RestStep
<1>3. CASE Turn
  BY <1>3, TurnStep
<1>4. CASE Change
  BY <1>4, ChangeStep
<1> QED
  BY <1>1, <1>2, <1>3, <1>4 DEF Next, AllDone

\* What the handle believes, what each call has read and what it has made of it hang
\* together in every state, whoever turns the device and whatever fails.
THEOREM InductiveInvariant == Spec => []IInv
  BY InitIInv, NextIInv, PTL DEF Spec

\* The fn that the chain runs is that of the one call that is delivering: nobody holds
\* the lock of a simulator who will not let go of it, and no event of a call's stream
\* is sent between two of another's.
THEOREM LockHolderDelivers == Spec => []TypeOK
<1>1. IInv => TypeOK
  BY DEF IInv
<1> QED
  BY <1>1, InductiveInvariant, PTL

\* Once a detection has found the device, every tap and swipe lands where its caller
\* sees it, and every screenshot is upright, until the device is turned again: for
\* every screen, number of calls and interleaving of them.
THEOREM SureGesturesAlwaysLand == Spec => []SureGesturesLand
<1>1. IInv => SureGesturesLand
  BY DEF IInv
<1> QED
  BY <1>1, InductiveInvariant, PTL

\* Input is delivered one call at a time, in the order in which the calls reached the
\* lock, whatever becomes of their streams.
THEOREM DeliveryIsFifo == Spec => ImplementsFifoLock
<1>1. Init => Lock!Init
  BY DEF Init, Tickets, ChainInit, Lock!Init, Lock!Tickets
<1>2. IInv /\ [Next]_vars => [ChainNext]_chainVars
  <2> SUFFICES ASSUME IInv, [Next]_vars PROVE [ChainNext]_chainVars
    OBVIOUS
  <2>1. ASSUME NEW c \in Calls, Pc(c) \in {"wait", "run"}
        PROVE  call[c].ticket \in Tickets
    BY <2>1, Underway, ActiveCall DEF Remembers
  <2>2. ASSUME NEW c \in Calls, Delivery(c) \/ Cut(c) PROVE [ChainNext]_chainVars
    BY <2>1, <2>2 DEF Delivery, Queue, Run, Activate, Deliver, Acknowledge, Cut, ChainNext
  <2>3. ASSUME NEW c \in Calls, Begin(c) \/ Reading(c) \/ Turns(c) PROVE UNCHANGED chainVars
    BY <2>3 DEF Begin, Reading, DimsFromCache, AskRootFrame, RootFrameServed, RootFrameArrives,
         Aim, ScreenServed, ScreenArrives, ReadPoint, LocatePoint, FindByLabel, FindById,
         FindInTree, HitTest, ReadBack, RefuseText, SecureFieldGate, PasswordSheetGate, Capture,
         Turns, Rotate, ClearDims, ProbeTree, Probe, NoteDetected, OnlyCalls, Fails
  <2>4. ASSUME NEW c \in Calls, RootFrameFails(c) \/ ReadFails(c) \/ RotateFails(c)
        PROVE  UNCHANGED chainVars
    BY <2>4 DEF RootFrameFails, ReadFails, RotateFails, Fails
  <2>5. ASSUME NEW t \in Tickets, ForgetTail(t) PROVE [ChainNext]_chainVars
    BY <2>5 DEF ForgetTail, ChainNext
  <2>6. CASE Turn \/ Change \/ UNCHANGED vars
    BY <2>6 DEF Turn, Change, vars
  <2> QED
    BY <2>2, <2>3, <2>4, <2>5, <2>6 DEF Next, AllDone, Failure
<1>3. IInv /\ [Next]_vars => [Lock!Next]_(Lock!vars)
  BY <1>2, ChainStepRefines DEF IInv
<1> QED
  BY <1>1, <1>3, InductiveInvariant, PTL DEF Spec, ImplementsFifoLock, Lock!Spec

--------------------------------------------------------------------------------
(***************************************************************************)
(* Numbers: a set of them has a least one, and a bounded one a greatest.    *)
(***************************************************************************)
LessOn == {r \in Nat \X Nat : r[1] < r[2]}

LEMMA LessIsWellFounded == IsWellFoundedOn(LessOn, Nat)
<1>1. OpToRel(<, Nat) = LessOn
  BY Zenon DEF OpToRel, LessOn
<1> QED
  BY <1>1, NatLessThanWellFounded

LEMMA LeastExists ==
  ASSUME NEW T \in SUBSET Nat, T # {}
  PROVE  \E x \in T : \A y \in T : x <= y
<1>1. \E x \in T : \A y \in T : <<y, x>> \notin LessOn
  BY LessIsWellFounded, WFMin
<1>2. \A x, y \in Nat : <<y, x>> \notin LessOn <=> x <= y
  BY DEF LessOn
<1> QED
  BY <1>1, <1>2

LEMMA GreatestExists ==
  ASSUME NEW n \in Nat, NEW T \in SUBSET (0 .. n), T # {}
  PROVE  \E x \in T : \A y \in T : y <= x
<1> DEFINE U == {n - x : x \in T}
<1>0. \A x \in T : x \in 0 .. n
  OBVIOUS
<1>1. U \in SUBSET Nat /\ U # {}
  <2>1. \A x \in T : n - x \in Nat
    BY <1>0
  <2> QED
    BY <2>1
<1>2. PICK u \in U : \A v \in U : u <= v
  BY <1>1, LeastExists
<1>3. PICK x \in T : u = n - x
  BY <1>2
<1>4. \A y \in T : n - x <= n - y
  BY <1>2, <1>3
<1> QED
  BY <1>0, <1>4

LEMMA LeastOfIsOne ==
  ASSUME NEW T \in SUBSET Nat, T # {}
  PROVE  LeastOf(T) \in T /\ \A y \in T : LeastOf(T) <= y
  BY LeastExists DEF LeastOf

\* InOrder counts a set of indices up: its members, each once, from the least on.
LEMMA InOrderCounts ==
  ASSUME NEW n \in Nat, NEW S \in SUBSET (1 .. n)
  PROVE  /\ IsFiniteSet(S) /\ Cardinality(S) \in Nat
         /\ \A i \in S : Rank(S, i) \in 1 .. Cardinality(S)
         /\ \A i, j \in S : i < j => Rank(S, i) < Rank(S, j)
         /\ \A k \in 1 .. Cardinality(S) :
              InOrder(S)[k] \in S /\ Rank(S, InOrder(S)[k]) = k
<1> DEFINE Upto(i) == {j \in S : j <= i}
<1>0. S \in SUBSET Nat /\ S \in SUBSET (0 .. n) /\ \A i \in S : i \in Nat
  OBVIOUS
<1>1. IsFiniteSet(S) /\ Cardinality(S) \in Nat
  <2>1. IsFiniteSet(1 .. n)
    BY FS_Interval
  <2> QED
    BY <2>1, FS_Subset, FS_CardinalityType
<1>2. \A i : Rank(S, i) = Cardinality(Upto(i))
  BY DEF Rank
<1>3. ASSUME NEW i
      PROVE  /\ IsFiniteSet(Upto(i)) /\ Cardinality(Upto(i)) \in Nat
             /\ Cardinality(Upto(i)) <= Cardinality(S)
  <2>1. Upto(i) \in SUBSET S
    OBVIOUS
  <2> HIDE DEF Upto
  <2> QED
    BY <1>1, <2>1, FS_Subset, FS_CardinalityType
<1>4. \A i \in S : Cardinality(Upto(i)) # 0
  <2>1. \A i \in S : i \in Upto(i)
    OBVIOUS
  <2> HIDE DEF Upto
  <2> QED
    BY <1>3, <2>1, FS_EmptySet
<1>5. ASSUME NEW i \in S, NEW j \in S, i < j
      PROVE  Cardinality(Upto(i)) < Cardinality(Upto(j))
  <2>1. Upto(i) \in SUBSET Upto(j) /\ j \in Upto(j) /\ j \notin Upto(i)
    <3>1. i \in Nat /\ j \in Nat
      BY <1>0, <1>5
    <3>2. \A x \in S : x <= i => x <= j
      BY <1>0, <1>5, <3>1
    <3>3. j <= j /\ ~(j <= i)
      BY <1>5, <3>1
    <3> QED
      BY <3>2, <3>3
  <2> HIDE DEF Upto
  <2> QED
    BY <1>3, <2>1, FS_Subset
<1>6. ASSUME NEW k \in 1 .. Cardinality(S)
      PROVE  \E i \in S : Rank(S, i) = k
  <2> DEFINE T == {i \in S : Cardinality(Upto(i)) >= k}
  <2>1. T # {}
    <3>1. S # {}
      BY <1>1, FS_EmptySet
    <3>2. PICK m \in S : \A y \in S : y <= m
      BY <1>0, <3>1, GreatestExists
    <3>3. Upto(m) = S
      BY <3>2
    <3>4. Cardinality(Upto(m)) >= k
      BY <1>1, <3>3
    <3> QED
      BY <3>4
  <2>2. PICK i \in T : \A j \in T : i <= j
    <3>1. T \in SUBSET Nat
      BY <1>0
    <3> HIDE DEF T
    <3> QED
      BY <2>1, <3>1, LeastExists
  <2>3. i \in S /\ Cardinality(Upto(i)) >= k
    BY <2>2
  <2> DEFINE Below == {j \in S : j < i}
  <2>4. Upto(i) = Below \cup {i} /\ i \notin Below /\ Below \in SUBSET S
    <3>1. i \in Nat /\ ~(i < i) /\ i <= i
      BY <1>0, <2>3
    <3>2. \A x \in S : x <= i <=> x < i \/ x = i
      BY <1>0, <3>1
    <3> QED
      BY <2>3, <3>1, <3>2
  <2>5. IsFiniteSet(Below) /\ Cardinality(Below) \in Nat
        /\ Cardinality(Upto(i)) = Cardinality(Below) + 1
    <3> HIDE DEF Below, Upto
    <3> QED
      BY <1>1, <2>4, FS_Subset, FS_AddElement, FS_CardinalityType
  <2>6. Cardinality(Below) < k
    <3>1. CASE Below = {}
      BY <3>1, FS_EmptySet
    <3>2. CASE Below # {}
      <4>0. Below \in SUBSET (0 .. n)
        BY <1>0
      <4>1. PICK m \in Below : \A y \in Below : y <= m
        <5> HIDE DEF Below
        <5> QED
          BY <3>2, <4>0, GreatestExists
      <4>2. m \in S /\ m < i /\ Upto(m) = Below
        <5>1. m \in S /\ m < i /\ i \in Nat /\ m \in Nat
          BY <1>0, <2>3, <4>1
        <5>2. \A x \in S : x <= m <=> x < i
          BY <1>0, <4>1, <5>1
        <5> QED
          BY <5>1, <5>2
      <4>3. m \notin T
        BY <2>2, <2>3, <4>2
      <4>4. ~(Cardinality(Upto(m)) >= k)
        BY <4>2, <4>3
      <4> QED
        BY <1>1, <2>5, <4>2, <4>4
    <3> QED
      BY <3>1, <3>2
  <2>7. Cardinality(Upto(i)) = k
    BY <1>1, <2>3, <2>5, <2>6
  <2> QED
    BY <1>2, <2>3, <2>7
<1>7. ASSUME NEW k \in 1 .. Cardinality(S)
      PROVE  InOrder(S)[k] \in S /\ Rank(S, InOrder(S)[k]) = k
  <2>1. InOrder(S)[k] = CHOOSE i \in S : Rank(S, i) = k
    BY DEF InOrder
  <2> QED
    BY <1>6, <2>1
<1>8. \A i \in S : Rank(S, i) \in 1 .. Cardinality(S)
  <2> HIDE DEF Upto
  <2> QED
    BY <1>1, <1>2, <1>3, <1>4
<1>9. \A i, j \in S : i < j => Rank(S, i) < Rank(S, j)
  BY <1>2, <1>5
<1> QED
  BY <1>1, <1>7, <1>8, <1>9

--------------------------------------------------------------------------------
(***************************************************************************)
(* What the companion serves is elements of the app.                        *)
(***************************************************************************)
ShownNode(node) == {"id", "key"} \subseteq DOMAIN node /\ IsShown(node)

\* A sequence of elements of the app.
Shows(tree) ==
  \E n \in Nat : Nodes(tree) = 1 .. n /\ \A i \in Nodes(tree) : ShownNode(tree[i])

LEMMA BridgeTreeIs ==
  ASSUME NEW v \in Views
  PROVE  /\ Shows(BridgeTrees[v])
         /\ \A i \in Nodes(BridgeTrees[v]) :
              IsToggle(BridgeTrees[v][i]) => BridgeTrees[v][i].key \in Toggles
<1> DEFINE tree == ScreenTree(v.screen, v.on)
           laid == BridgeTrees[v]
<1>1. v.screen \in Screens /\ v.on \in SUBSET Toggles
  BY DEF Views
<1>2. /\ tree \in Seq(Elements)
      /\ \A i \in Nodes(tree) : IsToggle(tree[i]) => tree[i].key \in Toggles
  BY <1>1, TreesAssumption
<1>3. /\ Len(tree) \in Nat /\ Nodes(tree) = 1 .. Len(tree)
      /\ \A i \in Nodes(tree) : tree[i] \in Elements
  BY <1>2 DEF Nodes
<1>4. laid = Laid(tree, v.orientation)
  BY DEF BridgeTrees
<1>5. \A i \in Nodes(tree) : tree[i] \in Shown
  BY <1>1 DEF Shown
<1> HIDE DEF tree, laid
<1>6. /\ Nodes(laid) = Nodes(tree)
      /\ \A i \in Nodes(tree) : /\ {"id", "key"} \subseteq DOMAIN laid[i]
                                /\ laid[i].id = tree[i].id /\ laid[i].key = tree[i].key
                                /\ laid[i].type = tree[i].type /\ laid[i].value = tree[i].value
  BY <1>3, <1>4 DEF Laid, Elements, Nodes
<1> QED
  BY <1>2, <1>3, <1>5, <1>6 DEF Shows, ShownNode, IsShown, IsToggle, laid

LEMMA ByDefaultShows ==
  ASSUME NEW node, ShownNode(node)
  PROVE  ShownNode(ByDefault(node))
  BY DEF ShownNode, IsShown, ByDefault

LEMMA CanonicaliseShows ==
  ASSUME NEW node, ShownNode(node)
  PROVE  /\ ShownNode(Canonicalise(node)) /\ Canonicalise(node).id = node.id
         /\ ShownNode(Reconciled(node)) /\ Reconciled(node).id = node.id
  BY DEF ShownNode, IsShown, Canonicalise, Reconciled

\* Some of a tree's elements, in order, as f has made of them.
LEMMA SelectionShows ==
  ASSUME NEW tree, Shows(tree), NEW S \in SUBSET Nodes(tree), NEW chosen,
         DOMAIN chosen = DOMAIN InOrder(S),
         \A k \in DOMAIN InOrder(S) :
           ShownNode(tree[InOrder(S)[k]]) => ShownNode(chosen[k])
  PROVE  Shows(chosen)
<1>1. PICK n \in Nat : Nodes(tree) = 1 .. n /\ \A i \in Nodes(tree) : ShownNode(tree[i])
  BY DEF Shows
<1>2. /\ Cardinality(S) \in Nat
      /\ \A k \in 1 .. Cardinality(S) : InOrder(S)[k] \in S
  BY <1>1, InOrderCounts
<1>3. DOMAIN InOrder(S) = 1 .. Cardinality(S)
  BY DEF InOrder
<1> QED
  BY <1>1, <1>2, <1>3 DEF Shows, Nodes

LEMMA DefaultTreeIs ==
  ASSUME NEW v \in Views
  PROVE  Shows(DefaultTrees[v])
<1> DEFINE tree == BridgeTrees[v]
           S == {i \in Nodes(tree) : ~tree[i].bridge}
<1>1. Shows(tree) /\ S \in SUBSET Nodes(tree)
  BY BridgeTreeIs
<1>2. DefaultTrees[v] = [k \in DOMAIN InOrder(S) |-> ByDefault(tree[InOrder(S)[k]])]
  BY DEF DefaultTrees
<1> HIDE DEF tree, S
<1> QED
  BY <1>1, <1>2, ByDefaultShows, SelectionShows

LEMMA ReadTreeIs ==
  ASSUME NEW v \in Views
  PROVE  Shows(ReadTrees[v])
<1> DEFINE tree == BridgeTrees[v]
           moved == TranslateRemoteSubtrees(tree)
           S == Kept(moved)
           pruned == PruneTree(moved)
<1>1. PICK n \in Nat : Nodes(tree) = 1 .. n /\ \A i \in Nodes(tree) : ShownNode(tree[i])
  BY BridgeTreeIs DEF Shows
<1>2. /\ Nodes(moved) = Nodes(tree)
      /\ \A i \in Nodes(tree) : \/ moved[i] = tree[i]
                                \/ \E f : moved[i] = [tree[i] EXCEPT !.frame = f]
  BY DEF TranslateRemoteSubtrees, Nodes
<1>3. \A node, f : ShownNode(node) => ShownNode([node EXCEPT !.frame = f])
  BY DEF ShownNode, IsShown
<1>4. Shows(moved)
  <2>1. ASSUME NEW i \in Nodes(tree) PROVE ShownNode(moved[i])
    <3>1. CASE moved[i] = tree[i]
      BY <1>1, <3>1
    <3>2. CASE \E f : moved[i] = [tree[i] EXCEPT !.frame = f]
      <4>1. PICK f : moved[i] = [tree[i] EXCEPT !.frame = f]
        BY <3>2
      <4>2. ShownNode([tree[i] EXCEPT !.frame = f])
        BY <1>1, <1>3
      <4> QED
        BY <4>1, <4>2
    <3> QED
      BY <1>2, <3>1, <3>2
  <2> QED
    BY <1>1, <1>2, <2>1 DEF Shows
<1>5. S \in SUBSET Nodes(moved)
  BY DEF Kept
<1>6. /\ DOMAIN pruned = DOMAIN InOrder(S)
      /\ \A k \in DOMAIN InOrder(S) :
           \E up : pruned[k] = [Canonicalise(moved[InOrder(S)[k]]) EXCEPT !.parent = up]
  BY DEF PruneTree
<1>7. \A node, up : ShownNode(node) => ShownNode([Canonicalise(node) EXCEPT !.parent = up])
  BY DEF ShownNode, IsShown, Canonicalise
<1>8. ReadTrees[v] = pruned
  BY DEF ReadTrees
<1> HIDE DEF tree, moved, S, pruned
<1>9. \A k \in DOMAIN InOrder(S) : ShownNode(moved[InOrder(S)[k]]) => ShownNode(pruned[k])
  BY <1>6, <1>7
<1> QED
  BY <1>4, <1>5, <1>6, <1>8, <1>9, SelectionShows

--------------------------------------------------------------------------------
(***************************************************************************)
(* Lookup finds elements of the tree it looks in.                           *)
(***************************************************************************)
\* An identifier finds the element that has it, exactly.
LEMMA FindByMarkerIs ==
  ASSUME NEW tree, Shows(tree), NEW marker, NEW key \in {"label", "id"},
         NEW found, found = FindByMarker(tree, marker, key)
  PROVE  found = None \/ (ShownNode(found) /\ (key = "id" => found.id = marker))
<1> DEFINE hits == {i \in Nodes(tree) : Includes(tree[i][key], marker) /\ tree[i][key] # <<>>}
           first == Marked(tree, marker, key)
<1>1. PICK n \in Nat : Nodes(tree) = 1 .. n /\ \A i \in Nodes(tree) : ShownNode(tree[i])
  BY DEF Shows
<1>2. first = IF hits = {} THEN None ELSE tree[LeastOf(hits)]
  BY DEF Marked
<1>3. hits \in SUBSET Nat /\ hits \subseteq Nodes(tree)
  BY <1>1
<1> HIDE DEF hits, first
<1>4. first = None \/ ShownNode(first)
  BY <1>1, <1>2, <1>3, LeastOfIsOne
<1>5. found = IF first = None \/ (key = "id" /\ first.id # marker) THEN None ELSE Reconciled(first)
  BY DEF FindByMarker, first
<1> QED
  BY <1>4, <1>5, CanonicaliseShows

LEMMA MatchIsInTree ==
  ASSUME NEW tree, NEW n \in Nat, Nodes(tree) = 1 .. n, NEW needle
  PROVE  MatchInTree(tree, needle) \in 0 .. n
<1>1. ASSUME NEW hits \in SUBSET (1 .. n), hits # {}
      PROVE  LeastOf(hits) \in 1 .. n
  <2>1. hits \in SUBSET Nat
    OBVIOUS
  <2> QED
    BY <1>1, <2>1, LeastOfIsOne
<1>2. ASSUME NEW hits \in SUBSET (1 .. n), hits # {}
      PROVE  Best(tree, hits, needle) \in 1 .. n
  <2> DEFINE points == {Score(tree[i], needle) : i \in hits}
             best == {i \in hits : \A j \in hits : Score(tree[j], needle) <= Score(tree[i], needle)}
  <2>1. points \in SUBSET (0 .. 3) /\ points # {}
    <3>1. \A i : Score(tree[i], needle) \in 0 .. 3
      BY DEF Score
    <3> QED
      BY <1>2, <3>1
  <2>2. PICK p \in points : \A q \in points : q <= p
    <3> HIDE DEF points
    <3> QED
      BY <2>1, GreatestExists
  <2>3. best # {} /\ best \in SUBSET (1 .. n)
    BY <2>2
  <2>4. Best(tree, hits, needle) = LeastOf(best)
    BY DEF Best
  <2> HIDE DEF best
  <2> QED
    BY <1>1, <2>3, <2>4
<1>3. /\ LabelHits(tree, needle) \in SUBSET (1 .. n)
      /\ ValueHits(tree, needle) \in SUBSET (1 .. n)
      /\ IdHits(tree, needle) \in SUBSET (1 .. n)
  BY DEF LabelHits, ValueHits, IdHits
<1> QED
  BY <1>1, <1>2, <1>3 DEF MatchInTree

\* What is drawn on top at a point is an element, or nothing.
LEMMA TopmostIs ==
  ASSUME NEW d, View(d) \in Views, NEW p
  PROVE  TopmostAt(d, p) = 0 \/ TopmostAt(d, p) \in Nodes(BridgeTree(d))
<1> DEFINE under == {i \in Nodes(BridgeTree(d)) : FrameContains(BridgeTree(d)[i].place, p)}
<1>1. PICK n \in Nat : Nodes(BridgeTree(d)) = 1 .. n
  BY BridgeTreeIs DEF Shows, BridgeTree
<1>2. under \in SUBSET (0 .. n) /\ under \subseteq Nodes(BridgeTree(d))
  BY <1>1
<1>3. TopmostAt(d, p) = IF under = {} THEN 0 ELSE CHOOSE i \in under : \A j \in under : j <= i
  BY DEF TopmostAt
<1> HIDE DEF under
<1> QED
  BY <1>2, <1>3, GreatestExists

--------------------------------------------------------------------------------
(***************************************************************************)
(* What a step of one call leaves of the others.                            *)
(***************************************************************************)
\* A call that is another's bystander learns at most that it was disturbed, or is
\* forgotten once it is done.
Bystands(d) ==
  \/ call'[d] = call[d]
  \/ Pc(d) = "done" /\ call'[d] = Past(d)
  \/ /\ d \in Active /\ DOMAIN call'[d] = DOMAIN call[d]
     /\ \A f \in DOMAIN call[d] \ {"calm", "sure"} : call'[d][f] = call[d][f]

\* The call goes on, or answers, and what it learns is neither what it was asked for
\* nor how it ends.
Learnt(memory) ==
  DOMAIN memory \cap {"request", "pc", "calm", "outcome", "screen", "orientation"} = {}

Moves(c) ==
  \/ \E pc, memory : pc \notin {"idle", "done"} /\ Goes(c, pc, memory) /\ Learnt(memory)
  \/ \E outcome, memory : Answers(c, outcome, memory) /\ Learnt(memory)

LEMMA AllLearnt ==
  /\ Learnt(<< >>)
  /\ \A x : /\ Learnt([dims |-> x]) /\ Learnt([sure |-> x]) /\ Learnt([by |-> x])
            /\ Learnt([target |-> x]) /\ Learnt([answer |-> x]) /\ Learnt([verb |-> x])
            /\ Learnt([hit |-> x]) /\ Learnt([ticket |-> x]) /\ Learnt([events |-> x])
  /\ \A x, y : Learnt([points |-> x, by |-> y]) /\ Learnt([tried |-> x, matches |-> y])
  BY DEF Learnt

LEMMA ReadingMoves ==
  ASSUME IInv, NEW c \in Calls, Reading(c) \/ RootFrameFails(c) \/ ReadFails(c) \/ RotateFails(c)
  PROVE  Moves(c)
<1>1. CASE \/ DimsFromCache(c) \/ AskRootFrame(c) \/ RootFrameServed(c) \/ RootFrameArrives(c)
           \/ ScreenServed(c) \/ ScreenArrives(c) \/ ReadPoint(c) \/ LocatePoint(c)
           \/ HitTest(c) \/ ReadBack(c)
           \/ RefuseText(c) \/ SecureFieldGate(c) \/ PasswordSheetGate(c) \/ Capture(c)
           \/ RootFrameFails(c) \/ ReadFails(c) \/ RotateFails(c)
  <2>1. \/ \E pc : /\ pc \notin {"idle", "done"}
                  /\ \/ Goes(c, pc, << >>)
                     \/ \E x : Goes(c, pc, [dims |-> x]) \/ Goes(c, pc, [sure |-> x])
                              \/ Goes(c, pc, [target |-> x])
        \/ \E outcome : \/ Answers(c, outcome, << >>)
                       \/ \E x : Answers(c, outcome, [answer |-> x])
    BY <1>1 DEF DimsFromCache, AskRootFrame, RootFrameServed, RootFrameArrives, ScreenServed,
         ScreenArrives, ReadPoint, LocatePoint, HitTest, ReadBack, RefuseText, SecureFieldGate,
         PasswordSheetGate, Capture, RootFrameFails, ReadFails, RotateFails
  <2> QED
    BY <2>1, AllLearnt, Zenon DEF Moves
<1>2. CASE Aim(c)
  <2>1. Asked(c).op \in {"tap", "swipe", "point", "named", "shot"}
    BY <1>2, Underway, PlaceTellsOp DEF Aim, Aiming
  <2>2. \E pc : /\ pc \notin {"idle", "done"}
               /\ \E y : Goes(c, pc, [by |-> y]) \/ \E x : Goes(c, pc, [points |-> x, by |-> y])
    BY <1>2, <2>1 DEF Aim
  <2> QED
    BY <2>2, AllLearnt, Zenon DEF Moves
<1>3. CASE FindByLabel(c) \/ FindById(c) \/ FindInTree(c)
  <2>1. \/ \E element : Found(c, element)
        \/ Goes(c, "byId", << >>) \/ Goes(c, "inTree", << >>)
    BY <1>3 DEF FindByLabel, FindById, FindInTree
  <2>2. \A memory : DOMAIN memory \subseteq {"target", "verb", "answer"} => Learnt(memory)
    BY DEF Learnt
  <2> QED
    BY <2>1, <2>2, AllLearnt, FoundIsNamedStep DEF Moves
<1> QED
  BY <1>1, <1>2, <1>3 DEF Reading

LEMMA TurningMoves ==
  ASSUME NEW c \in Calls, ClearDims(c) \/ ProbeTree(c) \/ Probe(c) \/ NoteDetected(c)
  PROVE  Moves(c)
<1>1. \/ \E pc, x, y :
           /\ pc \notin {"idle", "done"}
           /\ \/ Goes(c, pc, << >>) \/ Goes(c, pc, [answer |-> x])
              \/ Goes(c, pc, [tried |-> x, matches |-> y])
              \/ Goes(c, pc, Updated(NoProbe, [probes |-> x]))
              \/ Goes(c, pc, Updated(NoProbe, [dims |-> x, probes |-> y]))
      \/ Answers(c, "ok", << >>)
  BY DEF ClearDims, ProbeTree, Probe, NoteDetected, Tried, Detects
<1>2. DOMAIN NoProbe = {"tried", "matches"}
  BY DEF NoProbe
<1>3. \A x, y : /\ Learnt(Updated(NoProbe, [probes |-> x]))
               /\ Learnt(Updated(NoProbe, [dims |-> x, probes |-> y]))
  <2> TAKE x, y
  <2> DEFINE one == [probes |-> x]
             two == [dims |-> x, probes |-> y]
  <2>1. DOMAIN one = {"probes"} /\ DOMAIN two = {"dims", "probes"}
    OBVIOUS
  <2> HIDE DEF one, two
  <2>2. Learnt(Updated(NoProbe, one)) /\ Learnt(Updated(NoProbe, two))
    <3>1. DOMAIN Updated(NoProbe, one) = DOMAIN NoProbe \cup DOMAIN one
      BY UpdatedIs
    <3>2. DOMAIN Updated(NoProbe, two) = DOMAIN NoProbe \cup DOMAIN two
      BY UpdatedIs
    <3> QED
      BY <1>2, <2>1, <3>1, <3>2 DEF Learnt
  <2> QED
    BY <2>2 DEF one, two
<1> QED
  BY <1>1, <1>3, AllLearnt, Zenon DEF Moves

LEMMA DeliveryMoves ==
  ASSUME NEW c \in Calls, Delivery(c) \/ Cut(c)
  PROVE  Moves(c)
<1>1. CASE Deliver(c)
  <2> DEFINE rest == [events |-> Tail(call[c].events)]
             memory == Updated(Lands(Head(call[c].events)), rest)
  <2>1. Goes(c, "run", memory)
    BY <1>1 DEF Deliver
  <2>2. DOMAIN memory = DOMAIN Lands(Head(call[c].events)) \cup {"events"}
    <3>1. DOMAIN rest = {"events"}
      OBVIOUS
    <3> HIDE DEF rest
    <3> QED
      BY <3>1, UpdatedIs
  <2> HIDE DEF memory
  <2>3. Learnt(memory)
    BY <2>2, LandsTells DEF Learnt
  <2> QED
    BY <2>1, <2>3 DEF Moves
<1>2. CASE Queue(c) \/ Run(c) \/ Activate(c) \/ Acknowledge(c) \/ Cut(c)
  <2>1. \/ \E pc : /\ pc \notin {"idle", "done"}
                  /\ \/ Goes(c, pc, << >>)
                     \/ \E x : Goes(c, pc, [ticket |-> x]) \/ Goes(c, pc, [events |-> x])
                              \/ Goes(c, pc, [verb |-> x]) \/ Goes(c, pc, [hit |-> x])
        \/ \E outcome : Answers(c, outcome, << >>)
    BY <1>2 DEF Queue, Run, Activate, Acknowledge, Cut
  <2> QED
    BY <2>1, AllLearnt, Zenon DEF Moves
<1> QED
  BY <1>1, <1>2 DEF Delivery

\* A call that acts is in progress, and stays what it was asked for.
LEMMA MoveIs ==
  ASSUME IInv, NEW c \in Active, Moves(c)
  PROVE  Asked(c)' = Asked(c) /\ \A d \in Calls \ {c} : Bystands(d)
<1>1. /\ c \in Calls /\ DOMAIN call = Calls /\ \A d \in Calls : "pc" \in DOMAIN call[d]
      /\ "request" \in DOMAIN call[c]
  BY ActiveCall
<1>2. CASE \E pc, memory : Goes(c, pc, memory) /\ Learnt(memory)
  <2>1. PICK pc, memory : Goes(c, pc, memory) /\ "request" \notin DOMAIN memory
    BY <1>2 DEF Learnt
  <2>2. /\ \A d \in Calls \ {c} : call'[d] = call[d]
        /\ "request" \in DOMAIN call'[c] /\ call'[c]["request"] = call[c]["request"]
    BY <1>1, <2>1, GoesTo
  <2> QED
    BY <1>1, <2>2 DEF Bystands, Asked
<1>3. CASE \E outcome, memory : Answers(c, outcome, memory) /\ Learnt(memory)
  <2>1. PICK outcome, memory : Answers(c, outcome, memory) /\ "request" \notin DOMAIN memory
    BY <1>3 DEF Learnt
  <2>2. "request" \in DOMAIN call'[c] /\ call'[c]["request"] = call[c]["request"]
    BY <1>1, <2>1, AnswersWith DEF Lasting
  <2>3. \A d \in Calls \ {c} : call'[d] = Past(d)
    BY <2>1 DEF Answers
  <2>4. \A d \in Calls : Past(d) = call[d] \/ Pc(d) = "done"
    BY DEF Past
  <2> QED
    BY <1>1, <2>2, <2>3, <2>4 DEF Bystands, Asked
<1> QED
  BY <1>2, <1>3 DEF Moves

\* The steps that are not one call's alone.
LEMMA OthersBystand ==
  ASSUME IInv, NEW c \in Calls, Begin(c) \/ Rotate(c)
  PROVE  \A d \in Calls \ {c} : Bystands(d)
<1>1. DOMAIN call = Calls /\ \A d \in Calls : "pc" \in DOMAIN call[d]
  BY DEF IInv
<1>2. CASE Rotate(c)
  <2>1. \A d \in Calls \ {c} : call'[d] = Disturbed(d, TRUE)
    BY <1>2 DEF Rotate
  <2> QED
    BY <2>1, DisturbedIs DEF Bystands
<1>3. CASE Begin(c)
  <2>1. PICK r : \A d \in Calls \ {c} :
          call'[d] = IF d \in Active THEN Updated(call[d], [sure |-> call[d].sure /\ ~Turning(r)])
                     ELSE Past(d)
    BY <1>3 DEF Begin
  <2>2. ASSUME NEW d \in Calls \ {c}, d \in Active PROVE Bystands(d)
    <3> DEFINE news == [sure |-> call[d].sure /\ ~Turning(r)]
    <3>1. DOMAIN news = {"sure"}
      OBVIOUS
    <3>2. call'[d] = Updated(call[d], news)
      BY <2>1, <2>2
    <3> HIDE DEF news
    <3>3. /\ DOMAIN Updated(call[d], news) = DOMAIN call[d] \cup DOMAIN news
          /\ \A f \in DOMAIN call[d] \ DOMAIN news : Updated(call[d], news)[f] = call[d][f]
      BY UpdatedIs
    <3>4. "sure" \in DOMAIN call[d]
      BY <2>2, ActiveCall
    <3> QED
      BY <2>2, <3>1, <3>2, <3>3, <3>4 DEF Bystands
  <2>3. \A d \in Calls : Past(d) = call[d] \/ Pc(d) = "done"
    BY DEF Past
  <2> QED
    BY <2>1, <2>2, <2>3 DEF Bystands
<1> QED
  BY <1>2, <1>3

LEMMA AllBystand ==
  ASSUME IInv, Turn \/ Change \/ UNCHANGED vars \/ \E t \in Tickets : ForgetTail(t)
  PROVE  \A d \in Calls : Bystands(d)
<1>1. CASE Turn \/ Change
  <2>1. PICK turned \in BOOLEAN : \A d \in Calls : call'[d] = Disturbed(d, turned)
    BY <1>1 DEF Turn, Change
  <2> QED
    BY <2>1, DisturbedIs DEF Bystands
<1>2. CASE UNCHANGED vars \/ \E t \in Tickets : ForgetTail(t)
  <2>1. call' = call
    BY <1>2 DEF vars, ForgetTail
  <2> QED
    BY <2>1 DEF Bystands
<1> QED
  BY <1>1, <1>2

--------------------------------------------------------------------------------
(***************************************************************************)
(* A toggle is read back as itself.                                         *)
(***************************************************************************)
ReadsBack(c) ==
  Done(c, "named") /\ call[c].outcome = "activated" /\ call[c].target.id # <<>> =>
    call[c].answer = None \/ call[c].answer.key = call[c].target.key

LEMMA AnswersRemember ==
  ASSUME NEW c \in Calls, NEW outcome, NEW memory, Answers(c, outcome, memory),
         NEW f \in (DOMAIN memory \cap Lasting) \ {"pc", "outcome", "screen", "orientation"}
  PROVE  f \in DOMAIN call'[c] /\ call'[c][f] = memory[f]
<1> DEFINE told == Updated(call[c], memory)
           end  == [pc |-> "done", outcome |-> outcome, screen |-> device.screen,
                    orientation |-> device.orientation]
           new  == Of(Updated(told, end), Lasting)
<1>1. call'[c] = new
  BY DEF Answers
<1>2. DOMAIN end = {"pc", "outcome", "screen", "orientation"}
  OBVIOUS
<1>3. f \in DOMAIN told /\ told[f] = memory[f]
  <2>1. /\ DOMAIN Updated(call[c], memory) = DOMAIN call[c] \cup DOMAIN memory
        /\ \A g \in DOMAIN memory : Updated(call[c], memory)[g] = memory[g]
    BY UpdatedIs
  <2> QED
    BY <2>1
<1> HIDE DEF told, end
<1>4. f \in DOMAIN Updated(told, end) /\ Updated(told, end)[f] = told[f]
  BY <1>2, <1>3, UpdatedIs
<1>5. f \in DOMAIN new /\ new[f] = Updated(told, end)[f]
  BY <1>4, OfIs
<1> HIDE DEF new
<1> QED
  BY <1>1, <1>3, <1>4, <1>5

LEMMA BystanderReadsBack ==
  ASSUME IInv, NEW d \in Calls, Bystands(d), KeepsTarget(d), ReadsBack(d)
  PROVE  KeepsTarget(d)' /\ ReadsBack(d)'
<1>1. CASE call'[d] = call[d]
  BY <1>1 DEF KeepsTarget, ReadsBack, Done, Asked, Pc, Active, IsShown
<1>2. CASE Pc(d) = "done" /\ call'[d] = Past(d) /\ call'[d] # call[d]
  <2> DEFINE kept == {"pc"} \cup IF Asked(d).op = "type" THEN {"request", "outcome", "ticket"} ELSE {}
  <2>1. call'[d] = Of(call[d], kept) /\ "pc" \in DOMAIN call[d]
    BY <1>2 DEF Past, IInv
  <2>2. DOMAIN Of(call[d], kept) = DOMAIN call[d] \cap kept
        /\ \A f \in DOMAIN call[d] \cap kept : Of(call[d], kept)[f] = call[d][f]
    BY OfIs
  <2>3. Asked(d)'.op # "named"
    <3>1. CASE Asked(d).op = "type"
      BY <2>1, <2>2, <3>1 DEF Asked
    <3>2. CASE Asked(d).op # "type"
      <4>1. "request" \notin DOMAIN call'[d]
        BY <2>1, <2>2, <3>2
      <4> QED
        BY <4>1 DEF Asked
    <3> QED
      BY <3>1, <3>2
  <2>4. Pc(d)' = "done"
    BY <1>2, <2>1, <2>2 DEF Pc
  <2> QED
    BY <2>3, <2>4 DEF KeepsTarget, ReadsBack, Done, Active, Pc
<1>3. CASE /\ d \in Active /\ DOMAIN call'[d] = DOMAIN call[d]
           /\ \A f \in DOMAIN call[d] \ {"calm", "sure"} : call'[d][f] = call[d][f]
  <2>1. Pc(d)' = Pc(d) /\ Pc(d) # "done"
    BY <1>3, ActiveCall DEF Pc, Active
  <2>2. "verb" \in DOMAIN call[d] => "target" \in DOMAIN call[d] /\ call'[d].target = call[d].target
    BY <1>3 DEF KeepsTarget
  <2> QED
    BY <1>3, <2>1, <2>2 DEF KeepsTarget, ReadsBack, Done, IsShown
<1> QED
  BY <1>1, <1>2, <1>3 DEF Bystands

LEMMA NotNamedReadsBack ==
  ASSUME IInv', NEW c \in Calls, Asked(c)'.op # "named"
  PROVE  KeepsTarget(c)' /\ ReadsBack(c)'
<1>1. ReadsBack(c)'
  BY DEF ReadsBack, Done
<1>2. ASSUME c \in Active'
      PROVE  "verb" \notin DOMAIN call'[c] /\ Pc(c)' # "readBack"
  <2>1. /\ call'[c].request.op # "named" => "verb" \notin DOMAIN call'[c]
        /\ call'[c].request \in Asks /\ Pc(c)' \in Places(call'[c].request.op)
        /\ "request" \in DOMAIN call'[c]
    BY <1>2 DEF IInv, Remembers
  <2>2. Asked(c)' = call'[c].request /\ Asked(c)'.op \in Ops
    BY <2>1, AskedFor DEF Asked
  <2> QED
    BY <2>1, <2>2 DEF Places, Ops, Aiming, Delivering, Detecting
<1> QED
  BY <1>1, <1>2 DEF KeepsTarget

\* A call goes on with what it has found.
LEMMA GoesOnReadsBack ==
  ASSUME IInv, NEW c \in Active, KeepsTarget(c), NEW pc, NEW memory, Goes(c, pc, memory),
         DOMAIN memory \cap {"pc", "target", "verb"} = {},
         pc \notin {"done", "readBack"},
         pc \in {"byLabel", "byId", "inTree"} => Pc(c) \in {"byLabel", "byId", "inTree"}
  PROVE  KeepsTarget(c)' /\ ReadsBack(c)'
<1>1. /\ Pc(c)' = pc
      /\ DOMAIN call'[c] = DOMAIN call[c] \cup {"pc"} \cup DOMAIN memory
      /\ \A f \in DOMAIN call[c] \ (DOMAIN memory \cup {"pc"}) : call'[c][f] = call[c][f]
  BY ActiveCall, GoesTo
<1>2. "verb" \in DOMAIN call'[c] => "verb" \in DOMAIN call[c]
  BY <1>1
<1>3. "target" \in DOMAIN call[c] => "target" \in DOMAIN call'[c] /\ call'[c].target = call[c].target
  BY <1>1
<1>4. KeepsTarget(c)'
  BY <1>1, <1>2, <1>3 DEF KeepsTarget, IsShown
<1> QED
  BY <1>1, <1>4 DEF ReadsBack, Done

\* A call ends without having activated a toggle, or its toggle has no identifier.
LEMMA EndsReadsBack ==
  ASSUME IInv, NEW c \in Active, NEW outcome, NEW memory, Answers(c, outcome, memory),
         \/ outcome # "activated"
         \/ /\ "target" \in DOMAIN call[c] \ DOMAIN memory
            /\ call[c].target.id = <<>>
  PROVE  KeepsTarget(c)' /\ ReadsBack(c)'
<1>1. /\ Pc(c)' = "done" /\ call'[c].outcome = outcome
      /\ \A f \in (DOMAIN call[c] \cap Lasting)
                    \ (DOMAIN memory \cup {"pc", "outcome", "screen", "orientation"}) :
           call'[c][f] = call[c][f]
  BY ActiveCall, AnswersWith
<1>2. "target" \in Lasting
  BY DEF Lasting
<1> QED
  BY <1>1, <1>2 DEF KeepsTarget, ReadsBack, Active, Pc

\* tap() goes on with an element of the app, or reads back one without identifier.
LEMMA FoundReadsBack ==
  ASSUME IInv, NEW c \in Active, KeepsTarget(c), Pc(c) \in {"byLabel", "byId", "inTree"},
         NEW element, element = None \/ ShownNode(element), Found(c, element)
  PROVE  KeepsTarget(c)' /\ ReadsBack(c)'
<1>1. CASE Answers(c, "activated", [answer |-> element]) /\ "verb" \in DOMAIN call[c]
  <2> DEFINE memory == [answer |-> element]
  <2>1. DOMAIN memory = {"answer"} /\ Answers(c, "activated", memory)
    BY <1>1
  <2> HIDE DEF memory
  <2> QED
    BY <1>1, <2>1, EndsReadsBack DEF KeepsTarget
<1>2. CASE Answers(c, "element-not-found", << >>)
  BY <1>2, EndsReadsBack
<1>3. CASE Operate(c, element) /\ element # None
  <2> DEFINE verb == DecideTapVerb(element, Asked(c).plain)
             seen == [target |-> element, verb |-> verb]
  <2>1. DOMAIN seen = {"target", "verb"} /\ seen["target"] = element
    OBVIOUS
  <2>2. verb \in {"element-disabled", "touch", "activation", "toggle-needs-plain-tap"}
    BY DEF DecideTapVerb
  <2>3. \/ Answers(c, verb, seen) \/ Answers(c, "element-unusable-frame", seen)
        \/ \E pc \in {"dims", "queue"} : Goes(c, pc, seen)
    BY <1>3, <2>2 DEF Operate
  <2> HIDE DEF seen, verb
  <2>4. ASSUME NEW pc \in {"dims", "queue"}, Goes(c, pc, seen)
        PROVE  KeepsTarget(c)' /\ ReadsBack(c)'
    <3>1. /\ Pc(c)' = pc /\ "target" \in DOMAIN call'[c] /\ call'[c]["target"] = element
      BY <2>1, <2>4, ActiveCall, GoesTo
    <3> QED
      BY <1>3, <3>1 DEF KeepsTarget, ReadsBack, Done, IsShown, ShownNode
  <2> QED
    BY <2>2, <2>3, <2>4, EndsReadsBack
<1> QED
  BY <1>1, <1>2, <1>3 DEF Found

LEMMA ViewIs ==
  ASSUME IInv, DeviceOK
  PROVE  /\ View(device) \in Views
         /\ Shows(BridgeTree(device)) /\ Shows(DefaultTree(device)) /\ Shows(ReadScreenTree)
<1>1. View(device) \in Views
  BY DEF IInv, TypeOK, DeviceOK, View, Views
<1> QED
  BY <1>1, BridgeTreeIs, DefaultTreeIs, ReadTreeIs DEF BridgeTree, DefaultTree, ReadScreenTree

LEMMA LookupReadsBack ==
  ASSUME IInv, DeviceOK, NEW c \in Calls, KeepsTarget(c),
         FindByLabel(c) \/ FindById(c) \/ FindInTree(c)
  PROVE  KeepsTarget(c)' /\ ReadsBack(c)'
<1>1. c \in Active /\ Pc(c) \in {"byLabel", "byId", "inTree"}
  BY Underway DEF FindByLabel, FindById, FindInTree
<1>2. ASSUME NEW key \in {"label", "id"}
      PROVE  LET found == FindByMarker(DefaultTree(device), Asked(c).label, key)
             IN  found = None \/ ShownNode(found)
  BY ViewIs, FindByMarkerIs
<1>3. LET i == MatchInTree(ReadScreenTree, Asked(c).label)
      IN  i = 0 \/ ShownNode(ReadScreenTree[i])
  <2>1. PICK n \in Nat : /\ Nodes(ReadScreenTree) = 1 .. n
                        /\ \A i \in Nodes(ReadScreenTree) : ShownNode(ReadScreenTree[i])
    BY ViewIs DEF Shows
  <2> QED
    BY <2>1, MatchIsInTree
<1>4. \/ \E pc \in {"byId", "inTree"} : Goes(c, pc, << >>)
      \/ \E element : (element = None \/ ShownNode(element)) /\ Found(c, element)
  BY <1>2, <1>3 DEF FindByLabel, FindById, FindInTree
<1>5. ASSUME NEW pc \in {"byId", "inTree"}, Goes(c, pc, << >>)
      PROVE  KeepsTarget(c)' /\ ReadsBack(c)'
  <2>1. DOMAIN << >> \cap {"pc", "target", "verb"} = {}
    OBVIOUS
  <2> QED
    BY <1>1, <1>5, <2>1, GoesOnReadsBack
<1> QED
  BY <1>1, <1>4, <1>5, FoundReadsBack

\* The reading back itself: an identifier is the target's, so the element is.
LEMMA ReadBackReadsBack ==
  ASSUME IdsAreUnique, IInv, DeviceOK, NEW c \in Calls, KeepsTarget(c), ReadBack(c)
  PROVE  KeepsTarget(c)' /\ ReadsBack(c)'
<1> DEFINE found == FindByMarker(DefaultTree(device), call[c].target.id, "id")
           memory == [answer |-> found]
<1>1. /\ c \in Active /\ Pc(c) = "readBack" /\ Answers(c, "activated", memory)
      /\ DOMAIN memory = {"answer"} /\ memory["answer"] = found
  BY Underway DEF ReadBack
<1>2. "target" \in DOMAIN call[c] /\ IsShown(call[c].target)
  BY <1>1 DEF KeepsTarget
<1>3. found = None \/ (ShownNode(found) /\ found.id = call[c].target.id)
  BY ViewIs, FindByMarkerIs
<1> HIDE DEF found, memory
<1>4. /\ Pc(c)' = "done"
      /\ \A f \in (DOMAIN call[c] \cap Lasting)
                    \ (DOMAIN memory \cup {"pc", "outcome", "screen", "orientation"}) :
           call'[c][f] = call[c][f]
  BY <1>1, ActiveCall, AnswersWith
<1>5. call'[c]["target"] = call[c]["target"]
  BY <1>1, <1>2, <1>4 DEF Lasting
<1>6. call'[c]["answer"] = found
  BY <1>1, AnswersRemember DEF Lasting
<1>7. call[c].target.id # <<>> => found = None \/ found.key = call[c].target.key
  BY <1>2, <1>3 DEF IdsAreUnique, ShownNode, IsShown
<1>8. ReadsBack(c)'
  BY <1>5, <1>6, <1>7 DEF ReadsBack
<1>9. KeepsTarget(c)'
  BY <1>4 DEF KeepsTarget, Active, Pc
<1> QED
  BY <1>8, <1>9

LEMMA ActivateReadsBack ==
  ASSUME IInv, NEW c \in Calls, KeepsTarget(c), Activate(c)
  PROVE  KeepsTarget(c)' /\ ReadsBack(c)'
<1>1. c \in Active /\ "verb" \in DOMAIN call[c]
  BY Underway DEF Activate, Activating
<1>2. "target" \in DOMAIN call[c] /\ IsShown(call[c].target)
  BY <1>1 DEF KeepsTarget
<1>3. \/ \E memory : /\ Goes(c, "queue", memory) /\ DOMAIN memory = {"verb"}
      \/ Answers(c, "element-unusable-frame", << >>)
      \/ \E memory : /\ Goes(c, IF call[c].target.id # <<>> THEN "readBack" ELSE "byLabel", memory)
                     /\ DOMAIN memory = {"hit"}
  <2>1. DOMAIN [verb |-> "touch"] = {"verb"} /\ \A x : DOMAIN [hit |-> x] = {"hit"}
    OBVIOUS
  <2>2. \/ Goes(c, "queue", [verb |-> "touch"])
        \/ Answers(c, "element-unusable-frame", << >>)
        \/ \E x : Goes(c, IF call[c].target.id # <<>> THEN "readBack" ELSE "byLabel", [hit |-> x])
    BY DEF Activate
  <2> QED
    BY <2>1, <2>2, Zenon
<1>4. ASSUME NEW pc \in {"queue", "readBack", "byLabel"}, NEW memory, Goes(c, pc, memory),
             DOMAIN memory \subseteq {"verb", "hit"},
             pc = "byLabel" => call[c].target.id = <<>>
      PROVE  KeepsTarget(c)' /\ ReadsBack(c)'
  <2>1. /\ Pc(c)' = pc
        /\ "verb" \in DOMAIN call'[c]
        /\ "target" \in DOMAIN call'[c] /\ call'[c].target = call[c].target
    BY <1>1, <1>2, <1>4, ActiveCall, GoesTo
  <2> QED
    BY <1>2, <1>4, <2>1 DEF KeepsTarget, ReadsBack, Done, IsShown
<1> QED
  BY <1>1, <1>3, <1>4, EndsReadsBack

\* Every other step of a tap by name aims, tests or delivers.
LEMMA NamedElseReadsBack ==
  ASSUME IInv, NEW c \in Calls, KeepsTarget(c), Asked(c).op = "named",
         \/ DimsFromCache(c) \/ AskRootFrame(c) \/ RootFrameServed(c) \/ RootFrameArrives(c)
         \/ RootFrameFails(c) \/ Aim(c) \/ HitTest(c)
         \/ Queue(c) \/ Run(c) \/ Deliver(c) \/ Acknowledge(c) \/ Cut(c)
  PROVE  KeepsTarget(c)' /\ ReadsBack(c)'
<1> DEFINE Onward == {"root", "rootRead", "aim", "hitTest", "queue", "wait", "run"}
           Told(memory) == DOMAIN memory \subseteq {"dims", "sure", "points", "by", "ticket",
                                                   "events", "landed", "hit"}
<1>1. c \in Active
  BY Underway DEF DimsFromCache, AskRootFrame, RootFrameServed, RootFrameArrives, RootFrameFails,
     Aim, HitTest, Queue, Run, Deliver, Acknowledge, Cut
<1>2. /\ Told(<< >>)
      /\ \A x : Told([dims |-> x]) /\ Told([sure |-> x]) /\ Told([ticket |-> x]) /\ Told([events |-> x])
      /\ \A x, y : Told([points |-> x, by |-> y])
  OBVIOUS
<1>3. \/ \E pc \in Onward : \E memory : Goes(c, pc, memory) /\ Told(memory)
      \/ \E outcome, memory : Answers(c, outcome, memory) /\ outcome # "activated"
  <2>1. CASE Deliver(c)
    <3> DEFINE rest == [events |-> Tail(call[c].events)]
               memory == Updated(Lands(Head(call[c].events)), rest)
    <3>1. Goes(c, "run", memory) /\ DOMAIN rest = {"events"}
      BY <2>1 DEF Deliver
    <3> HIDE DEF rest
    <3>2. DOMAIN memory = DOMAIN Lands(Head(call[c].events)) \cup DOMAIN rest
      BY UpdatedIs
    <3> HIDE DEF memory
    <3>3. Told(memory)
      BY <3>1, <3>2, LandsTells
    <3> QED
      BY <3>1, <3>3
  <2>2. CASE ~Deliver(c)
    <3>1. \/ \E pc \in Onward :
               \/ Goes(c, pc, << >>)
               \/ \E x : \/ Goes(c, pc, [dims |-> x]) \/ Goes(c, pc, [sure |-> x])
                        \/ Goes(c, pc, [ticket |-> x]) \/ Goes(c, pc, [events |-> x])
               \/ \E x, y : Goes(c, pc, [points |-> x, by |-> y])
          \/ \E outcome : outcome # "activated" /\ Answers(c, outcome, << >>)
      BY <2>2 DEF DimsFromCache, AskRootFrame, RootFrameServed, RootFrameArrives, RootFrameFails,
         Aim, HitTest, Queue, Run, Acknowledge, Cut
    <3> HIDE DEF Told
    <3> QED
      BY <1>2, <3>1, Zenon
  <2> QED
    BY <2>1, <2>2
<1>4. ASSUME NEW pc \in Onward, NEW memory, Goes(c, pc, memory), Told(memory)
      PROVE  KeepsTarget(c)' /\ ReadsBack(c)'
  <2>1. DOMAIN memory \cap {"pc", "target", "verb"} = {}
    BY <1>4
  <2> HIDE DEF Told
  <2> QED
    BY <1>1, <1>4, <2>1, GoesOnReadsBack
<1> HIDE DEF Told, Onward
<1> QED
  BY <1>1, <1>3, <1>4, EndsReadsBack

\* What a press or a touch switches is a toggle of the app.
LEMMA FlipKeeps ==
  ASSUME IInv, DeviceOK, NEW i, i = 0 \/ i \in Nodes(BridgeTree(device))
  PROVE  /\ DOMAIN Flip(device, i) = DOMAIN device
         /\ Flip(device, i).on \subseteq Toggles
<1>1. i # 0 /\ IsToggle(BridgeTree(device)[i]) => BridgeTree(device)[i].key \in Toggles
  BY ViewIs, BridgeTreeIs DEF BridgeTree
<1> QED
  BY <1>1 DEF Flip, DeviceOK

LEMMA PressedIs ==
  ASSUME IInv, DeviceOK, NEW p
  PROVE  /\ TopmostAt(device, p) = 0 \/ TopmostAt(device, p) \in Nodes(BridgeTree(device))
         /\ ReadPointAt(device, p) = 0 \/ ReadPointAt(device, p) \in Nodes(BridgeTree(device))
  BY ViewIs, TopmostIs DEF ReadPointAt

LEMMA TakeKeepsToggles ==
  ASSUME IInv, DeviceOK, NEW event
  PROVE  /\ DOMAIN Take(device, event) = DOMAIN device
         /\ Take(device, event).on \subseteq Toggles
<1> DEFINE i == ReadPointAt(device, event.at)
           up == IF i # 0 /\ BridgeTree(device)[i].bridge THEN Flip(device, i) ELSE device
<1>1. DOMAIN up = DOMAIN device /\ up.on \subseteq Toggles
  BY PressedIs, FlipKeeps DEF DeviceOK
<1>2. CASE event.kind = "touch" /\ event.direction = "up"
  <2>1. Take(device, event) = [up EXCEPT !.finger = None]
    BY <1>2 DEF Take
  <2> HIDE DEF up
  <2> QED
    BY <1>1, <2>1
<1>3. CASE ~(event.kind = "touch" /\ event.direction = "up")
  BY <1>3 DEF Take, DeviceOK
<1> QED
  BY <1>2, <1>3

LEMMA DeviceStep ==
  ASSUME IInv, DeviceOK, [Next]_vars
  PROVE  DeviceOK'
<1>1. ASSUME NEW c \in Calls, Deliver(c) PROVE DeviceOK'
  BY <1>1, TakeKeepsToggles DEF Deliver, DeviceOK
<1>2. ASSUME NEW c \in Calls, Activate(c) PROVE DeviceOK'
  <2>1. \/ device' = device
        \/ \E p : device' = Flip(device, TopmostAt(device, p))
    BY <1>2 DEF Activate
  <2>2. ASSUME NEW p, device' = Flip(device, TopmostAt(device, p)) PROVE DeviceOK'
    BY <2>2, PressedIs, FlipKeeps DEF DeviceOK
  <2> QED
    BY <2>1, <2>2 DEF DeviceOK
<1>3. ASSUME NEW c \in Calls, Rotate(c) PROVE DeviceOK'
  BY <1>3 DEF Rotate, DeviceOK
<1>4. CASE Turn \/ Change
  BY <1>4 DEF Turn, Change, DeviceOK
<1>5. CASE UNCHANGED device
  BY <1>5 DEF DeviceOK
<1>6. ASSUME NEW c \in Calls, Begin(c) \/ Reading(c) PROVE UNCHANGED device
  BY <1>6 DEF Begin, Reading, DimsFromCache, AskRootFrame, RootFrameServed, RootFrameArrives,
     Aim, ScreenServed, ScreenArrives, ReadPoint, LocatePoint, FindByLabel, FindById,
     FindInTree, HitTest, ReadBack, RefuseText, SecureFieldGate, PasswordSheetGate, Capture,
     OnlyCalls, Fails
<1>7. ASSUME NEW c \in Calls,
             \/ ClearDims(c) \/ ProbeTree(c) \/ Probe(c) \/ NoteDetected(c)
             \/ Queue(c) \/ Run(c) \/ Acknowledge(c) \/ Failure(c)
      PROVE  UNCHANGED device
  BY <1>7 DEF ClearDims, ProbeTree, Probe, NoteDetected, Queue, Run, Acknowledge, Failure,
     RootFrameFails, ReadFails, RotateFails, Cut, OnlyCalls, Fails
<1>8. CASE UNCHANGED vars \/ \E t \in Tickets : ForgetTail(t)
  BY <1>5, <1>8 DEF vars, ForgetTail
<1> QED
  BY <1>1, <1>2, <1>3, <1>4, <1>5, <1>6, <1>7, <1>8 DEF Next, AllDone, Turns, Delivery

LEMMA CallReadsBack ==
  ASSUME IdsAreUnique, IInv, IInv', ReadBackInv, NEW c \in Calls,
         Begin(c) \/ Reading(c) \/ Turns(c) \/ Delivery(c) \/ Failure(c)
  PROVE  \A d \in Calls : KeepsTarget(d)' /\ ReadsBack(d)'
<1>1. DeviceOK /\ \A d \in Calls : KeepsTarget(d) /\ ReadsBack(d)
  BY DEF ReadBackInv, ReadsBackItsToggle, ReadsBack
<1>2. CASE Begin(c)
  <2>1. \E r, fields : /\ call'[c] = [request |-> r, pc |-> FirstStep(r), calm |-> TRUE,
                                     sure |-> sure /\ ~Turning(r), dims |-> None]
                      /\ r \in Requests(c, device.screen)
    BY <1>2 DEF Begin
  <2>2. PICK r : /\ call'[c] = [request |-> r, pc |-> FirstStep(r), calm |-> TRUE,
                                sure |-> sure /\ ~Turning(r), dims |-> None]
                 /\ r \in Requests(c, device.screen)
    BY <2>1
  <2>3. FirstStep(r) \notin {"done", "readBack"}
    BY <2>2, RequestsAssumption, FirstStepIsAPlace DEF IInv, TypeOK
  <2>4. "verb" \notin DOMAIN call'[c] /\ Pc(c)' = FirstStep(r)
    BY <2>2 DEF Pc
  <2>5. KeepsTarget(c)' /\ ReadsBack(c)'
    BY <2>3, <2>4 DEF KeepsTarget, ReadsBack, Done
  <2> QED
    BY <1>1, <1>2, <2>5, OthersBystand, BystanderReadsBack
<1>3. CASE Rotate(c)
  <2>1. c \in Active /\ Asked(c).op = "rotate"
    BY <1>3, Underway, PlaceTellsOp DEF Rotate
  <2>2. "pc" \in DOMAIN [pc |-> "clear"] /\ DOMAIN [pc |-> "clear"] = {"pc"}
    OBVIOUS
  <2>3. call'[c] = Updated(call[c], [pc |-> "clear"])
    BY <1>3 DEF Rotate
  <2>4. Asked(c)' = Asked(c)
    <3> DEFINE news == [pc |-> "clear"]
    <3>1. DOMAIN news = {"pc"} /\ call'[c] = Updated(call[c], news)
      BY <2>3
    <3> HIDE DEF news
    <3>2. /\ DOMAIN Updated(call[c], news) = DOMAIN call[c] \cup DOMAIN news
          /\ \A f \in DOMAIN call[c] \ DOMAIN news : Updated(call[c], news)[f] = call[c][f]
      BY UpdatedIs
    <3> QED
      BY <3>1, <3>2 DEF Asked
  <2>5. KeepsTarget(c)' /\ ReadsBack(c)'
    BY <2>1, <2>4, NotNamedReadsBack
  <2> QED
    BY <1>1, <1>3, <2>5, OthersBystand, BystanderReadsBack
<1>4. CASE ~Begin(c) /\ ~Rotate(c)
  <2>1. Moves(c)
    BY <1>4, ReadingMoves, TurningMoves, DeliveryMoves DEF Turns, Failure
  <2>2. c \in Active
    BY <1>4, Underway DEF Reading, DimsFromCache, AskRootFrame, RootFrameServed, RootFrameArrives,
       Aim, ScreenServed, ScreenArrives, ReadPoint, LocatePoint, FindByLabel, FindById,
       FindInTree, HitTest, ReadBack, RefuseText, SecureFieldGate, PasswordSheetGate, Capture,
       Turns, ClearDims, ProbeTree, Probe, NoteDetected, Delivery, Queue, Run, Activate, Deliver,
       Acknowledge, Failure, RootFrameFails, ReadFails, RotateFails, Cut
  <2>3. Asked(c)' = Asked(c) /\ \A d \in Calls \ {c} : Bystands(d)
    BY <2>1, <2>2, MoveIs
  <2>4. KeepsTarget(c)' /\ ReadsBack(c)'
    <3>1. CASE Asked(c).op # "named"
      BY <2>3, <3>1, NotNamedReadsBack
    <3>2. CASE Asked(c).op = "named"
      <4>1. Pc(c) \notin {"screen", "screenRead", "read", "locate", "gate", "sheet", "capture",
                          "turn", "clear", "probeTree", "probe", "detected"}
        BY <2>2, <3>2, PlaceTellsOp DEF Detecting
      <4>2. ~(\/ ScreenServed(c) \/ ScreenArrives(c) \/ ReadPoint(c) \/ LocatePoint(c)
              \/ RefuseText(c) \/ SecureFieldGate(c) \/ PasswordSheetGate(c) \/ Capture(c)
              \/ ClearDims(c) \/ ProbeTree(c) \/ Probe(c) \/ NoteDetected(c)
              \/ RotateFails(c))
        BY <4>1 DEF ScreenServed, ScreenArrives, ReadPoint, LocatePoint, RefuseText,
           SecureFieldGate, PasswordSheetGate, Capture, ClearDims, ProbeTree, Probe, NoteDetected,
           RotateFails
      <4>3. CASE ReadFails(c)
        <5>1. Answers(c, ThrownBy(c), << >>) /\ ThrownBy(c) # "activated"
          BY <4>3, ThrownOutcome DEF ReadFails
        <5> QED
          BY <2>2, <5>1, EndsReadsBack
      <4> QED
        BY <1>1, <1>4, <3>2, <4>2, <4>3, LookupReadsBack, ReadBackReadsBack, ActivateReadsBack,
           NamedElseReadsBack DEF Reading, Turns, Delivery, Failure
    <3> QED
      BY <3>1, <3>2
  <2> QED
    BY <1>1, <2>3, <2>4, BystanderReadsBack
<1> QED
  BY <1>2, <1>3, <1>4

LEMMA ReadBackInvStep ==
  ASSUME IdsAreUnique, IInv, IInv', ReadBackInv, [Next]_vars
  PROVE  ReadBackInv'
<1>1. DeviceOK'
  BY DeviceStep DEF ReadBackInv
<1>2. \A d \in Calls : KeepsTarget(d)' /\ ReadsBack(d)'
  <2>1. CASE \E c \in Calls : Begin(c) \/ Reading(c) \/ Turns(c) \/ Delivery(c) \/ Failure(c)
    BY <2>1, CallReadsBack
  <2>2. CASE Turn \/ Change \/ UNCHANGED vars \/ \E t \in Tickets : ForgetTail(t)
    <3>1. \A d \in Calls : KeepsTarget(d) /\ ReadsBack(d)
      BY DEF ReadBackInv, ReadsBackItsToggle, ReadsBack
    <3> QED
      BY <2>2, <3>1, AllBystand, BystanderReadsBack
  <2> QED
    BY <2>1, <2>2 DEF Next, AllDone
<1> QED
  BY <1>1, <1>2 DEF ReadBackInv, ReadsBackItsToggle, ReadsBack

LEMMA InitReadBackInv == Init => ReadBackInv
<1> SUFFICES ASSUME Init PROVE ReadBackInv
  OBVIOUS
<1>1. DeviceOK
  BY DEF Init, DeviceOK
<1>2. \A c \in Calls : Pc(c) = "idle"
  BY DEF Init, Idle, Pc
<1> QED
  BY <1>1, <1>2 DEF ReadBackInv, ReadsBackItsToggle, Done, KeepsTarget, Active, Pc

\* Where identifiers name one element each, a toggle with an identifier is read back as
\* itself or not at all, whatever else mentions its name, whatever screen has come up
\* meanwhile, and whoever else acts.
THEOREM TogglesAreReadBack ==
  ASSUME IdsAreUnique
  PROVE  Spec => []ReadsBackItsToggle
<1>1. ReadBackInv => ReadsBackItsToggle
  BY DEF ReadBackInv
<1>2. IInv /\ IInv' /\ ReadBackInv /\ [Next]_vars => ReadBackInv'
  BY ReadBackInvStep
<1> QED
  BY <1>1, <1>2, InductiveInvariant, InitReadBackInv, PTL DEF Spec

--------------------------------------------------------------------------------
(***************************************************************************)
(* What FlattenSeq and Pressed compute, by induction over the length.       *)
(***************************************************************************)
\* Induction, over a set of numbers.
LEMMA CountingUp ==
  ASSUME NEW n \in Nat, NEW T, 0 \in T, \A m \in 1 .. n : m - 1 \in T => m \in T
  PROVE  0 .. n \subseteq T
<1> DEFINE Rest == {m \in 0 .. n : m \notin T}
<1>1. ASSUME Rest # {} PROVE FALSE
  <2>1. PICK m \in Rest : \A k \in Rest : m <= k
    <3>1. Rest \in SUBSET Nat
      OBVIOUS
    <3> HIDE DEF Rest
    <3> QED
      BY <1>1, <3>1, LeastExists
  <2>2. m \in 1 .. n /\ m \notin T
    BY <2>1
  <2>3. m - 1 \in 0 .. n /\ m - 1 \notin Rest
    BY <2>1, <2>2
  <2> QED
    BY <2>2, <2>3
<1> QED
  BY <1>1

\* h tells what the first ones of some sequences make, put together.
Joins(seqs, n, h) ==
  /\ DOMAIN h = 0 .. n /\ h[0] = <<>>
  /\ \A i \in 1 .. n : h[i] = h[i - 1] \o seqs[i]

LEMMA JoinExists ==
  ASSUME NEW n \in Nat, NEW seqs
  PROVE  \E h : Joins(seqs, n, h)
<1> DEFINE T == {m \in 0 .. n : \E h : Joins(seqs, m, h)}
<1>1. 0 \in T
  <2>1. Joins(seqs, 0, [i \in 0 .. 0 |-> <<>>])
    BY DEF Joins
  <2> QED
    BY <2>1
<1>2. ASSUME NEW m \in 1 .. n, m - 1 \in T PROVE m \in T
  <2>1. PICK h : Joins(seqs, m - 1, h)
    BY <1>2
  <2> DEFINE more == [i \in 0 .. m |-> IF i = m THEN h[m - 1] \o seqs[m] ELSE h[i]]
  <2>2. Joins(seqs, m, more)
    <3>1. more[0] = <<>> /\ DOMAIN more = 0 .. m
      BY <2>1 DEF Joins
    <3>2. more[m] = more[m - 1] \o seqs[m]
      OBVIOUS
    <3>3. ASSUME NEW i \in 1 .. m - 1 PROVE more[i] = more[i - 1] \o seqs[i]
      <4>1. i \in 1 .. (m - 1) /\ i # m /\ i - 1 # m /\ i \in 0 .. m /\ i - 1 \in 0 .. m
        OBVIOUS
      <4>2. more[i] = h[i] /\ more[i - 1] = h[i - 1] /\ h[i] = h[i - 1] \o seqs[i]
        BY <2>1, <4>1 DEF Joins
      <4> QED
        BY <4>2
    <3>4. \A i \in 1 .. m : i = m \/ i \in 1 .. m - 1
      OBVIOUS
    <3> HIDE DEF more
    <3> QED
      BY <3>1, <3>2, <3>3, <3>4 DEF Joins
  <2> QED
    BY <2>2
<1> HIDE DEF T
<1>3. 0 .. n \subseteq T
  BY <1>1, <1>2, CountingUp
<1> QED
  BY <1>3 DEF T

LEMMA JoinIsFlattenSeq ==
  ASSUME NEW S, NEW n \in Nat, NEW seqs \in [1 .. n -> Seq(S)], NEW h, Joins(seqs, n, h)
  PROVE  /\ \A i \in 0 .. n : h[i] \in Seq(S)
         /\ FlattenSeq(seqs) = h[n]
<1>1. \A i \in 0 .. n : h[i] \in Seq(S)
  <2> DEFINE T == {m \in 0 .. n : h[m] \in Seq(S)}
  <2>1. 0 \in T
    <3>1. <<>> \in Seq(S) /\ h[0] = <<>>
      BY EmptySeq DEF Joins
    <3>2. 0 \in 0 .. n /\ h[0] \in Seq(S)
      BY ONLY <3>1, n \in Nat
    <3> QED
      BY ONLY <3>2 DEF T
  <2>2. ASSUME NEW m \in 1 .. n, m - 1 \in T PROVE m \in T
    <3>1. h[m - 1] \in Seq(S) /\ seqs[m] \in Seq(S) /\ h[m] = h[m - 1] \o seqs[m]
      BY <2>2 DEF Joins
    <3>2. h[m] \in Seq(S)
      BY <3>1, ConcatProperties
    <3> QED
      BY <3>2
  <2> HIDE DEF T
  <2>3. 0 .. n \subseteq T
    BY <2>1, <2>2, CountingUp
  <2> QED
    BY <2>3 DEF T
<1>2. CASE n = 0
  <2>1. Len(seqs) = 0 /\ seqs = <<>>
    BY <1>2
  <2>2. FlattenSeq(seqs) = seqs
    BY <2>1 DEF FlattenSeq
  <2> QED
    BY <1>1, <1>2, <2>1, <2>2 DEF Joins
<1>3. CASE n # 0
  <2> DEFINE Is(f) == f = [i \in 1 .. n |-> IF i = 1 THEN seqs[i] ELSE f[i - 1] \o seqs[i]]
             f == CHOOSE g : Is(g)
             part == [i \in 1 .. n |-> h[i]]
  <2>1. Len(seqs) = n
    OBVIOUS
  <2>2. FlattenSeq(seqs) = f[n]
    BY <1>3, <2>1 DEF FlattenSeq
  <2>3. Is(part)
    <3>1. h[1] = seqs[1]
      <4>0. 1 \in 1 .. n /\ 1 - 1 = 0
        BY <1>3
      <4>a. h[0] = <<>> /\ h[1] = h[1 - 1] \o seqs[1]
        BY <4>0 DEF Joins
      <4>1. h[1] = h[0] \o seqs[1] /\ h[0] = <<>> /\ seqs[1] \in Seq(S)
        BY <4>0, <4>a
      <4> QED
        BY <4>1, ConcatEmptySeq
    <3>2. ASSUME NEW i \in 1 .. n, i # 1 PROVE h[i] = part[i - 1] \o seqs[i]
      <4>0. h[i] = h[i - 1] \o seqs[i]
        BY DEF Joins
      <4>1. h[i] = h[i - 1] \o seqs[i] /\ i - 1 \in 1 .. n
        BY ONLY <4>0, <3>2, n \in Nat, i \in 1 .. n
      <4>2. part[i - 1] = h[i - 1]
        BY <4>1
      <4> QED
        BY <4>1, <4>2
    <3>3. \A i \in 1 .. n : h[i] = IF i = 1 THEN seqs[i] ELSE part[i - 1] \o seqs[i]
      <4> HIDE DEF part
      <4> QED
        BY <3>1, <3>2
    <3> QED
      BY <3>3
  <2>4. Is(f)
    <3> HIDE DEF Is, part
    <3> QED
      BY <2>3
  <2> HIDE DEF f
  <2>5. f[n] = h[n]
    <3> DEFINE T == {0} \cup {m \in 1 .. n : f[m] = h[m]}
    <3>1. 0 \in T
      OBVIOUS
    <3>2. ASSUME NEW m \in 1 .. n, m - 1 \in T PROVE m \in T
      <4>1. part[m] = h[m] /\ f[m] = (IF m = 1 THEN seqs[m] ELSE f[m - 1] \o seqs[m])
        BY <2>4
      <4>2. part[m] = (IF m = 1 THEN seqs[m] ELSE part[m - 1] \o seqs[m])
        BY <2>3
      <4>3. m # 1 => part[m - 1] = f[m - 1]
        BY <3>2
      <4> QED
        BY <4>1, <4>2, <4>3
    <3> HIDE DEF T
    <3>3. 0 .. n \subseteq T
      BY <3>1, <3>2, CountingUp
    <3> QED
      BY <1>3, <3>3 DEF T
  <2> QED
    BY <1>1, <2>2, <2>5
<1> QED
  BY <1>2, <1>3
\* h tells what the first ones of n events make of a keyboard.
Runs(keyboard, events, n, h) ==
  /\ DOMAIN h = 0 .. n /\ h[0] = keyboard
  /\ \A i \in 1 .. n : h[i] = Press(h[i - 1], events[i])

LEMMA RunExists ==
  ASSUME NEW n \in Nat, NEW keyboard, NEW events
  PROVE  \E h : Runs(keyboard, events, n, h)
<1> DEFINE T == {m \in 0 .. n : \E h : Runs(keyboard, events, m, h)}
<1>1. 0 \in T
  <2>1. Runs(keyboard, events, 0, [i \in 0 .. 0 |-> keyboard])
    BY DEF Runs
  <2> QED
    BY <2>1
<1>2. ASSUME NEW m \in 1 .. n, m - 1 \in T PROVE m \in T
  <2>1. PICK h : Runs(keyboard, events, m - 1, h)
    BY <1>2
  <2> DEFINE more == [i \in 0 .. m |-> IF i = m THEN Press(h[m - 1], events[m]) ELSE h[i]]
  <2>2. Runs(keyboard, events, m, more)
    <3>1. more[0] = keyboard /\ DOMAIN more = 0 .. m
      BY <2>1 DEF Runs
    <3>2. more[m] = Press(more[m - 1], events[m])
      OBVIOUS
    <3>3. ASSUME NEW i \in 1 .. m - 1 PROVE more[i] = Press(more[i - 1], events[i])
      <4>1. i \in 1 .. (m - 1) /\ i # m /\ i - 1 # m /\ i \in 0 .. m /\ i - 1 \in 0 .. m
        OBVIOUS
      <4>2. more[i] = h[i] /\ more[i - 1] = h[i - 1] /\ h[i] = Press(h[i - 1], events[i])
        BY <2>1, <4>1 DEF Runs
      <4> QED
        BY <4>2
    <3>4. \A i \in 1 .. m : i = m \/ i \in 1 .. m - 1
      OBVIOUS
    <3> HIDE DEF more
    <3> QED
      BY <3>1, <3>2, <3>3, <3>4 DEF Runs
  <2> QED
    BY <2>2
<1> HIDE DEF T
<1>3. 0 .. n \subseteq T
  BY <1>1, <1>2, CountingUp
<1> QED
  BY <1>3 DEF T

LEMMA RunIsPressed ==
  ASSUME NEW keyboard, NEW events, NEW n \in Nat, n = Len(events), NEW h,
         Runs(keyboard, events, n, h)
  PROVE  Pressed(keyboard, events) = h[n]
<1> DEFINE Is(f) == f = [i \in 0 .. n |-> IF i = 0 THEN keyboard ELSE Press(f[i - 1], events[i])]
           f == CHOOSE g : Is(g)
           part == [i \in 0 .. n |-> h[i]]
<1>1. Pressed(keyboard, events) = f[n]
  BY DEF Pressed
<1>2. Is(part)
  <2>1. h[0] = keyboard
    BY DEF Runs
  <2>2. ASSUME NEW i \in 0 .. n, i # 0 PROVE h[i] = Press(part[i - 1], events[i])
    <3>1. i \in 1 .. n /\ i - 1 \in 0 .. n
      BY <2>2
    <3>2. h[i] = Press(h[i - 1], events[i])
      BY <3>1 DEF Runs
    <3>3. part[i - 1] = h[i - 1]
      BY <3>1
    <3> QED
      BY <3>2, <3>3
  <2>3. \A i \in 0 .. n : h[i] = IF i = 0 THEN keyboard ELSE Press(part[i - 1], events[i])
    <3> HIDE DEF part
    <3> QED
      BY <2>1, <2>2
  <2> QED
    BY <2>3
<1>3. Is(f)
  <2> HIDE DEF Is, part
  <2> QED
    BY <1>2
<1> HIDE DEF f
<1>4. f[n] = h[n]
  <2> DEFINE T == {m \in 0 .. n : f[m] = h[m]}
  <2>1. 0 \in T
    BY <1>3 DEF Runs
  <2>2. ASSUME NEW m \in 1 .. n, m - 1 \in T PROVE m \in T
    <3>1. f[m] = Press(f[m - 1], events[m])
      BY <1>3
    <3>2. h[m] = Press(h[m - 1], events[m])
      BY DEF Runs
    <3> QED
      BY <2>2, <3>1, <3>2
  <2> HIDE DEF T
  <2>3. 0 .. n \subseteq T
    BY <2>1, <2>2, CountingUp
  <2> QED
    BY <2>3 DEF T
<1> QED
  BY <1>1, <1>4

LEMMA PressedNothing ==
  ASSUME NEW keyboard
  PROVE  Pressed(keyboard, <<>>) = keyboard
<1>1. Runs(keyboard, <<>>, 0, [i \in 0 .. 0 |-> keyboard]) /\ Len(<<>>) = 0
  BY DEF Runs
<1> QED
  BY <1>1, RunIsPressed

LEMMA PressedJoined ==
  ASSUME NEW S, NEW first \in Seq(S), NEW rest \in Seq(S), NEW keyboard
  PROVE  Pressed(keyboard, first \o rest) = Pressed(Pressed(keyboard, first), rest)
<1> DEFINE m == Len(first)
           n == Len(rest)
           both == first \o rest
<1>1. /\ m \in Nat /\ n \in Nat /\ Len(both) = m + n /\ both \in Seq(S)
      /\ \A i \in 1 .. m + n : both[i] = IF i <= m THEN first[i] ELSE rest[i - m]
  BY ConcatProperties, LenProperties
<1>2. PICK f : Runs(keyboard, first, m, f)
  BY <1>1, RunExists
<1>3. Pressed(keyboard, first) = f[m]
  BY <1>1, <1>2, RunIsPressed
<1>4. PICK g : Runs(f[m], rest, n, g)
  BY <1>1, RunExists
<1>5. Pressed(f[m], rest) = g[n]
  BY <1>1, <1>4, RunIsPressed
<1> HIDE DEF m, n, both
<1> DEFINE h == [i \in 0 .. m + n |-> IF i <= m THEN f[i] ELSE g[i - m]]
<1>6. Runs(keyboard, both, m + n, h)
  <2>1. DOMAIN h = 0 .. m + n /\ h[0] = keyboard
    BY <1>1, <1>2 DEF Runs
  <2>2. ASSUME NEW i \in 1 .. m + n PROVE h[i] = Press(h[i - 1], both[i])
    <3>1. CASE i <= m
      <4>1. i \in 1 .. m /\ i - 1 <= m /\ i - 1 \in 0 .. m + n /\ i \in 0 .. m + n
        BY <1>1, <3>1
      <4>2. h[i] = f[i] /\ h[i - 1] = f[i - 1] /\ both[i] = first[i]
        BY <1>1, <3>1, <4>1
      <4>3. f[i] = Press(f[i - 1], first[i])
        BY <1>2, <4>1 DEF Runs
      <4> QED
        BY ONLY <4>2, <4>3
    <3>2. CASE ~(i <= m)
      <4>1. i - m \in 1 .. n /\ i - 1 \in 0 .. m + n /\ i \in 0 .. m + n /\ (i - 1) - m = (i - m) - 1
        BY <1>1, <3>2
      <4>2. h[i] = g[i - m] /\ both[i] = rest[i - m]
        BY <1>1, <3>2, <4>1
      <4>3. g[i - m] = Press(g[(i - m) - 1], rest[i - m])
        BY <1>4, <4>1 DEF Runs
      <4>4. h[i - 1] = g[(i - m) - 1]
        <5>1. CASE i - 1 <= m
          <6>1. i - 1 = m /\ (i - m) - 1 = 0
            BY <1>1, <3>2, <5>1
          <6>2. h[i - 1] = f[m] /\ g[0] = f[m]
            BY <1>4, <4>1, <6>1 DEF Runs
          <6> QED
            BY <6>1, <6>2
        <5>2. CASE ~(i - 1 <= m)
          BY <4>1, <5>2
        <5> QED
          BY <5>1, <5>2
      <4> QED
        BY ONLY <4>2, <4>3, <4>4
    <3> QED
      BY <3>1, <3>2
  <2> HIDE DEF h
  <2> QED
    BY <2>1, <2>2 DEF Runs
<1>7. h[m + n] = g[n]
  <2>1. CASE n = 0
    BY <1>1, <1>4, <2>1 DEF Runs
  <2>2. CASE n # 0
    <3>1. m + n \in 0 .. m + n /\ ~(m + n <= m) /\ (m + n) - m = n
      BY <1>1, <2>2
    <3> QED
      BY <3>1
  <2> QED
    BY <2>1, <2>2
<1>8. Pressed(keyboard, both) = h[m + n]
  <2> HIDE DEF h
  <2>1. m + n \in Nat /\ m + n = Len(both)
    BY <1>1
  <2> QED
    BY <1>6, <2>1, RunIsPressed
<1> QED
  BY <1>3, <1>5, <1>7, <1>8 DEF both

LEMMA PressedOne ==
  ASSUME NEW keyboard, NEW event
  PROVE  Pressed(keyboard, <<event>>) = Press(keyboard, event)
<1> DEFINE h == [i \in 0 .. 1 |-> IF i = 0 THEN keyboard ELSE Press(keyboard, event)]
           one == <<event>>
<1>1. Len(one) = 1 /\ one[1] = event /\ h[0] = keyboard /\ h[1] = Press(keyboard, event)
      /\ DOMAIN h = 0 .. 1
  OBVIOUS
<1> HIDE DEF h, one
<1>2. Runs(keyboard, one, 1, h)
  BY <1>1 DEF Runs
<1>3. Pressed(keyboard, one) = h[1]
  <2>1. 1 \in Nat /\ 1 = Len(one)
    BY <1>1
  <2> QED
    BY <1>2, <2>1, RunIsPressed, Zenon
<1> QED
  BY <1>1, <1>3 DEF one

\* The first event is pressed first.
LEMMA PressedNext ==
  ASSUME NEW S, NEW events \in Seq(S), events # <<>>, NEW keyboard
  PROVE  Pressed(keyboard, events) = Pressed(Press(keyboard, Head(events)), Tail(events))
<1>1. Head(events) \in S /\ Tail(events) \in Seq(S) /\ <<Head(events)>> \in Seq(S)
  BY HeadTailProperties
<1>2. events = <<Head(events)>> \o Tail(events)
  <2> DEFINE both == <<Head(events)>> \o Tail(events)
  <2>1. /\ Len(events) \in Nat /\ Len(events) >= 1 /\ Len(Tail(events)) = Len(events) - 1
        /\ \A i \in 1 .. Len(Tail(events)) : Tail(events)[i] = events[i + 1]
        /\ Head(events) = events[1]
    BY HeadTailProperties, EmptySeq, LenProperties
  <2>2. /\ both \in Seq(S) /\ Len(both) = 1 + Len(Tail(events))
        /\ \A i \in 1 .. Len(both) :
             both[i] = IF i <= 1 THEN <<Head(events)>>[i] ELSE Tail(events)[i - 1]
    BY <1>1, ConcatProperties
  <2>3. ASSUME NEW i \in 1 .. Len(events) PROVE both[i] = events[i]
    BY <2>1, <2>2
  <2> HIDE DEF both
  <2>4. both = events
    BY <2>1, <2>2, <2>3, SeqEqual
  <2> QED
    BY <2>4 DEF both
<1>3. Pressed(keyboard, <<Head(events)>> \o Tail(events))
        = Pressed(Pressed(keyboard, <<Head(events)>>), Tail(events))
  BY <1>1, PressedJoined
<1> QED
  BY <1>2, <1>3, PressedOne

--------------------------------------------------------------------------------
(***************************************************************************)
(* The keyboard gives back the characters that the key map was made for.    *)
(***************************************************************************)
\* The rows, by where they begin, whether they are shifted, and how long they are.
LEMMA RowsAre ==
  /\ \A row \in Rows :
       \/ row.first = 4  /\ row.shift = FALSE /\ DOMAIN row.characters = 1 .. 37
       \/ row.first = 44 /\ row.shift = FALSE /\ DOMAIN row.characters = 1 .. 6
       \/ row.first = 51 /\ row.shift = FALSE /\ DOMAIN row.characters = 1 .. 6
       \/ row.first = 4  /\ row.shift = TRUE  /\ DOMAIN row.characters = 1 .. 36
       \/ row.first = 45 /\ row.shift = TRUE  /\ DOMAIN row.characters = 1 .. 5
       \/ row.first = 51 /\ row.shift = TRUE  /\ DOMAIN row.characters = 1 .. 6
  /\ \A row, other \in Rows : row.first = other.first /\ row.shift = other.shift => row = other
<1> DEFINE a == <<"a", "b", "c", "d", "e", "f", "g", "h", "i", "j", "k", "l", "m", "n",
                     "o", "p", "q", "r", "s", "t", "u", "v", "w", "x", "y", "z", "1", "2",
                     "3", "4", "5", "6", "7", "8", "9", "0", "\n">>
           b == <<" ", "-", "=", "[", "]", "\\">>
           c == <<";", "'", "backtick", ",", ".", "/">>
           d == <<"A", "B", "C", "D", "E", "F", "G", "H", "I", "J", "K", "L", "M", "N",
                    "O", "P", "Q", "R", "S", "T", "U", "V", "W", "X", "Y", "Z", "!", "@",
                    "#", "$", "%", "^", "&", "*", "(", ")">>
           e == <<"_", "+", "{", "}", "|">>
           f == <<":", "\"", "~", "<", ">", "?">>
<1>1. DOMAIN a = 1 .. 37 
  OBVIOUS
<1>2. DOMAIN b = 1 .. 6 
  OBVIOUS
<1>3. DOMAIN c = 1 .. 6 /\ DOMAIN d = 1 .. 36 /\ DOMAIN e = 1 .. 5 /\ DOMAIN f = 1 .. 6
  OBVIOUS
<1>4. Rows = {Row(4, FALSE, a), Row(44, FALSE, b), Row(51, FALSE, c),
              Row(4, TRUE, d), Row(45, TRUE, e), Row(51, TRUE, f)}
  BY DEF Rows
<1> HIDE DEF a, b, c, d, e, f
<1> QED
  BY <1>1, <1>2, <1>3, <1>4 DEF Row

\* Each stroke is of one place.
LEMMA StrokesDiffer ==
  /\ \A spot \in Spots : /\ StrokeAt(spot).keycode \in 4 .. 56
                         /\ StrokeAt(spot).shift \in BOOLEAN
  /\ \A spot, other \in Spots : StrokeAt(spot) = StrokeAt(other) => spot = other
<1>1. ASSUME NEW spot \in Spots
      PROVE  /\ spot.row \in Rows /\ spot.at \in DOMAIN spot.row.characters
             /\ spot = [row |-> spot.row, at |-> spot.at]
  BY DEF Spots
<1>2. \A spot \in Spots :
        StrokeAt(spot) = [keycode |-> spot.row.first + spot.at - 1, shift |-> spot.row.shift]
  BY DEF StrokeAt
<1>3. ASSUME NEW spot \in Spots
      PROVE  /\ StrokeAt(spot).keycode \in 4 .. 56
             /\ StrokeAt(spot).shift \in BOOLEAN
  <2>1. /\ StrokeAt(spot).keycode = spot.row.first + spot.at - 1
        /\ StrokeAt(spot).shift = spot.row.shift
    BY <1>2
  <2>2. spot.row.first + spot.at - 1 \in 4 .. 56
    BY <1>1, RowsAre
  <2>3. spot.row.shift \in BOOLEAN
    BY <1>1, RowsAre
  <2> QED
    BY <2>1, <2>2, <2>3
<1> DEFINE FirstOf(code, shift) ==
             IF code > 50 THEN 51 ELSE IF code > 40 THEN IF shift THEN 45 ELSE 44 ELSE 4
<1>4. \A spot \in Spots :
        spot.row.first = FirstOf(spot.row.first + spot.at - 1, spot.row.shift)
  BY <1>1, RowsAre
<1> HIDE DEF FirstOf
<1>5. ASSUME NEW spot \in Spots, NEW other \in Spots, StrokeAt(spot) = StrokeAt(other)
      PROVE  spot = other
  <2>1. /\ spot.row.first + spot.at - 1 = other.row.first + other.at - 1
        /\ spot.row.shift = other.row.shift
    BY <1>2, <1>5
  <2>2. spot.row.first = other.row.first /\ spot.at = other.at
    <3>1. /\ spot.row.first = FirstOf(spot.row.first + spot.at - 1, spot.row.shift)
          /\ other.row.first = FirstOf(other.row.first + other.at - 1, other.row.shift)
      BY <1>4
    <3>2. spot.row.first = other.row.first
      BY <2>1, <3>1
    <3>3. spot.row.first \in Nat /\ spot.at \in Nat /\ other.at \in Nat
      BY <1>1, RowsAre
    <3> QED
      BY <2>1, <3>2, <3>3
  <2>3. spot.row = other.row
    BY <1>1, <2>1, <2>2, RowsAre
  <2> QED
    BY <1>1, <2>2, <2>3
<1> QED
  BY <1>3, <1>5

LEMMA KeyMapGivesBack ==
  ASSUME NEW c \in Typeable
  PROVE  /\ KeyMap[c].keycode \in 4 .. 56 /\ KeyMap[c].shift \in BOOLEAN
         /\ CharacterOf(KeyMap[c].keycode, KeyMap[c].shift) = c
<1>1. \A d \in Typeable : /\ SpotOf(d) \in Spots /\ CharacterAt(SpotOf(d)) = d
                          /\ KeyMap[d] = StrokeAt(SpotOf(d))
  BY DEF Typeable, SpotOf, KeyMap
<1>2. KeyMap[c].keycode \in 4 .. 56 /\ KeyMap[c].shift \in BOOLEAN
  BY <1>1, StrokesDiffer
<1>3. KeyMap[c] = [keycode |-> KeyMap[c].keycode, shift |-> KeyMap[c].shift]
  BY <1>1 DEF StrokeAt
<1>4. \A d \in Typeable : KeyMap[d] = KeyMap[c] => d = c
  BY <1>1, StrokesDiffer
<1> DEFINE Is(d) == KeyMap[d] = [keycode |-> KeyMap[c].keycode, shift |-> KeyMap[c].shift]
<1>5. CharacterOf(KeyMap[c].keycode, KeyMap[c].shift) = CHOOSE d \in Typeable : Is(d)
  BY DEF CharacterOf
<1>6. Is(c) /\ \A d \in Typeable : Is(d) => d = c
  BY <1>3, <1>4
<1> HIDE DEF Is
<1> QED
  BY <1>2, <1>5, <1>6
--------------------------------------------------------------------------------
(***************************************************************************)
(* A text that is typed, key by key, is the text.                           *)
(***************************************************************************)
KeyStrokes == [kind : {"key"}, keycode : Nat, direction : {"down", "up"}]

LEMMA StrokesType ==
  ASSUME NEW c \in Typeable
  PROVE  Strokes(c) \in Seq(KeyStrokes)
<1>1. \A keycode \in Nat, direction \in {"down", "up"} : Key(keycode, direction) \in KeyStrokes
  BY DEF Key, KeyStrokes
<1>2. KeyMap[c].keycode \in Nat /\ HidKeyShift \in Nat
  BY KeyMapGivesBack DEF HidKeyShift
<1> DEFINE press == <<Key(KeyMap[c].keycode, "down"), Key(KeyMap[c].keycode, "up")>>
           shifted == <<Key(HidKeyShift, "down")>> \o press \o <<Key(HidKeyShift, "up")>>
<1>3. press \in Seq(KeyStrokes)
  BY <1>1, <1>2
<1>4. \A direction \in {"down", "up"} : <<Key(HidKeyShift, direction)>> \in Seq(KeyStrokes)
  BY <1>1, <1>2
<1> HIDE DEF press
<1>5. shifted \in Seq(KeyStrokes)
  BY <1>3, <1>4, ConcatProperties
<1>6. Strokes(c) = IF KeyMap[c].shift THEN shifted ELSE press
  BY DEF Strokes, press
<1> QED
  BY <1>3, <1>5, <1>6

LEMMA StrokesAreTyped ==
  ASSUME NEW c \in Typeable, NEW typed
  PROVE  Pressed([held |-> {}, typed |-> typed], Strokes(c))
           = [held |-> {}, typed |-> Append(typed, c)]
<1> DEFINE k     == KeyMap[c].keycode
           press == <<Key(k, "down"), Key(k, "up")>>
           shift == <<Key(HidKeyShift, "down")>>
           lift  == <<Key(HidKeyShift, "up")>>
           Board(held, text) == [held |-> held, typed |-> text]
<1>1. /\ k \in 4 .. 56 /\ KeyMap[c].shift \in BOOLEAN
      /\ CharacterOf(k, KeyMap[c].shift) = c
  BY KeyMapGivesBack
<1>2. \A i \in Nat, direction \in {"down", "up"} : Key(i, direction) \in KeyStrokes
  BY DEF Key, KeyStrokes
<1>3. press \in Seq(KeyStrokes) /\ shift \in Seq(KeyStrokes) /\ lift \in Seq(KeyStrokes)
  BY <1>1, <1>2 DEF HidKeyShift
<1>4. ASSUME NEW held, k \notin held, (HidKeyShift \in held) = KeyMap[c].shift
      PROVE  Pressed(Board(held, typed), press) = Board(held, Append(typed, c))
  <2>1. Press(Board(held, typed), Key(k, "down")) = Board(held \cup {k}, Append(typed, c))
    <3>1. k # HidKeyShift
      BY <1>1 DEF HidKeyShift
    <3>2. CharacterOf(k, HidKeyShift \in held) = c
      BY <1>1, <1>4
    <3> QED
      BY <3>1, <3>2 DEF Press, Key
  <2>2. Press(Board(held \cup {k}, Append(typed, c)), Key(k, "up")) = Board(held, Append(typed, c))
    <3>1. (held \cup {k}) \ {k} = held
      BY <1>4
    <3> QED
      BY <3>1 DEF Press, Key
  <2>3. press # <<>> /\ Head(press) = Key(k, "down") /\ Tail(press) = <<Key(k, "up")>>
    OBVIOUS
  <2> HIDE DEF press, Board
  <2>4. Pressed(Board(held, typed), press)
          = Pressed(Board(held \cup {k}, Append(typed, c)), <<Key(k, "up")>>)
    BY <1>3, <2>1, <2>3, PressedNext
  <2> QED
    BY <2>2, <2>4, PressedOne
<1>5. CASE KeyMap[c].shift = FALSE
  <2>1. Strokes(c) = press
    BY <1>5 DEF Strokes
  <2>2. Pressed(Board({}, typed), press) = Board({}, Append(typed, c))
    <3>0. (HidKeyShift \in {}) = FALSE
      OBVIOUS
    <3>1. (HidKeyShift \in {}) = KeyMap[c].shift /\ k \notin {}
      BY <1>5, <3>0, Zenon
    <3> HIDE DEF k, press, Board
    <3> QED
      BY <1>4, <3>1
  <2> QED
    BY <2>1, <2>2
<1>6. CASE KeyMap[c].shift = TRUE
  <2>1. Strokes(c) = shift \o press \o lift
    BY <1>6 DEF Strokes
  <2>2. Pressed(Board({}, typed), shift) = Board({HidKeyShift}, typed)
    <3>1. Press(Board({}, typed), Key(HidKeyShift, "down")) = Board({HidKeyShift}, typed)
      BY DEF Press, Key
    <3> QED
      BY <3>1, PressedOne
  <2>3. Pressed(Board({HidKeyShift}, typed), press) = Board({HidKeyShift}, Append(typed, c))
    <3>1. (HidKeyShift \in {HidKeyShift}) = KeyMap[c].shift /\ k \notin {HidKeyShift}
      BY <1>1, <1>6 DEF HidKeyShift
    <3> HIDE DEF k, press, Board
    <3> QED
      BY <1>4, <3>1
  <2>4. Pressed(Board({HidKeyShift}, Append(typed, c)), lift) = Board({}, Append(typed, c))
    <3>1. Press(Board({HidKeyShift}, Append(typed, c)), Key(HidKeyShift, "up"))
            = Board({}, Append(typed, c))
      BY DEF Press, Key
    <3> QED
      BY <3>1, PressedOne
  <2> HIDE DEF press, shift, lift, Board
  <2>5. shift \o press \in Seq(KeyStrokes)
    BY <1>3, ConcatProperties
  <2>6. Pressed(Board({}, typed), (shift \o press) \o lift)
          = Pressed(Pressed(Pressed(Board({}, typed), shift), press), lift)
    <3>1. Pressed(Board({}, typed), shift \o press) = Pressed(Pressed(Board({}, typed), shift), press)
      BY <1>3, PressedJoined
    <3>2. Pressed(Board({}, typed), (shift \o press) \o lift)
            = Pressed(Pressed(Board({}, typed), shift \o press), lift)
      BY <1>3, <2>5, PressedJoined
    <3> QED
      BY <3>1, <3>2
  <2>7. Pressed(Board({}, typed), Strokes(c)) = Board({}, Append(typed, c))
    BY <2>1, <2>2, <2>3, <2>4, <2>6
  <2> QED
    BY <2>7 DEF Board
<1> QED
  BY <1>1, <1>5, <1>6

\* What is appended to a sequence that follows s is appended to the whole.
AppendsAfter(S, s) == \A t \in Seq(S) : \A e \in S : Append(s \o t, e) = s \o Append(t, e)

LEMMA AppendIsAfter ==
  ASSUME NEW S, NEW s \in Seq(S)
  PROVE  AppendsAfter(S, s)
<1> SUFFICES ASSUME NEW t \in Seq(S), NEW e \in S
             PROVE  Append(s \o t, e) = s \o Append(t, e)
  BY DEF AppendsAfter
<1> QED
  OBVIOUS

\* On a keyboard with nothing held, the key events of a text type the text, whatever its
\* characters are, and hold nothing afterwards: keymap.ts with IdbClient.typeText.
THEOREM KeyEventsTypeTheText ==
  ASSUME NEW S, NEW typed \in Seq(S), NEW text \in Seq(S), UnmappedCharacters(text) = {}
  PROVE  /\ KeyEvents(text) \in Seq(KeyStrokes)
         /\ Pressed([held |-> {}, typed |-> typed], KeyEvents(text))
              = [held |-> {}, typed |-> typed \o text]
<1> DEFINE n == Len(text)
           strokes == [i \in DOMAIN text |-> Strokes(text[i])]
           Board(s) == [held |-> {}, typed |-> s]
<1>1. n \in Nat /\ DOMAIN text = 1 .. n /\ \A i \in 1 .. n : text[i] \in S
  BY LenProperties, ElementOfSeq
<1>2. \A i \in 1 .. n : text[i] \in Typeable
  BY <1>1 DEF UnmappedCharacters, Range
<1>3. strokes \in [1 .. n -> Seq(KeyStrokes)]
  BY <1>1, <1>2, StrokesType
<1>4. PICK h : Joins(strokes, n, h)
  BY <1>1, JoinExists
<1>5. KeyEvents(text) = h[n] /\ \A i \in 0 .. n : h[i] \in Seq(KeyStrokes)
  <2>1. KeyEvents(text) = FlattenSeq(strokes)
    BY DEF KeyEvents
  <2> HIDE DEF strokes, n
  <2> QED
    BY <1>1, <1>3, <1>4, <2>1, JoinIsFlattenSeq
<1> DEFINE T == {m \in 0 .. n : Pressed(Board(typed), h[m]) = Board(typed \o SubSeq(text, 1, m))}
<1>6. 0 \in T
  <2>1. SubSeq(text, 1, 0) = <<>> /\ typed \o <<>> = typed
    BY SubSeqEmpty, ConcatEmptySeq
  <2>2. h[0] = <<>>
    BY <1>4 DEF Joins
  <2>3. Pressed(Board(typed), h[0]) = Board(typed)
    BY <2>2, PressedNothing
  <2>4. Pressed(Board(typed), h[0]) = Board(typed \o SubSeq(text, 1, 0))
    <3>1. typed \o SubSeq(text, 1, 0) = typed
      BY <2>1
    <3> HIDE DEF Board
    <3> QED
      BY <2>3, <3>1, Zenon
  <2> QED
    BY <1>1, <2>4
<1>7. ASSUME NEW m \in 1 .. n, m - 1 \in T PROVE m \in T
  <2> DEFINE before == SubSeq(text, 1, m - 1)
  <2>1. h[m] = h[m - 1] \o Strokes(text[m])
    BY <1>1, <1>4 DEF Joins
  <2>2. h[m - 1] \in Seq(KeyStrokes) /\ Strokes(text[m]) \in Seq(KeyStrokes)
    BY <1>2, <1>5, StrokesType
  <2>3. before \in Seq(S) /\ SubSeq(text, 1, m) = Append(before, text[m])
    BY <1>1, SubSeqProperties, SubSeqRecursiveSecond
  <2>4. Append(typed \o before, text[m]) = typed \o Append(before, text[m])
    <3>1. text[m] \in S /\ before \in Seq(S)
      BY <1>1, <2>3
    <3>2. AppendsAfter(S, typed)
      BY AppendIsAfter
    <3> HIDE DEF before, n
    <3>3. \A e \in S : Append(typed \o before, e) = typed \o Append(before, e)
      BY <3>1, <3>2, Zenon DEF AppendsAfter
    <3> QED
      BY <3>1, <3>3, Zenon
  <2>5. Pressed(Board(typed), h[m - 1]) = Board(typed \o before)
    BY <1>7
  <2> HIDE DEF before, Board
  <2>6. Pressed(Board(typed), h[m]) = Pressed(Board(typed \o before), Strokes(text[m]))
    BY <2>1, <2>2, <2>5, PressedJoined
  <2>7. Pressed(Board(typed \o before), Strokes(text[m])) = Board(Append(typed \o before, text[m]))
    BY <1>2, StrokesAreTyped DEF Board
  <2>8. Pressed(Board(typed), h[m]) = Board(typed \o SubSeq(text, 1, m))
    <3>1. typed \o SubSeq(text, 1, m) = Append(typed \o before, text[m])
      BY <2>3, <2>4
    <3> QED
      BY <2>6, <2>7, <3>1, Zenon
  <2> QED
    BY <1>1, <2>8
<1> HIDE DEF T, n
<1>8. n \in T
  <2>1. 0 .. n \subseteq T
    BY <1>1, <1>6, <1>7, CountingUp
  <2> QED
    BY <1>1, <2>1
<1>9. SubSeq(text, 1, n) = text
  BY SubSeqFull DEF n
<1>10. n \in 0 .. n
  BY <1>1
<1> QED
  BY <1>5, <1>8, <1>9, <1>10 DEF T

--------------------------------------------------------------------------------
(***************************************************************************)
(* What has been typed, as calls end one after the other.                   *)
(***************************************************************************)
Pieces(n, S) == [1 .. n -> Seq(S)]

Flattens(S, n, seqs, h) ==
  /\ FlattenSeq(seqs) = h[n] /\ h[0] = <<>>
  /\ \A i \in 0 .. n : h[i] \in Seq(S)
  /\ \A i \in 1 .. n : h[i] = h[i - 1] \o seqs[i]

LEMMA JoinOf ==
  ASSUME NEW S, NEW n \in Nat, NEW seqs \in Pieces(n, S)
  PROVE  \E h : Flattens(S, n, seqs, h)
<1>1. PICK h : Joins(seqs, n, h)
  BY JoinExists
<1>2. FlattenSeq(seqs) = h[n] /\ \A i \in 0 .. n : h[i] \in Seq(S)
  BY <1>1, JoinIsFlattenSeq DEF Pieces
<1>3. h[0] = <<>> /\ \A i \in 1 .. n : h[i] = h[i - 1] \o seqs[i]
  BY <1>1 DEF Joins
<1>4. Flattens(S, n, seqs, h)
  BY <1>2, <1>3 DEF Flattens
<1> QED
  BY <1>4

\* Nothing is added by an empty one at the end.
LEMMA FlattenAnEmptyOne ==
  ASSUME NEW S, NEW n \in Nat, NEW seqs \in Pieces(n, S),
         NEW more \in Pieces(n + 1, S),
         more[n + 1] = <<>>, \A i \in 1 .. n : more[i] = seqs[i]
  PROVE  FlattenSeq(more) = FlattenSeq(seqs)
<1>0. n + 1 \in Nat
  OBVIOUS
<1>1. PICK h : Flattens(S, n + 1, more, h)
  BY <1>0, JoinOf
<1>2. PICK g : Flattens(S, n, seqs, g)
  BY JoinOf
<1> DEFINE T == {i \in 0 .. n : g[i] = h[i]}
<1>3. 0 \in T
  BY <1>1, <1>2 DEF Flattens
<1>4. ASSUME NEW m \in 1 .. n, m - 1 \in T PROVE m \in T
  <2>1. m \in 1 .. n + 1 /\ more[m] = seqs[m] /\ m \in 0 .. n
    OBVIOUS
  <2>2. h[m] = h[m - 1] \o more[m] /\ g[m] = g[m - 1] \o seqs[m] /\ g[m - 1] = h[m - 1]
    BY <1>1, <1>2, <1>4, <2>1 DEF Flattens
  <2>3. h[m] = g[m]
    BY ONLY <2>1, <2>2
  <2> QED
    BY <2>1, <2>3
<1> HIDE DEF T
<1>5. g[n] = h[n]
  <2>1. 0 .. n \subseteq T
    BY <1>3, <1>4, CountingUp
  <2> QED
    BY <2>1 DEF T
<1>6. h[n + 1] = h[n]
  <2>0. n + 1 \in 1 .. n + 1 /\ (n + 1) - 1 = n
    OBVIOUS
  <2>1. h[n + 1] = h[(n + 1) - 1] \o more[n + 1]
    BY <1>1, <2>0 DEF Flattens
  <2>2. h[n] \in Seq(S)
    BY <1>1 DEF Flattens
  <2> QED
    BY <2>0, <2>1, <2>2, ConcatEmptySeq
<1> QED
  BY <1>1, <1>2, <1>5, <1>6 DEF Flattens

\* One that comes last of those that are not empty is added at the end.
LEMMA FlattenTheLastOne ==
  ASSUME NEW S, NEW n \in Nat, NEW seqs \in Pieces(n, S), NEW more \in Pieces(n, S),
         NEW k \in 1 .. n, seqs[k] = <<>>,
         \A i \in 1 .. n : i < k => more[i] = seqs[i],
         \A i \in 1 .. n : k < i => more[i] = <<>> /\ seqs[i] = <<>>
  PROVE  FlattenSeq(more) = FlattenSeq(seqs) \o more[k]
<1>0. n \in Nat
  OBVIOUS
<1>1. PICK h : Flattens(S, n, seqs, h)
  BY JoinOf
<1>2. PICK g : Flattens(S, n, more, g)
  BY JoinOf
<1> DEFINE T == {i \in 0 .. n : g[i] = IF i < k THEN h[i] ELSE h[i] \o more[k]}
<1>5. 0 \in T
  <2>1. g[0] = <<>> /\ h[0] = <<>>
    BY <1>1, <1>2 DEF Flattens
  <2>2. 0 \in 0 .. n /\ 0 < k
    OBVIOUS
  <2> QED
    BY <2>1, <2>2
<1>6. ASSUME NEW m \in 1 .. n, m - 1 \in T PROVE m \in T
  <2>1. h[m] = h[m - 1] \o seqs[m]
    BY <1>1 DEF Flattens
  <2>2. g[m] = g[m - 1] \o more[m]
    BY <1>2 DEF Flattens
  <2>3. m - 1 \in 0 .. n /\ m \in 0 .. n /\ h[m - 1] \in Seq(S) /\ more[k] \in Seq(S)
    BY <1>1 DEF Pieces, Flattens
  <2>4. CASE m < k
    <3>1. m - 1 < k /\ more[m] = seqs[m]
      BY <2>4
    <3>2. g[m - 1] = h[m - 1]
      BY <1>6, <3>1
    <3>3. g[m] = h[m]
      BY ONLY <2>1, <2>2, <3>1, <3>2
    <3> QED
      BY <2>3, <2>4, <3>3
  <2>5. CASE m = k
    <3>1. m - 1 < k /\ seqs[m] = <<>> /\ more[m] = more[k]
      BY <2>5
    <3>2. g[m - 1] = h[m - 1]
      BY <1>6, <3>1
    <3>3. h[m] = h[m - 1]
      BY <2>1, <2>3, <3>1, ConcatEmptySeq
    <3>4. g[m] = h[m] \o more[k]
      BY ONLY <2>2, <3>1, <3>2, <3>3
    <3>5. ~(m < k)
      BY <2>5
    <3> QED
      BY <2>3, <3>4, <3>5
  <2>6. CASE k < m
    <3>1. ~(m - 1 < k) /\ seqs[m] = <<>> /\ more[m] = <<>> /\ ~(m < k)
      BY <2>6
    <3>2. g[m - 1] = h[m - 1] \o more[k]
      BY <1>6, <3>1
    <3>3. h[m] = h[m - 1]
      BY <2>1, <2>3, <3>1, ConcatEmptySeq
    <3>4. g[m] = g[m - 1]
      BY <1>2, <2>2, <2>3, <3>1, ConcatEmptySeq DEF Flattens
    <3>5. g[m] = h[m] \o more[k]
      BY ONLY <3>2, <3>3, <3>4
    <3> QED
      BY <2>3, <3>1, <3>5
  <2> QED
    BY <2>4, <2>5, <2>6
<1> HIDE DEF T
<1>7. n \in T
  <2>1. 0 .. n \subseteq T
    BY <1>5, <1>6, CountingUp
  <2> QED
    BY <2>1
<1>8. g[n] = h[n] \o more[k]
  <2>1. ~(n < k)
    OBVIOUS
  <2> QED
    BY <1>7, <2>1 DEF T
<1> QED
  BY <1>1, <1>2, <1>8 DEF Flattens

\* Tickets of typers are their own.
TypersAreOwn ==
  \A c \in Calls : Typed(c) =>
    /\ Asked(c).text \in Seq(STRING)
    /\ \A d \in Calls : Typed(d) /\ call[d].ticket = call[c].ticket => d = c

LEMMA TypedAtIs ==
  ASSUME TypersAreOwn
  PROVE  /\ \A c \in Calls : Typed(c) => TypedAt(call[c].ticket) = Asked(c).text
         /\ \A t : (\A c \in Calls : ~(Typed(c) /\ call[c].ticket = t)) => TypedAt(t) = <<>>
         /\ \A t : TypedAt(t) \in Seq(STRING)
<1>1. ASSUME NEW c \in Calls, Typed(c)
      PROVE  TypedAt(call[c].ticket) = Asked(c).text
  <2> DEFINE t == call[c].ticket
             d == CHOOSE e \in Calls : Typed(e) /\ call[e].ticket = t
  <2>1. d \in Calls /\ Typed(d) /\ call[d].ticket = t
    BY <1>1
  <2>2. d = c
    <3> HIDE DEF d
    <3> QED
      BY <1>1, <2>1 DEF TypersAreOwn
  <2>3. TypedAt(t) = Asked(d).text
    BY <1>1 DEF TypedAt
  <2> HIDE DEF d
  <2> QED
    BY <2>2, <2>3
<1>2. ASSUME NEW t, \A c \in Calls : ~(Typed(c) /\ call[c].ticket = t)
      PROVE  TypedAt(t) = <<>>
  BY <1>2 DEF TypedAt
<1>3. ASSUME NEW t PROVE TypedAt(t) \in Seq(STRING)
  <2>1. CASE \E c \in Calls : Typed(c) /\ call[c].ticket = t
    BY <1>1, <2>1 DEF TypersAreOwn
  <2>2. CASE \A c \in Calls : ~(Typed(c) /\ call[c].ticket = t)
    <3>1. TypedAt(t) = <<>>
      BY <1>2, <2>2
    <3> QED
      BY <3>1, EmptySeq
  <2> QED
    BY <2>1, <2>2
<1> QED
  BY <1>1, <1>2, <1>3
--------------------------------------------------------------------------------
(***************************************************************************)
(* The events of each kind of input, and what the device makes of one.      *)
(***************************************************************************)
\* What is delivered that is no text, and that lets go of what it holds down.
HandsBack(events) ==
  /\ events \in Seq(Range(events)) /\ \A i \in DOMAIN events : events[i].kind # "key"
  /\ HandsOff(events) \/ (events # <<>> /\ Lifts(events[Len(events)]))

LEMMA TapHandsBack ==
  ASSUME NEW p, NEW count \in Nat \ {0}
  PROVE  HandsBack(TapEvents(p, count))
<1> DEFINE events == TapEvents(p, count)
           n == 3 * count
           S == {Touch(p, "down"), Delay, Touch(p, "up")}
<1>1. n \in Nat /\ n >= 1 /\ n % 3 = 0
  OBVIOUS
<1>2. events = [k \in 1 .. n |-> CASE k % 3 = 1 -> Touch(p, "down")
                                   [] k % 3 = 2 -> Delay
                                   [] k % 3 = 0 -> Touch(p, "up")]
  BY DEF TapEvents
<1> HIDE DEF events, n
<1>3. \A k \in 1 .. n : k % 3 \in {0, 1, 2}
  BY <1>1
<1>4. \A k \in 1 .. n : events[k] \in S
  BY <1>2, <1>3
<1>5. events \in [1 .. n -> S]
  BY <1>2, <1>4
<1>6. events \in Seq(S) /\ Len(events) = n /\ DOMAIN events = 1 .. n
  BY <1>1, <1>5
<1>7. events[n] = Touch(p, "up")
  BY <1>1, <1>2
<1>8. \A e \in S : e.kind # "key"
  BY DEF Touch, Delay
<1>9. events \in Seq(Range(events))
  BY <1>6, SeqOfRange
<1>10. events # <<>>
  BY <1>1, <1>6
<1>11. Lifts(Touch(p, "up"))
  BY DEF Lifts, Touch
<1> QED
  BY <1>4, <1>6, <1>7, <1>8, <1>9, <1>10, <1>11 DEF HandsBack, events

LEMMA SwipeHandsBack ==
  ASSUME NEW from, NEW to
  PROVE  HandsBack(<<[kind |-> "swipe", from |-> from, to |-> to]>>)
<1> DEFINE event == [kind |-> "swipe", from |-> from, to |-> to]
<1>1. event.kind = "swipe"
  OBVIOUS
<1> HIDE DEF event
<1>2. <<event>> \in Seq({event}) /\ DOMAIN <<event>> = 1 .. 1 /\ <<event>>[1] = event
  OBVIOUS
<1>3. <<event>> \in Seq(Range(<<event>>))
  BY <1>2, SeqOfRange
<1> QED
  BY <1>1, <1>2, <1>3 DEF HandsBack, HandsOff, event

LEMMA ButtonHandsBack ==
  ASSUME NEW held
  PROVE  HandsBack(ButtonEvents(held))
<1> DEFINE S == {Button("down"), Delay, Button("up")}
<1>1. \A e \in S : e.kind # "key"
  BY DEF Button, Delay
<1>2. Lifts(Button("up"))
  BY DEF Lifts, Button
<1>3. ASSUME NEW middle \in Seq(S)
      PROVE  HandsBack((<<Button("down")>> \o middle) \o <<Button("up")>>)
  <2> DEFINE events == (<<Button("down")>> \o middle) \o <<Button("up")>>
             front  == <<Button("down")>> \o middle
  <2>1. <<Button("down")>> \in Seq(S) /\ <<Button("up")>> \in Seq(S)
        /\ Len(<<Button("up")>>) = 1 /\ <<Button("up")>>[1] = Button("up")
    OBVIOUS
  <2>2. front \in Seq(S)
    BY <2>1, ConcatProperties
  <2> HIDE DEF S
  <2>3. events = front \o <<Button("up")>>
    OBVIOUS
  <2> HIDE DEF events, front
  <2>4. /\ events \in Seq(S) /\ Len(events) = Len(front) + 1
        /\ \A i \in 1 .. Len(front) + 1 :
             events[i] = IF i <= Len(front) THEN front[i] ELSE <<Button("up")>>[i - Len(front)]
    BY <2>1, <2>2, <2>3, ConcatProperties
  <2>5. Len(front) \in Nat
    BY <2>2, LenProperties
  <2>6. events[Len(events)] = Button("up") /\ events # <<>>
    BY <2>1, <2>4, <2>5, EmptySeq
  <2>7. \A i \in DOMAIN events : events[i] \in S
    BY <2>4, LenProperties, ElementOfSeq
  <2>8. events \in Seq(Range(events))
    BY <2>4, SeqOfRange
  <2>9. HandsBack(events)
    BY <1>1, <1>2, <2>6, <2>7, <2>8 DEF HandsBack
  <2> QED
    BY <2>9 DEF events
<1>4. <<Delay>> \in Seq(S) /\ <<>> \in Seq(S)
  OBVIOUS
<1> HIDE DEF S
<1>5. \E middle \in {<<Delay>>, <<>>} :
        ButtonEvents(held) = (<<Button("down")>> \o middle) \o <<Button("up")>>
  BY DEF ButtonEvents
<1> QED
  BY <1>3, <1>4, <1>5

\* The first event, and the rest of them.
LEMMA RestOfEvents ==
  ASSUME NEW events, events \in Seq(Range(events)), events # <<>>
  PROVE  /\ \E i \in DOMAIN events : Head(events) = events[i]
         /\ Tail(events) \in Seq(Range(Tail(events)))
         /\ \A i \in DOMAIN Tail(events) : \E j \in DOMAIN events : Tail(events)[i] = events[j]
         /\ Tail(events) = <<>> => Head(events) = events[Len(events)]
         /\ Tail(events) # <<>> => Tail(events)[Len(Tail(events))] = events[Len(events)]
<1> DEFINE n == Len(events)
           S == Range(events)
           after == Tail(events)
<1>1. /\ n \in Nat /\ n >= 1 /\ DOMAIN events = 1 .. n
      /\ after \in Seq(S) /\ Len(after) = n - 1 /\ DOMAIN after = 1 .. n - 1
      /\ \A i \in 1 .. n - 1 : after[i] = events[i + 1]
      /\ Head(events) = events[1]
  <2>1. n \in Nat /\ n >= 1 /\ DOMAIN events = 1 .. n
    BY EmptySeq, LenProperties
  <2>2. /\ after \in Seq(S) /\ Len(after) = n - 1
        /\ \A i \in 1 .. Len(after) : after[i] = events[i + 1]
    BY HeadTailProperties
  <2>3. DOMAIN after = 1 .. Len(after)
    BY <2>2, LenProperties
  <2>4. Head(events) = events[1]
    OBVIOUS
  <2> QED
    BY <2>1, <2>2, <2>3, <2>4
<1>2. after \in Seq(Range(after))
  BY <1>1, SeqOfRange
<1> HIDE DEF n, S, after
<1>3. after = <<>> => n = 1
  <2>1. after = <<>> => Len(after) = 0
    BY EmptySeq
  <2> QED
    BY <1>1, <2>1
<1>4. after # <<>> => n # 1
  <2>1. after # <<>> => Len(after) # 0
    BY <1>1, EmptySeq
  <2> QED
    BY <1>1, <2>1
<1>5. \A i \in 1 .. n - 1 : i + 1 \in 1 .. n
  BY <1>1
<1>6. n # 1 => after[n - 1] = events[n]
  <2>1. n # 1 => n - 1 \in 1 .. n - 1 /\ (n - 1) + 1 = n
    BY <1>1
  <2> QED
    BY <1>1, <2>1
<1>7. 1 \in 1 .. n
  BY <1>1
<1>8. \A i \in DOMAIN after : \E j \in DOMAIN events : after[i] = events[j]
  BY <1>1, <1>5
<1> QED
  BY <1>1, <1>2, <1>3, <1>4, <1>6, <1>7, <1>8 DEF after, n

LEMMA FlipKeepsHands ==
  ASSUME NEW i, {"keyboard", "finger"} \subseteq DOMAIN device
  PROVE  /\ Flip(device, i).keyboard = device.keyboard /\ Flip(device, i).finger = device.finger
         /\ DOMAIN Flip(device, i) = DOMAIN device
  BY DEF Flip

LEMMA TakeMeans ==
  ASSUME NEW event, {"keyboard", "finger"} \subseteq DOMAIN device
  PROVE  LET after == Take(device, event)
         IN  /\ event.kind = "key" /\ ~Swallows(device) =>
                  after.keyboard = Press(device.keyboard, event) /\ after.finger = device.finger
             /\ event.kind # "key" => after.keyboard = device.keyboard
             /\ event.kind \notin {"key", "touch", "button"} => after.finger = device.finger
             /\ Lifts(event) => after.finger = None
<1> DEFINE i == ReadPointAt(device, event.at)
           up == IF i # 0 /\ BridgeTree(device)[i].bridge THEN Flip(device, i) ELSE device
<1>1. up.keyboard = device.keyboard /\ DOMAIN up = DOMAIN device
  BY FlipKeepsHands
<1>2. CASE event.kind = "key"
  BY <1>2 DEF Take, Lifts
<1>3. CASE event.kind = "touch" /\ event.direction = "up"
  <2>1. Take(device, event) = [up EXCEPT !.finger = None]
    BY <1>3 DEF Take
  <2> HIDE DEF up
  <2> QED
    BY <1>1, <1>3, <2>1
<1>4. CASE event.kind # "key" /\ ~(event.kind = "touch" /\ event.direction = "up")
  BY <1>4 DEF Take, Lifts
<1> QED
  BY <1>2, <1>3, <1>4

--------------------------------------------------------------------------------
(***************************************************************************)
(* Who has typed, as the calls move.                                        *)
(***************************************************************************)
TypedOnes ==
  /\ \A c \in Calls : Typed(c) => TypedAt(call[c].ticket) = Asked(c).text
  /\ \A t : (\A c \in Calls : ~(Typed(c) /\ call[c].ticket = t)) => TypedAt(t) = <<>>
  /\ \A t : TypedAt(t) \in Seq(STRING)

LEMMA TypedOnesAre == TypersAreOrdered => TypedOnes
<1>1. TypersAreOrdered => TypersAreOwn
  BY DEF TypersAreOrdered, TypersAreOwn
<1> QED
  BY <1>1, TypedAtIs DEF TypedOnes

LEMMA TypedOnesAreThen == TypersAreOrdered' => TypedOnes'
  BY TypedOnesAre, PTL

\* A bystander has typed what it has typed, and goes on with what it was doing.
LEMMA BystanderTypes ==
  ASSUME IInv, NEW d \in Calls, Bystands(d)
  PROVE  /\ Pc(d)' = Pc(d) /\ (Typed(d)' <=> Typed(d))
         /\ Typed(d) => Asked(d)' = Asked(d) /\ call'[d].ticket = call[d].ticket
         /\ d \in Active' <=> d \in Active
         /\ d \in Active =>
              /\ Asked(d)' = Asked(d) /\ (Activating(d)' <=> Activating(d))
              /\ "ticket" \in DOMAIN call'[d] <=> "ticket" \in DOMAIN call[d]
              /\ "events" \in DOMAIN call'[d] <=> "events" \in DOMAIN call[d]
              /\ "events" \in DOMAIN call[d] => call'[d].events = call[d].events
<1>1. CASE call'[d] = call[d]
  BY <1>1 DEF Pc, Typed, Asked, Active, Activating
<1>2. CASE Pc(d) = "done" /\ call'[d] = Past(d)
  <2> DEFINE kept == {"pc"} \cup IF Asked(d).op = "type" THEN {"request", "outcome", "ticket"} ELSE {}
  <2>1. call'[d] = Of(call[d], kept) /\ "pc" \in DOMAIN call[d]
    BY <1>2 DEF Past, IInv
  <2>2. DOMAIN Of(call[d], kept) = DOMAIN call[d] \cap kept
        /\ \A f \in DOMAIN call[d] \cap kept : Of(call[d], kept)[f] = call[d][f]
    BY OfIs
  <2>3. Pc(d)' = "done"
    BY <1>2, <2>1, <2>2 DEF Pc
  <2>4. CASE Asked(d).op = "type" /\ "request" \in DOMAIN call[d]
    <3>1. /\ "request" \in DOMAIN call'[d] /\ call'[d]["request"] = call[d]["request"]
          /\ "ticket" \in DOMAIN call'[d] <=> "ticket" \in DOMAIN call[d]
          /\ "ticket" \in DOMAIN call[d] => call'[d]["ticket"] = call[d]["ticket"]
      BY <2>1, <2>2, <2>4
    <3> QED
      BY <1>2, <2>3, <2>4, <3>1 DEF Typed, Asked, Active, Pc
  <2>5. CASE Asked(d).op # "type" \/ "request" \notin DOMAIN call[d]
    <3>1. "request" \notin DOMAIN call'[d]
      BY <2>1, <2>2, <2>5
    <3>2. Asked(d).op # "type"
      BY <2>5 DEF Asked
    <3>3. Asked(d)'.op # "type"
      BY <3>1 DEF Asked
    <3> QED
      BY <1>2, <2>3, <3>2, <3>3 DEF Typed, Active, Pc
  <2> QED
    BY <2>4, <2>5
<1>3. CASE /\ d \in Active /\ DOMAIN call'[d] = DOMAIN call[d]
           /\ \A f \in DOMAIN call[d] \ {"calm", "sure"} : call'[d][f] = call[d][f]
  <2>1. /\ Pc(d)' = Pc(d) /\ Pc(d) \notin {"idle", "done"} /\ Asked(d)' = Asked(d)
        /\ d \in Active'
    BY <1>3, ActiveCall DEF Pc, Active, Asked
  <2> QED
    BY <1>3, <2>1 DEF Typed, Activating
<1> QED
  BY <1>1, <1>2, <1>3 DEF Bystands

\* The step is c's, if it is anybody's.
StepOf(c) == \A d \in Calls : d # c => Bystands(d)

\* c has no ticket but at the lock, and has typed only if its turn is over.
OwnTurn(c) ==
  /\ ~Typed(c)
  /\ c \in Active' /\ Asked(c)'.op = "type" /\ Pc(c)' \notin {"wait", "run"} =>
       "ticket" \notin DOMAIN call'[c]
  /\ Typed(c)' =>
       /\ Asked(c)'.text \in Seq(STRING) /\ call'[c].ticket \in Tickets
       /\ status[call'[c].ticket] \notin Settled /\ status'[call'[c].ticket] \in Settled

LEMMA TypersStay ==
  ASSUME IInv, TypersAreOrdered, NEW c, StepOf(c), c \in Calls => OwnTurn(c) \/ Bystands(c),
         \A t \in Tickets : status[t] \in Settled => status'[t] \in Settled
  PROVE  TypersAreOrdered'
<1>1. ASSUME NEW d \in Calls, d \in Active', Asked(d)'.op = "type", Pc(d)' \notin {"wait", "run"}
      PROVE  "ticket" \notin DOMAIN call'[d]
  <2>1. CASE Bystands(d)
    BY <1>1, <2>1, BystanderTypes DEF TypersAreOrdered
  <2>2. CASE ~Bystands(d)
    BY <1>1, <2>2 DEF StepOf, OwnTurn
  <2> QED
    BY <2>1, <2>2
<1>2. ASSUME NEW d \in Calls, Typed(d)'
      PROVE  /\ Asked(d)'.text \in Seq(STRING)
             /\ call'[d].ticket \in Tickets /\ status'[call'[d].ticket] \in Settled
             /\ status[call'[d].ticket] \in Settled <=> Bystands(d)
             /\ Bystands(d) => Typed(d) /\ call'[d].ticket = call[d].ticket
  <2>1. CASE Bystands(d)
    BY <1>2, <2>1, BystanderTypes DEF TypersAreOrdered
  <2>2. CASE ~Bystands(d)
    BY <1>2, <2>2 DEF StepOf, OwnTurn
  <2> QED
    BY <2>1, <2>2
<1>3. ASSUME NEW d \in Calls, NEW e \in Calls, Typed(d)', Typed(e)', call'[d].ticket = call'[e].ticket
      PROVE  d = e
  <2>1. Bystands(d) <=> Bystands(e)
    BY <1>2, <1>3
  <2>2. CASE Bystands(d)
    BY <1>2, <1>3, <2>1, <2>2 DEF TypersAreOrdered
  <2>3. CASE ~Bystands(d)
    BY <2>1, <2>3 DEF StepOf
  <2> QED
    BY <2>2, <2>3
<1>4. Active' \subseteq Calls
  BY DEF Active
<1> QED
  BY <1>1, <1>2, <1>3, <1>4 DEF TypersAreOrdered

\* What has been typed is the same as long as nobody has ended typing.
LEMMA NobodyTypes ==
  ASSUME IInv, IInv', TypersAreOrdered, TypersAreOrdered',
         arrived' \in {arrived, arrived + 1},
         \A d \in Calls : Bystands(d) \/ (~Typed(d) /\ ~Typed(d)'),
         arrived' # arrived => status[arrived + 1] = "none"
  PROVE  WholeSoFar' = WholeSoFar
<1> DEFINE seqs == [t \in 1 .. arrived |-> TypedAt(t)]
           more == [t \in 1 .. arrived' |-> TypedAt(t)']
<1>1. TypedOnes /\ TypedOnes' /\ arrived \in Nat
  BY TypedOnesAre, TypedOnesAreThen DEF IInv, ChainIInv, ChainTypeOK
<1>2. \A d \in Calls : /\ Typed(d)' <=> Typed(d)
                       /\ Typed(d) => Asked(d)' = Asked(d) /\ call'[d].ticket = call[d].ticket
  BY BystanderTypes
<1>3. ASSUME NEW t PROVE TypedAt(t)' = TypedAt(t)
  <2>1. CASE \E d \in Calls : Typed(d) /\ call[d].ticket = t
    BY <1>1, <1>2, <2>1 DEF TypedOnes
  <2>2. CASE \A d \in Calls : ~(Typed(d) /\ call[d].ticket = t)
    <3>1. TypedAt(t) = <<>>
      BY <1>1, <2>2 DEF TypedOnes
    <3>2. \A d \in Calls : ~(Typed(d)' /\ call'[d].ticket = t)
      BY <1>2, <2>2
    <3>3. TypedAt(t)' = <<>>
      BY <1>1, <3>2 DEF TypedOnes
    <3> QED
      BY <3>1, <3>3
  <2> QED
    BY <2>1, <2>2
<1>4. TypedSoFar = FlattenSeq(seqs) /\ TypedSoFar' = FlattenSeq(more)
  BY DEF TypedSoFar
<1>5. CASE arrived' = arrived
  <2>1. more = seqs
    BY <1>3, <1>5
  <2> HIDE DEF more, seqs
  <2> QED
    BY <1>4, <2>1 DEF WholeSoFar
<1>6. CASE arrived' # arrived
  <2>1. arrived' = arrived + 1 /\ status[arrived + 1] = "none"
    BY <1>6
  <2>a. PICK next : next = arrived + 1
    OBVIOUS
  <2>2. \A d \in Calls : ~(Typed(d) /\ call[d].ticket = next)
    BY <2>1, <2>a DEF TypersAreOrdered, Settled
  <2>b. TypedAt(next) = <<>>
    BY <1>1, <2>2 DEF TypedOnes
  <2>3. TypedAt(next)' = <<>>
    BY <1>3, <2>b
  <2>4. seqs \in Pieces(arrived, STRING) /\ more \in Pieces(arrived + 1, STRING)
    BY <1>1, <1>3, <2>1 DEF TypedOnes, Pieces
  <2>5. more[arrived + 1] = <<>>
    <3>1. next \in 1 .. arrived'
      BY <1>1, <2>1, <2>a
    <3>2. more[next] = TypedAt(next)'
      BY <3>1
    <3> QED
      BY <2>a, <2>3, <3>2
  <2>6. \A i \in 1 .. arrived : more[i] = seqs[i]
    BY <1>1, <1>3, <2>1
  <2> HIDE DEF more, seqs
  <2>7. FlattenSeq(more) = FlattenSeq(seqs)
    BY <1>1, <2>4, <2>5, <2>6, FlattenAnEmptyOne
  <2> QED
    BY <1>4, <2>7 DEF WholeSoFar
<1> QED
  BY <1>5, <1>6

\* A text is added when its call has ended: no later one has.
LEMMA OneTypes ==
  ASSUME IInv, IInv', TypersAreOrdered, TypersAreOrdered', arrived' = arrived,
         NEW c \in Calls, StepOf(c), Asked(c)' = Asked(c), ~Typed(c), Typed(c)',
         call'[c].ticket \in Tickets, status[call'[c].ticket] = "running"
  PROVE  WholeSoFar' = [held |-> {}, typed |-> TypedSoFar \o Asked(c).text]
<1> DEFINE seqs == [t \in 1 .. arrived |-> TypedAt(t)]
           more == [t \in 1 .. arrived' |-> TypedAt(t)']
<1>0. PICK k : k = call'[c].ticket
  OBVIOUS
<1>1. TypedOnes /\ TypedOnes' /\ arrived \in Nat /\ arrived \in 0 .. MaxCalls
  BY TypedOnesAre, TypedOnesAreThen, MaxCallsAssumption DEF IInv, ChainIInv, ChainTypeOK
<1>2. \A d \in Calls \ {c} : /\ Typed(d)' <=> Typed(d)
                             /\ Typed(d) => Asked(d)' = Asked(d) /\ call'[d].ticket = call[d].ticket
  BY BystanderTypes DEF StepOf
<1>3. k \in 1 .. arrived
  BY <1>0, <1>1, MaxCallsAssumption DEF IInv, ChainIInv, ChainInv, Tickets
<1>4. \A t \in Tickets : k < t => status[t] \notin Settled
  BY <1>0, <1>1, <1>3, MaxCallsAssumption DEF IInv, ChainIInv, ChainInv, Tickets, Settled
<1>5. \A d \in Calls : Typed(d) => /\ call[d].ticket \in Tickets /\ status[call[d].ticket] \in Settled
                                   /\ call[d].ticket # k
  BY <1>0 DEF TypersAreOrdered, Settled
<1>6. TypedAt(k)' = Asked(c).text
  BY <1>0, <1>1 DEF TypedOnes
<1>7. TypedAt(k) = <<>>
  <2>1. \A d \in Calls : ~(Typed(d) /\ call[d].ticket = k)
    BY <1>5
  <2> QED
    BY <1>1, <2>1 DEF TypedOnes
<1>8. ASSUME NEW t, t # k PROVE TypedAt(t)' = TypedAt(t)
  <2>1. CASE \E d \in Calls : Typed(d) /\ call[d].ticket = t
    <3>1. PICK d \in Calls : Typed(d) /\ call[d].ticket = t
      BY <2>1
    <3>2. d # c /\ Typed(d)' /\ Asked(d)' = Asked(d) /\ call'[d].ticket = t
      BY <1>2, <3>1
    <3> QED
      BY <1>1, <3>1, <3>2 DEF TypedOnes
  <2>2. CASE \A d \in Calls : ~(Typed(d) /\ call[d].ticket = t)
    <3>1. TypedAt(t) = <<>>
      BY <1>1, <2>2 DEF TypedOnes
    <3>2. \A d \in Calls : ~(Typed(d)' /\ call'[d].ticket = t)
      BY <1>0, <1>2, <1>8, <2>2
    <3>3. TypedAt(t)' = <<>>
      BY <1>1, <3>2 DEF TypedOnes
    <3> QED
      BY <3>1, <3>3
  <2> QED
    BY <2>1, <2>2
<1>9. ASSUME NEW t \in 1 .. arrived, k < t PROVE TypedAt(t) = <<>>
  <2>1. t \in Tickets
    BY <1>1, MaxCallsAssumption DEF Tickets
  <2>2. \A d \in Calls : ~(Typed(d) /\ call[d].ticket = t)
    BY <1>4, <1>5, <1>9, <2>1
  <2> QED
    BY <1>1, <2>2 DEF TypedOnes
<1>10. TypedSoFar = FlattenSeq(seqs) /\ TypedSoFar' = FlattenSeq(more)
  BY DEF TypedSoFar
<1>11. seqs \in Pieces(arrived, STRING) /\ more \in Pieces(arrived, STRING)
  BY <1>1 DEF TypedOnes, Pieces
<1>12. /\ seqs[k] = <<>> /\ more[k] = Asked(c).text
       /\ \A i \in 1 .. arrived : i < k => more[i] = seqs[i]
       /\ \A i \in 1 .. arrived : k < i => more[i] = <<>> /\ seqs[i] = <<>>
  <2>1. \A i \in 1 .. arrived : more[i] = TypedAt(i)' /\ seqs[i] = TypedAt(i)
    OBVIOUS
  <2>2. \A i \in 1 .. arrived : i < k \/ k < i => i # k
    BY <1>3
  <2> HIDE DEF more, seqs
  <2> QED
    BY <1>3, <1>6, <1>7, <1>8, <1>9, <2>1, <2>2
<1> HIDE DEF more, seqs
<1>13. FlattenSeq(more) = FlattenSeq(seqs) \o more[k]
  <2>1. /\ seqs[k] = <<>>
        /\ \A i \in 1 .. arrived : i < k => more[i] = seqs[i]
        /\ \A i \in 1 .. arrived : k < i => more[i] = <<>> /\ seqs[i] = <<>>
    BY <1>12
  <2>2. arrived \in Nat
    BY <1>1
  <2> QED
    BY <1>3, <1>11, <2>1, <2>2, FlattenTheLastOne
<1> QED
  BY <1>10, <1>12, <1>13 DEF WholeSoFar

--------------------------------------------------------------------------------
(***************************************************************************)
(* What has been typed stays whole.                                         *)
(***************************************************************************)
\* Whoever had the lock and was done with it, stays done with it.
LEMMA SettledStay ==
  ASSUME ChainIInv,
         \/ Exclusively \/ UNCHANGED chainVars
         \/ \E u \in Tickets : StartFn(u) \/ FnSettles(u) \/ DropTail(u)
  PROVE  \A t \in Tickets : status[t] \in Settled => status'[t] \in Settled
<1>1. CASE Exclusively
  BY <1>1, ChainTurns DEF Settled
<1>2. CASE UNCHANGED chainVars
  BY <1>2 DEF chainVars
<1>3. CASE \E u \in Tickets : StartFn(u) \/ FnSettles(u) \/ DropTail(u)
  <2>1. PICK u \in Tickets : StartFn(u) \/ FnSettles(u) \/ DropTail(u)
    BY <1>3
  <2>2. StartFn(u) => status[u] = "waiting"
    BY DEF StartFn
  <2> QED
    BY <2>1, <2>2, ChainTurns DEF Settled
<1> QED
  BY <1>1, <1>2, <1>3

\* On a screen that stays, no sheet comes or goes.
LEMMA SwallowsStays ==
  ASSUME SheetsAreOverFields, IInv, IInv', DeviceOK, DeviceOK', device'.screen = device.screen
  PROVE  Swallows(device)' <=> Swallows(device)
<1> DEFINE v == View(device)
           w == View(device)'
<1>1. v \in Views /\ v.screen = device.screen
  BY DEF IInv, TypeOK, DeviceOK, View, Views
<1>2. w \in Views /\ w.screen = device'.screen
  BY DEF IInv, TypeOK, DeviceOK, View, Views
<1>3. Swallows(device) <=> HasSheet(v)
  BY DEF Swallows, HasSheet, BridgeTree
<1>4. Swallows(device)' <=> HasSheet(w)
  BY DEF Swallows, HasSheet, BridgeTree
<1> HIDE DEF v, w
<1> QED
  BY <1>1, <1>2, <1>3, <1>4 DEF SheetsAreOverFields

\* A call that is at its turn is nobody's step: it has the lock.
LEMMA AtItsTurn ==
  ASSUME IInv, NEW c \in Calls, Pc(c) = "run"
  PROVE  /\ c \in Active /\ "ticket" \in DOMAIN call[c] /\ call[c].ticket \in Tickets
         /\ status[call[c].ticket] = "running"
         /\ \A d \in Calls : Pc(d) = "run" => d = c
<1>1. c \in Active
  BY Underway
<1> QED
  BY <1>1, ActiveCall DEF Remembers, IInv, TurnsAreOwn, TypeOK

\* A bystander that is not at its turn, or whose device is left alone.
LEMMA BystanderIsWhole ==
  ASSUME IInv, IInv', NEW d \in Calls, Bystands(d), PastTheGates(d), AtTheDevice(d),
         Swallows(device)' <=> Swallows(device),
         Pc(d) = "run" =>
           /\ device'.keyboard = device.keyboard /\ device'.finger = device.finger
           /\ WholeSoFar' = WholeSoFar
  PROVE  PastTheGates(d)' /\ AtTheDevice(d)'
<1>1. PastTheGates(d)'
  <2>1. SUFFICES ASSUME d \in Active', Asked(d)'.op = "type"
                 PROVE  /\ Pc(d)' \in Delivering \cup {"sheet"} =>
                             UnmappedCharacters(Asked(d)'.text) = {}
                        /\ Pc(d)' \in Delivering => ~Swallows(device)'
    BY DEF PastTheGates
  <2> QED
    BY <2>1, BystanderTypes DEF PastTheGates
<1>2. AtTheDevice(d)'
  <2>1. CASE Pc(d)' # "run"
    BY <2>1 DEF AtTheDevice
  <2>2. CASE Pc(d)' = "run"
    <3>1. Pc(d) = "run" /\ d \in Active
      BY <2>2, BystanderTypes, Underway
    <3>2. /\ Asked(d)' = Asked(d) /\ (Activating(d)' <=> Activating(d))
          /\ "events" \in DOMAIN call'[d] <=> "events" \in DOMAIN call[d]
          /\ "events" \in DOMAIN call[d] => call'[d].events = call[d].events
      BY <3>1, BystanderTypes
    <3>3. /\ device'.keyboard = device.keyboard /\ device'.finger = device.finger
          /\ WholeSoFar' = WholeSoFar
      BY <3>1
    <3>4. TypedSoFar' = TypedSoFar
      <4>1. WholeSoFar.typed = TypedSoFar /\ WholeSoFar'.typed = TypedSoFar'
        BY DEF WholeSoFar
      <4> QED
        BY <3>3, <4>1
    <3>5. CASE Activating(d)
      BY <3>1, <3>2, <3>3, <3>5 DEF AtTheDevice
    <3>6. CASE ~Activating(d)
      <4>1. "events" \in DOMAIN call[d] /\ call'[d].events = call[d].events
            /\ "events" \in DOMAIN call'[d]
        BY <3>1, <3>2, <3>6 DEF AtTheDevice
      <4>2. LeavesNothingDown(call[d].events) => LeavesNothingDown(call[d].events)'
        BY <3>3, <4>1 DEF LeavesNothingDown
      <4>3. [held |-> {}, typed |-> TypedSoFar' \o Asked(d)'.text]
              = [held |-> {}, typed |-> TypedSoFar \o Asked(d).text]
        BY <3>2, <3>4
      <4>4. Pressed(device'.keyboard, call'[d].events) = Pressed(device.keyboard, call[d].events)
        BY <3>3, <4>1
      <4>5. /\ call[d].events \in Seq(Range(call[d].events))
            /\ LeavesNothingDown(call[d].events)
            /\ IF Asked(d).op = "type"
               THEN /\ \A i \in DOMAIN call[d].events : call[d].events[i].kind = "key"
                    /\ Pressed(device.keyboard, call[d].events)
                         = [held |-> {}, typed |-> TypedSoFar \o Asked(d).text]
               ELSE /\ \A i \in DOMAIN call[d].events : call[d].events[i].kind # "key"
                    /\ device.keyboard = WholeSoFar
        BY <3>1, <3>6 DEF AtTheDevice
      <4>6. /\ call'[d].events \in Seq(Range(call'[d].events))
            /\ LeavesNothingDown(call[d].events)'
        BY <4>1, <4>2, <4>5
      <4>7. IF Asked(d)'.op = "type"
               THEN /\ \A i \in DOMAIN call'[d].events : call'[d].events[i].kind = "key"
                    /\ Pressed(device'.keyboard, call'[d].events)
                         = [held |-> {}, typed |-> TypedSoFar' \o Asked(d)'.text]
               ELSE /\ \A i \in DOMAIN call'[d].events : call'[d].events[i].kind # "key"
                    /\ device'.keyboard = WholeSoFar'
        BY <3>2, <3>3, <4>1, <4>3, <4>4, <4>5
      <4> QED
        BY <2>2, <3>2, <3>6, <4>1, <4>6, <4>7 DEF AtTheDevice
    <3> QED
      BY <3>5, <3>6
  <2> QED
    BY <2>1, <2>2
<1> QED
  BY <1>1, <1>2

\* What is whole, as long as nothing upsets it.
Whole ==
  /\ \A c \in Calls : PastTheGates(c) /\ AtTheDevice(c)
  /\ (\A c \in Calls : Pc(c) # "run") =>
       device.keyboard = [held |-> {}, typed |-> TypedSoFar] /\ device.finger = None

LEMMA TypingInvIs ==
  TypingInv <=> /\ DeviceOK /\ changes \in Nat /\ faults \in Nat /\ TypersAreOrdered
                /\ faults = 0 /\ changes = 0 => Whole
  BY DEF TypingInv, Whole, TextsAreWhole

\* Nobody comes to the device or leaves it, and it is left alone.
LEMMA StaysWhole ==
  ASSUME IInv, IInv', Whole, NEW c, StepOf(c), Swallows(device)' <=> Swallows(device),
         device'.keyboard = device.keyboard, device'.finger = device.finger,
         WholeSoFar' = WholeSoFar,
         c \in Calls => \/ Bystands(c)
                        \/ Pc(c) # "run" /\ Pc(c)' # "run" /\ PastTheGates(c)'
  PROVE  Whole'
<1>1. ASSUME NEW d \in Calls
      PROVE  PastTheGates(d)' /\ AtTheDevice(d)' /\ (Pc(d)' = "run" <=> Pc(d) = "run")
  <2>1. CASE Bystands(d)
    BY <2>1, BystanderIsWhole, BystanderTypes DEF Whole
  <2>2. CASE ~Bystands(d)
    <3>1. d = c /\ Pc(c) # "run" /\ Pc(c)' # "run" /\ PastTheGates(c)'
      BY <2>2 DEF StepOf
    <3> QED
      BY <3>1 DEF AtTheDevice
  <2> QED
    BY <2>1, <2>2
<1>2. TypedSoFar' = TypedSoFar
  <2>1. WholeSoFar.typed = TypedSoFar /\ WholeSoFar'.typed = TypedSoFar'
    BY DEF WholeSoFar
  <2> QED
    BY <2>1
<1> QED
  BY <1>1, <1>2 DEF Whole

\* Nobody comes to the device but from the lock.
LEMMA NobodyComes ==
  ASSUME IInv, IInv', NEW c \in Calls, StepOf(c), Pc(c) # "run", UNCHANGED status
  PROVE  Pc(c)' # "run"
<1> SUFFICES ASSUME Pc(c)' = "run" PROVE FALSE
  OBVIOUS
<1>1. PICK t : t = call'[c].ticket
  OBVIOUS
<1>2. t \in Tickets /\ status'[t] = "running"
  BY <1>1 DEF IInv, Remembers, TurnsAreOwn, Active, Pc
<1>3. PICK e \in Calls : Pc(e) = "run"
  BY <1>2 DEF IInv, TypeOK
<1>4. e # c /\ Pc(e)' = "run"
  BY <1>3, BystanderTypes DEF StepOf
<1> QED
  BY <1>4 DEF IInv, TypeOK

\* The step of a call that is not at the lock, and does not come to it but to queue.
LEMMA AsideIsWhole ==
  ASSUME SheetsAreOverFields, IInv, IInv', TypingInv, DeviceOK',
         NEW c \in Calls, StepOf(c), UNCHANGED chainVars, UNCHANGED changes,
         faults' \in {faults, faults + 1},
         device'.keyboard = device.keyboard, device'.finger = device.finger,
         device'.screen = device.screen,
         Pc(c) # "run", Pc(c)' # "run", ~Typed(c), ~Typed(c)',
         c \in Active' /\ Asked(c)'.op = "type" => "ticket" \notin DOMAIN call'[c],
         UNCHANGED faults /\ Whole => PastTheGates(c)'
  PROVE  TypingInv'
<1>1. /\ DeviceOK /\ changes \in Nat /\ faults \in Nat /\ TypersAreOrdered
      /\ faults = 0 /\ changes = 0 => Whole
  BY TypingInvIs
<1>2. \A t \in Tickets : status[t] \in Settled => status'[t] \in Settled
  BY DEF chainVars
<1>3. OwnTurn(c)
  BY DEF OwnTurn
<1>4. TypersAreOrdered'
  BY <1>1, <1>2, <1>3, TypersStay
<1>5. WholeSoFar' = WholeSoFar
  <2>1. \A d \in Calls : Bystands(d) \/ (~Typed(d) /\ ~Typed(d)')
    BY DEF StepOf
  <2>2. arrived' = arrived
    BY DEF chainVars
  <2> QED
    BY <1>1, <1>4, <2>1, <2>2, NobodyTypes
<1>6. ASSUME faults' = 0, changes' = 0 PROVE Whole'
  <2>1. faults' = faults /\ Whole
    BY <1>1, <1>6
  <2>2. Swallows(device)' <=> Swallows(device)
    BY <1>1, SwallowsStays
  <2> QED
    BY <1>5, <2>1, <2>2, StaysWhole
<1>7. changes' \in Nat /\ faults' \in Nat
  BY <1>1
<1> QED
  BY <1>4, <1>6, <1>7 DEF TypingInv, Whole, TextsAreWhole

\* Every call bystands.
LEMMA RestIsWhole ==
  ASSUME SheetsAreOverFields, IInv, IInv', TypingInv, DeviceOK',
         \A d \in Calls : Bystands(d),
         UNCHANGED arrived, UNCHANGED <<changes, faults>>,
         \A t \in Tickets : status[t] \in Settled => status'[t] \in Settled,
         device'.keyboard = device.keyboard, device'.finger = device.finger,
         device'.screen = device.screen
  PROVE  TypingInv'
<1>1. /\ DeviceOK /\ changes \in Nat /\ faults \in Nat /\ TypersAreOrdered
      /\ faults = 0 /\ changes = 0 => Whole
  BY TypingInvIs
<1>2. StepOf(0) /\ (0 \in Calls => Bystands(0))
  BY DEF StepOf
<1>4. TypersAreOrdered'
  BY <1>1, <1>2, TypersStay
<1>5. WholeSoFar' = WholeSoFar
  BY <1>1, <1>4, NobodyTypes
<1>6. ASSUME faults' = 0, changes' = 0 PROVE Whole'
  <2>1. faults' = faults /\ Whole
    BY <1>1, <1>6
  <2>2. Swallows(device)' <=> Swallows(device)
    BY <1>1, SwallowsStays
  <2> QED
    BY <1>2, <1>5, <2>1, <2>2, StaysWhole
<1>7. changes' \in Nat /\ faults' \in Nat
  BY <1>1
<1> QED
  BY <1>4, <1>6, <1>7 DEF TypingInv, Whole, TextsAreWhole

\* Once something is upset, no more is said than who has typed.
LEMMA UpsetIsWhole ==
  ASSUME DeviceOK', changes' \in Nat, faults' \in Nat, TypersAreOrdered',
         faults' # 0 \/ changes' # 0
  PROVE  TypingInv'
  BY DEF TypingInv, TextsAreWhole

--------------------------------------------------------------------------------
\* The steps of a call that has not been asked to type.
LEMMA NotATyper ==
  ASSUME NEW c, Asked(c).op # "type"
  PROVE  ~Typed(c) /\ PastTheGates(c)
  BY DEF Typed, PastTheGates

LEMMA NotATyperThen ==
  ASSUME NEW c, Asked(c)'.op # "type"
  PROVE  ~Typed(c)' /\ PastTheGates(c)'
  BY DEF Typed, PastTheGates

\* The gates, where a text is refused or let pass.
LEMMA GatesAreWhole ==
  ASSUME SheetsAreOverFields, IInv, IInv', TypingInv, DeviceOK', NEW c \in Calls,
         RefuseText(c) \/ SecureFieldGate(c) \/ PasswordSheetGate(c)
  PROVE  TypingInv'
<1>1. c \in Active /\ Pc(c) \in {"gate", "sheet"} /\ Asked(c).op = "type"
  BY Underway, PlaceTellsOp DEF RefuseText, SecureFieldGate, PasswordSheetGate
<1>2. Moves(c)
  BY ReadingMoves DEF Reading
<1>3. Asked(c)' = Asked(c) /\ StepOf(c)
  BY <1>1, <1>2, MoveIs DEF StepOf
<1>4. "ticket" \notin DOMAIN call[c]
  BY <1>1 DEF TypingInv, TypersAreOrdered
<1>5. \/ \E pc \in {"sheet", "queue"} : Goes(c, pc, << >>)
      \/ \E outcome : Answers(c, outcome, << >>)
  BY DEF RefuseText, SecureFieldGate, PasswordSheetGate
<1>6. DOMAIN << >> = {}
  OBVIOUS
<1>7. Pc(c)' \in {"sheet", "queue", "done"} /\ "ticket" \notin DOMAIN call'[c]
  <2>1. ASSUME NEW pc \in {"sheet", "queue"}, Goes(c, pc, << >>)
        PROVE  Pc(c)' = pc /\ "ticket" \notin DOMAIN call'[c]
    BY <1>1, <1>4, <1>6, <2>1, ActiveCall, GoesTo
  <2>2. ASSUME NEW outcome, Answers(c, outcome, << >>)
        PROVE  Pc(c)' = "done" /\ "ticket" \notin DOMAIN call'[c]
    BY <1>1, <1>4, <1>6, <2>2, ActiveCall, AnswersWith
  <2> QED
    BY <1>5, <2>1, <2>2
<1>8. /\ UNCHANGED <<device, changes>> /\ UNCHANGED chainVars /\ faults' \in {faults, faults + 1}
      /\ UNCHANGED faults \/ faults' = faults + 1
  BY DEF RefuseText, SecureFieldGate, PasswordSheetGate, OnlyCalls, Fails, world
<1>9. ~Typed(c) /\ ~Typed(c)'
  BY <1>1, <1>4, <1>7 DEF Typed
<1>10. ASSUME UNCHANGED faults, Whole PROVE PastTheGates(c)'
  <2>0. faults \in Nat /\ DeviceOK /\ PastTheGates(c)
    BY <1>10 DEF TypingInv, Whole
  <2>1. OnlyCalls
    BY <1>10, <2>0 DEF RefuseText, SecureFieldGate, PasswordSheetGate, Fails
  <2>2. Swallows(device)' <=> Swallows(device)
    BY <1>8, <2>0, SwallowsStays DEF TypingInv
  <2>3. SUFFICES ASSUME c \in Active'
                 PROVE  /\ Pc(c)' \in Delivering \cup {"sheet"} =>
                             UnmappedCharacters(Asked(c).text) = {}
                        /\ Pc(c)' \in Delivering => ~Swallows(device)
    BY <1>3, <2>2 DEF PastTheGates
  <2>4. CASE RefuseText(c)
    <3>1. Pc(c)' = "done"
      BY <1>1, <2>4, ActiveCall, AnswersWith DEF RefuseText
    <3> QED
      BY <3>1 DEF Delivering
  <2>5. CASE SecureFieldGate(c)
    <3>1. UnmappedCharacters(Asked(c).text) = {}
      BY <2>5 DEF SecureFieldGate
    <3>2. Goes(c, IF EditingSecureField(DefaultTree(device)) THEN "sheet" ELSE "queue", << >>)
      BY <1>10, <2>0, <2>5 DEF SecureFieldGate, Fails
    <3>3. Pc(c)' = "queue" => ~EditingSecureField(DefaultTree(device))
      <4>1. Pc(c)' = IF EditingSecureField(DefaultTree(device)) THEN "sheet" ELSE "queue"
        BY <1>1, <3>2, ActiveCall, GoesTo
      <4> QED
        BY <4>1
    <3>4. ~EditingSecureField(DefaultTree(device)) => ~Swallows(device)
      <4>1. View(device) \in Views
        BY <2>0, ViewIs
      <4> QED
        BY <4>1 DEF SheetsAreOverFields, HasSheet, Swallows, BridgeTree, DefaultTree
    <3> QED
      BY <1>7, <3>1, <3>3, <3>4 DEF Delivering
  <2>6. CASE PasswordSheetGate(c)
    <3>1. UnmappedCharacters(Asked(c).text) = {}
      BY <1>1, <2>0, <2>6 DEF PastTheGates, PasswordSheetGate
    <3>2. \/ ~Swallows(device) \/ Answers(c, "typing-blocked", << >>)
      BY <1>10, <2>0, <2>6 DEF PasswordSheetGate, Fails, Swallows
    <3>3. Answers(c, "typing-blocked", << >>) => Pc(c)' = "done"
      BY <1>1, ActiveCall, AnswersWith
    <3> QED
      BY <3>1, <3>2, <3>3 DEF Delivering
  <2> QED
    BY <2>4, <2>5, <2>6
<1>11. Pc(c) # "run" /\ Pc(c)' \notin {"wait", "run"}
  BY <1>1, <1>7
<1> QED
  BY <1>3, <1>7, <1>8, <1>9, <1>10, <1>11, AsideIsWhole
\* A call begins: no text has come past the gates yet.
LEMMA BeginIsWhole ==
  ASSUME SheetsAreOverFields, IInv, IInv', TypingInv, DeviceOK', NEW c \in Calls, Begin(c)
  PROVE  TypingInv'
<1>1. PICK r : /\ call'[c] = [request |-> r, pc |-> FirstStep(r), calm |-> TRUE,
                              sure |-> sure /\ ~Turning(r), dims |-> None]
               /\ r \in Requests(c, device.screen)
  BY DEF Begin
<1>2. r \in Asks /\ Pc(c)' = FirstStep(r) /\ "ticket" \notin DOMAIN call'[c] /\ Asked(c)' = r
  BY <1>1, RequestsAssumption DEF IInv, TypeOK, Pc, Asked
<1>3. /\ Pc(c)' \notin {"wait", "run", "done", "sheet"}
      /\ r.op = "type" => Pc(c)' = "gate"
  BY <1>2, AskedFor DEF FirstStep, Ops
<1>4. Pc(c) = "idle" /\ UNCHANGED <<device, changes, faults>> /\ UNCHANGED chainVars
  BY DEF Begin, world
<1>5. StepOf(c)
  BY OthersBystand DEF StepOf
<1>6. ~Typed(c) /\ ~Typed(c)'
  BY <1>3, <1>4 DEF Typed
<1>7. PastTheGates(c)'
  BY <1>2, <1>3 DEF PastTheGates, Delivering
<1>8. /\ UNCHANGED changes /\ faults' \in {faults, faults + 1}
      /\ device'.keyboard = device.keyboard /\ device'.finger = device.finger
      /\ device'.screen = device.screen
  BY <1>4
<1> QED
  BY <1>2, <1>3, <1>4, <1>5, <1>6, <1>7, <1>8, AsideIsWhole

\* What a call reads or turns that has not been asked to type.
LEMMA ReadingIsWhole ==
  ASSUME SheetsAreOverFields, IInv, IInv', TypingInv, DeviceOK', NEW c \in Calls,
         \/ Reading(c) \/ Turns(c) \/ RootFrameFails(c) \/ ReadFails(c) \/ RotateFails(c),
         ~(RefuseText(c) \/ SecureFieldGate(c) \/ PasswordSheetGate(c))
  PROVE  TypingInv'
<1>1. c \in Active /\ Pc(c) \notin {"gate", "sheet", "queue", "wait", "run"}
  BY Underway DEF Reading, DimsFromCache, AskRootFrame, RootFrameServed, RootFrameArrives,
     Aim, ScreenServed, ScreenArrives, ReadPoint, LocatePoint, FindByLabel, FindById,
     FindInTree, HitTest, ReadBack, Capture, RootFrameFails, ReadFails, RotateFails,
     Turns, Rotate, ClearDims, ProbeTree, Probe, NoteDetected
<1>2. Asked(c).op # "type"
  BY <1>1, ActiveCall DEF Places, Delivering
<1>3. Asked(c)' = Asked(c) /\ StepOf(c)
  <2>1. CASE Rotate(c)
    <3> DEFINE news == [pc |-> "clear"]
    <3>1. DOMAIN news = {"pc"} /\ call'[c] = Updated(call[c], news)
      BY <2>1 DEF Rotate
    <3> HIDE DEF news
    <3>2. /\ DOMAIN Updated(call[c], news) = DOMAIN call[c] \cup DOMAIN news
          /\ \A f \in DOMAIN call[c] \ DOMAIN news : Updated(call[c], news)[f] = call[c][f]
      BY UpdatedIs
    <3> QED
      BY <2>1, <3>1, <3>2, OthersBystand DEF Asked, StepOf
  <2>2. CASE ~Rotate(c)
    BY <1>1, <2>2, ReadingMoves, TurningMoves, MoveIs DEF StepOf, Turns
  <2> QED
    BY <2>1, <2>2
<1>4. Asked(c)'.op # "type"
  BY <1>2, <1>3
<1>5. ~Typed(c) /\ ~Typed(c)' /\ PastTheGates(c)'
  BY <1>2, <1>4, NotATyper, NotATyperThen
<1>6. /\ UNCHANGED chainVars /\ UNCHANGED changes /\ faults' \in {faults, faults + 1}
      /\ device'.keyboard = device.keyboard /\ device'.finger = device.finger
      /\ device'.screen = device.screen
  <2>1. CASE Reading(c)
    <3>1. UNCHANGED <<device, changes>> /\ UNCHANGED chainVars /\ faults' \in {faults, faults + 1}
      BY <2>1 DEF Reading, DimsFromCache, AskRootFrame, RootFrameServed, RootFrameArrives,
         Aim, ScreenServed, ScreenArrives, ReadPoint, LocatePoint, FindByLabel, FindById,
         FindInTree, HitTest, ReadBack, Capture, OnlyCalls, Fails, world
    <3> QED
      BY <3>1
  <2>2. CASE \/ Turns(c) /\ ~Rotate(c)
             \/ RootFrameFails(c) \/ ReadFails(c) \/ RotateFails(c)
    <3>1. UNCHANGED <<device, changes>> /\ UNCHANGED chainVars /\ faults' \in {faults, faults + 1}
      BY <2>2 DEF Turns, ClearDims, ProbeTree, Probe, NoteDetected, RootFrameFails, ReadFails,
         RotateFails, OnlyCalls, Fails, world
    <3> QED
      BY <3>1
  <2>3. CASE Rotate(c)
    <3>1. UNCHANGED world /\ UNCHANGED chainVars
      BY <2>3 DEF Rotate
    <3>2. \/ device' = device \/ \E to : device' = [device EXCEPT !.orientation = to]
      BY <2>3 DEF Rotate
    <3> QED
      BY <3>1, <3>2 DEF world, TypingInv, DeviceOK
  <2> QED
    BY <2>1, <2>2, <2>3
<1>7. Pc(c) # "run" /\ Pc(c)' # "run"
  BY <1>1, <1>3, <1>6, NobodyComes DEF chainVars
<1> QED
  BY <1>3, <1>4, <1>5, <1>6, <1>7, AsideIsWhole

--------------------------------------------------------------------------------
(***************************************************************************)
(* What is delivered.                                                       *)
(***************************************************************************)
LEMMA DeliveryIsOwn ==
  ASSUME IInv, NEW c \in Calls, Delivery(c) \/ Cut(c)
  PROVE  /\ c \in Active /\ Pc(c) \in Delivering /\ Asked(c)' = Asked(c) /\ StepOf(c)
         /\ ~Typed(c)
         /\ \A t \in Tickets : status[t] \in Settled => status'[t] \in Settled
<1>1. c \in Active /\ Pc(c) \in Delivering
  BY Underway DEF Delivery, Queue, Run, Activate, Deliver, Acknowledge, Cut, Delivering
<1>2. Asked(c)' = Asked(c) /\ StepOf(c)
  BY <1>1, DeliveryMoves, MoveIs DEF StepOf
<1>3. ~Typed(c)
  BY <1>1 DEF Typed, Delivering
<1>4. Pc(c) \in {"wait", "run"} => call[c].ticket \in Tickets
  BY <1>1, ActiveCall DEF Remembers
<1>5. \/ Exclusively \/ UNCHANGED chainVars
      \/ \E u \in Tickets : StartFn(u) \/ FnSettles(u) \/ DropTail(u)
  BY <1>4 DEF Delivery, Queue, Run, Activate, Deliver, Acknowledge, Cut
<1>6. \A t \in Tickets : status[t] \in Settled => status'[t] \in Settled
  BY <1>5, SettledStay DEF IInv
<1> QED
  BY <1>1, <1>2, <1>3, <1>6

LEMMA QueueIsWhole ==
  ASSUME SheetsAreOverFields, IInv, IInv', TypingInv, DeviceOK', NEW c \in Calls, Queue(c)
  PROVE  TypingInv'
<1>0. /\ DeviceOK /\ changes \in Nat /\ faults \in Nat /\ TypersAreOrdered
      /\ faults = 0 /\ changes = 0 => Whole
  BY TypingInvIs
<1>1. /\ c \in Active /\ Asked(c)' = Asked(c) /\ StepOf(c) /\ ~Typed(c)
      /\ \A t \in Tickets : status[t] \in Settled => status'[t] \in Settled
  BY DeliveryIsOwn DEF Delivery
<1>2. Pc(c) = "queue" /\ Pc(c)' = "wait" /\ UNCHANGED <<device, changes, faults>>
  BY <1>1, ActiveCall, GoesTo DEF Queue, world
<1>3. ~Typed(c)' /\ OwnTurn(c)
  BY <1>1, <1>2 DEF Typed, OwnTurn
<1>4. TypersAreOrdered'
  BY <1>0, <1>1, <1>3, TypersStay
<1>5. arrived' = arrived + 1 /\ status[arrived + 1] = "none"
  BY ChainTurns DEF Queue, Exclusively, IInv
<1>6. WholeSoFar' = WholeSoFar
  <2>1. \A d \in Calls : Bystands(d) \/ (~Typed(d) /\ ~Typed(d)')
    BY <1>1, <1>3 DEF StepOf
  <2> QED
    BY <1>0, <1>4, <1>5, <2>1, NobodyTypes
<1>7. ASSUME Whole PROVE Whole'
  <2>1. Swallows(device)' <=> Swallows(device)
    BY <1>0, <1>2, SwallowsStays
  <2>2. PastTheGates(c)'
    BY <1>1, <1>2, <1>7, <2>1 DEF Whole, PastTheGates, Delivering
  <2> QED
    BY <1>1, <1>2, <1>6, <1>7, <2>1, <2>2, StaysWhole
<1> QED
  BY <1>0, <1>2, <1>4, <1>7 DEF TypingInv, Whole, TextsAreWhole

\* What is delivered of each kind of input.
LEMMA EventsAre ==
  ASSUME NEW c, Asked(c) \in Asks, Asked(c).op \in {"tap", "named", "swipe", "button"}
  PROVE  HandsBack(Events(c))
<1>1. CASE Asked(c).op \in {"tap", "named"}
  <2>1. Asked(c).count \in Nat \ {0}
    BY <1>1 DEF Asks
  <2>2. Events(c) = TapEvents(call[c].points[1], Asked(c).count)
    BY <1>1 DEF Events
  <2> QED
    BY <2>1, <2>2, TapHandsBack
<1>2. CASE Asked(c).op = "swipe"
  BY <1>2, SwipeHandsBack DEF Events
<1>3. CASE Asked(c).op = "button"
  BY <1>3, ButtonHandsBack DEF Events
<1> QED
  BY <1>1, <1>2, <1>3

LEMMA TextsAre ==
  ASSUME NEW c, Asked(c) \in Asks, Asked(c).op = "type", UnmappedCharacters(Asked(c).text) = {},
         NEW typed \in Seq(STRING)
  PROVE  /\ Events(c) \in Seq(Range(Events(c)))
         /\ \A i \in DOMAIN Events(c) : Events(c)[i].kind = "key"
         /\ Pressed([held |-> {}, typed |-> typed], Events(c))
              = [held |-> {}, typed |-> typed \o Asked(c).text]
<1> DEFINE text == Asked(c).text
           events == KeyEvents(text)
<1>1. text \in Seq(STRING) /\ Events(c) = events
  BY DEF Asks, Events
<1>2. /\ events \in Seq(KeyStrokes)
      /\ Pressed([held |-> {}, typed |-> typed], events) = [held |-> {}, typed |-> typed \o text]
  BY <1>1, KeyEventsTypeTheText
<1> HIDE DEF events, text
<1>3. events \in Seq(Range(events))
  BY <1>2, SeqOfRange
<1>4. \A e \in KeyStrokes : e.kind = "key"
  BY DEF KeyStrokes, Key
<1>5. \A i \in DOMAIN events : events[i] \in KeyStrokes
  BY <1>2, LenProperties, ElementOfSeq
<1> QED
  BY <1>1, <1>2, <1>3, <1>4, <1>5 DEF text
LEMMA TypedSoFarIs ==
  ASSUME TypersAreOrdered, IInv
  PROVE  TypedSoFar \in Seq(STRING)
<1> DEFINE seqs == [t \in 1 .. arrived |-> TypedAt(t)]
<1>1. arrived \in Nat /\ \A t : TypedAt(t) \in Seq(STRING)
  BY TypedOnesAre DEF TypedOnes, IInv, ChainIInv, ChainTypeOK
<1>2. seqs \in Pieces(arrived, STRING)
  BY <1>1 DEF Pieces
<1>3. TypedSoFar = FlattenSeq(seqs)
  BY DEF TypedSoFar
<1> HIDE DEF seqs
<1>4. PICK h : Flattens(STRING, arrived, seqs, h)
  BY <1>1, <1>2, JoinOf
<1> QED
  BY <1>1, <1>3, <1>4 DEF Flattens
\* A call comes to the device when nobody else is there, with all of its events.
LEMMA RunIsWhole ==
  ASSUME SheetsAreOverFields, IInv, IInv', TypingInv, DeviceOK', NEW c \in Calls, Run(c)
  PROVE  TypingInv'
<1>0. /\ DeviceOK /\ changes \in Nat /\ faults \in Nat /\ TypersAreOrdered
      /\ faults = 0 /\ changes = 0 => Whole
  BY TypingInvIs
<1>1. /\ c \in Active /\ Asked(c)' = Asked(c) /\ StepOf(c) /\ ~Typed(c)
      /\ \A t \in Tickets : status[t] \in Settled => status'[t] \in Settled
  BY DeliveryIsOwn DEF Delivery
<1> DEFINE memory == IF Activating(c) THEN << >> ELSE [events |-> Events(c)]
<1>2. /\ Pc(c) = "wait" /\ UNCHANGED <<device, changes, faults>> /\ arrived' = arrived
      /\ Goes(c, "run", memory)
  BY DEF Run, StartFn, world
<1>a. /\ Activating(c) => DOMAIN memory = {}
      /\ ~Activating(c) => DOMAIN memory = {"events"} /\ memory["events"] = Events(c)
  OBVIOUS
<1> HIDE DEF memory
<1>3. /\ Pc(c)' = "run"
      /\ DOMAIN call'[c] = DOMAIN call[c] \cup {"pc"} \cup DOMAIN memory
      /\ \A f \in DOMAIN memory \ {"pc"} : call'[c][f] = memory[f]
      /\ \A f \in DOMAIN call[c] \ (DOMAIN memory \cup {"pc"}) : call'[c][f] = call[c][f]
  BY <1>1, <1>2, ActiveCall, GoesTo
<1>4. Activating(c)' <=> Activating(c)
  BY <1>a, <1>3 DEF Activating
<1>5. ~Activating(c) => "events" \in DOMAIN call'[c] /\ call'[c].events = Events(c)
  BY <1>a, <1>3
<1>6. ~Typed(c)' /\ OwnTurn(c)
  BY <1>1, <1>3 DEF Typed, OwnTurn
<1>7. TypersAreOrdered'
  BY <1>0, <1>1, <1>6, TypersStay
<1>8. WholeSoFar' = WholeSoFar
  <2>1. \A d \in Calls : Bystands(d) \/ (~Typed(d) /\ ~Typed(d)')
    BY <1>1, <1>6 DEF StepOf
  <2> QED
    BY <1>0, <1>2, <1>7, <2>1, NobodyTypes
<1>9. ASSUME NEW d \in Calls PROVE Pc(d) # "run" /\ (Pc(d)' = "run" => d = c)
  <2>1. Pc(d)' = "run" => d = c
    BY <1>3 DEF IInv, TypeOK
  <2>2. CASE d = c
    BY <1>2, <2>1, <2>2
  <2>3. CASE d # c
    BY <1>1, <2>1, <2>3, BystanderTypes DEF StepOf
  <2> QED
    BY <2>2, <2>3
<1>10. ASSUME Whole PROVE Whole'
  <2>1. Swallows(device)' <=> Swallows(device)
    BY <1>0, <1>2, SwallowsStays
  <2>2. device.keyboard = WholeSoFar /\ device.finger = None
    BY <1>9, <1>10 DEF Whole, WholeSoFar
  <2>3. PastTheGates(c)'
    BY <1>1, <1>2, <1>3, <1>10, <2>1 DEF Whole, PastTheGates, Delivering
  <2>4. \A d \in Calls \ {c} : PastTheGates(d)' /\ AtTheDevice(d)'
    BY <1>1, <1>9, <1>10, <2>1, BystanderIsWhole DEF Whole, StepOf
  <2>5. AtTheDevice(c)'
    <3>1. device'.keyboard = WholeSoFar' /\ device'.finger = None
      BY <1>2, <1>8, <2>2
    <3>2. CASE Activating(c)
      BY <1>4, <3>1, <3>2 DEF AtTheDevice
    <3>3. CASE ~Activating(c) /\ Asked(c).op # "type"
      <4>1. Asked(c) \in Asks /\ Asked(c).op \in {"tap", "named", "swipe", "button"}
        BY <1>1, <1>2, <3>3, ActiveCall, DeliveringOnes DEF Delivering
      <4>2. HandsBack(Events(c))
        BY <4>1, EventsAre
      <4>3. PICK events : events = Events(c)
        OBVIOUS
      <4>4. "events" \in DOMAIN call'[c] /\ call'[c].events = events /\ HandsBack(events)
        BY <1>5, <3>3, <4>2, <4>3
      <4>5. LeavesNothingDown(events)'
        BY <3>1, <4>4 DEF LeavesNothingDown, HandsBack
      <4>6. LeavesNothingDown(call[c].events)'
        BY <4>4, <4>5
      <4> QED
        BY <1>1, <1>4, <3>1, <3>3, <4>4, <4>6 DEF AtTheDevice, HandsBack
    <3>4. CASE ~Activating(c) /\ Asked(c).op = "type"
      <4>1. Asked(c) \in Asks /\ UnmappedCharacters(Asked(c).text) = {}
        BY <1>1, <1>2, <1>10, <3>4, ActiveCall DEF Whole, PastTheGates, Delivering
      <4>2. TypedSoFar \in Seq(STRING)
        BY <1>0, TypedSoFarIs
      <4>3. PICK events : events = Events(c)
        OBVIOUS
      <4>4. /\ "events" \in DOMAIN call'[c] /\ call'[c].events = events
            /\ events \in Seq(Range(events))
            /\ \A i \in DOMAIN events : events[i].kind = "key"
            /\ Pressed(WholeSoFar, events) = [held |-> {}, typed |-> TypedSoFar \o Asked(c).text]
        BY <1>5, <3>4, <4>1, <4>2, <4>3, TextsAre DEF WholeSoFar
      <4>5. LeavesNothingDown(events)'
        BY <3>1, <4>4 DEF LeavesNothingDown, HandsOff
      <4>6. LeavesNothingDown(call[c].events)'
        BY <4>4, <4>5
      <4>7. TypedSoFar' = TypedSoFar
        <5>1. WholeSoFar.typed = TypedSoFar /\ WholeSoFar'.typed = TypedSoFar'
          BY DEF WholeSoFar
        <5> QED
          BY <1>8, <5>1
      <4>8. Pressed(device'.keyboard, events)
              = [held |-> {}, typed |-> TypedSoFar' \o Asked(c)'.text]
        <5>1. device'.keyboard = WholeSoFar
          BY <1>8, <3>1
        <5> QED
          BY <1>1, <4>4, <4>7, <5>1
      <4> QED
        BY <1>1, <1>4, <3>4, <4>4, <4>6, <4>8 DEF AtTheDevice
    <3> QED
      BY <3>2, <3>3, <3>4
  <2> QED
    BY <1>3, <2>3, <2>4, <2>5 DEF Whole
<1> QED
  BY <1>0, <1>2, <1>7, <1>10 DEF TypingInv, Whole, TextsAreWhole

\* The one who is at the device is the only one, before and after.
LEMMA OthersAreElsewhere ==
  ASSUME IInv, NEW c \in Calls, Pc(c) = "run", StepOf(c)
  PROVE  \A d \in Calls \ {c} : Pc(d) # "run" /\ Pc(d)' # "run"
<1>1. \A d \in Calls \ {c} : Pc(d) # "run"
  BY AtItsTurn
<1> QED
  BY <1>1, BystanderTypes DEF StepOf

\* One event is taken, and the rest of them still make the text.
LEMMA DeliverIsWhole ==
  ASSUME SheetsAreOverFields, IInv, IInv', TypingInv, DeviceOK', NEW c \in Calls, Deliver(c)
  PROVE  TypingInv'
<1>0. /\ DeviceOK /\ changes \in Nat /\ faults \in Nat /\ TypersAreOrdered
      /\ faults = 0 /\ changes = 0 => Whole
  BY TypingInvIs
<1>1. /\ c \in Active /\ Asked(c)' = Asked(c) /\ StepOf(c) /\ ~Typed(c)
      /\ \A t \in Tickets : status[t] \in Settled => status'[t] \in Settled
  BY DeliveryIsOwn DEF Delivery
<1>e. PICK events : events = call[c].events
  OBVIOUS
<1> DEFINE event  == Head(events)
           rest   == [events |-> Tail(events)]
           memory == Updated(Lands(event), rest)
<1>2. /\ Pc(c) = "run" /\ ~Activating(c) /\ events # <<>> /\ UNCHANGED <<changes, faults>>
      /\ UNCHANGED chainVars /\ device' = Take(device, event)
      /\ Goes(c, "run", memory)
  BY <1>e DEF Deliver, world
<1>a. DOMAIN rest = {"events"} /\ rest["events"] = Tail(events)
  OBVIOUS
<1> HIDE DEF rest
<1>b. /\ DOMAIN memory \subseteq {"landed", "hit", "events"} /\ "events" \in DOMAIN memory
      /\ memory["events"] = Tail(events)
  <2>1. /\ DOMAIN memory = DOMAIN Lands(event) \cup DOMAIN rest
        /\ \A f \in DOMAIN rest : memory[f] = rest[f]
    BY UpdatedIs
  <2>2. DOMAIN Lands(event) \subseteq {"landed", "hit"}
    BY LandsTells
  <2> HIDE DEF memory
  <2> QED
    BY <1>a, <2>1, <2>2
<1> HIDE DEF memory, event
<1>3. /\ Pc(c)' = "run"
      /\ DOMAIN call'[c] = DOMAIN call[c] \cup {"pc"} \cup DOMAIN memory
      /\ \A f \in DOMAIN memory \ {"pc"} : call'[c][f] = memory[f]
      /\ \A f \in DOMAIN call[c] \ (DOMAIN memory \cup {"pc"}) : call'[c][f] = call[c][f]
  BY <1>1, <1>2, ActiveCall, GoesTo
<1>4. Activating(c)' <=> Activating(c)
  BY <1>b, <1>3 DEF Activating
<1>5. "events" \in DOMAIN call'[c] /\ call'[c].events = Tail(events)
  BY <1>b, <1>3
<1>6. ~Typed(c)' /\ OwnTurn(c)
  BY <1>1, <1>3 DEF Typed, OwnTurn
<1>7. TypersAreOrdered'
  BY <1>0, <1>1, <1>6, TypersStay
<1>8. WholeSoFar' = WholeSoFar /\ TypedSoFar' = TypedSoFar
  <2>1. \A d \in Calls : Bystands(d) \/ (~Typed(d) /\ ~Typed(d)')
    BY <1>1, <1>6 DEF StepOf
  <2>2. arrived' = arrived
    BY <1>2 DEF chainVars
  <2>3. WholeSoFar' = WholeSoFar
    BY <1>0, <1>7, <2>1, <2>2, NobodyTypes
  <2>4. WholeSoFar.typed = TypedSoFar /\ WholeSoFar'.typed = TypedSoFar'
    BY DEF WholeSoFar
  <2> QED
    BY <2>3, <2>4
<1>9. ASSUME Whole PROVE Whole'
  <2>1. device'.screen = device.screen
    BY <1>0, <1>1, <1>2, TakeKeeps, ActiveCall DEF DeviceOK
  <2>2. Swallows(device)' <=> Swallows(device)
    BY <1>0, <2>1, SwallowsStays
  <2>3. PastTheGates(c)'
    BY <1>1, <1>2, <1>3, <1>9, <2>2 DEF Whole, PastTheGates, Delivering
  <2>4. \A d \in Calls \ {c} : PastTheGates(d)' /\ AtTheDevice(d)'
    BY <1>1, <1>2, <1>9, <2>2, OthersAreElsewhere, BystanderIsWhole DEF Whole, StepOf
  <2>5. /\ events \in Seq(Range(events)) /\ LeavesNothingDown(events)
        /\ IF Asked(c).op = "type"
           THEN /\ \A i \in DOMAIN events : events[i].kind = "key"
                /\ Pressed(device.keyboard, events)
                     = [held |-> {}, typed |-> TypedSoFar \o Asked(c).text]
           ELSE /\ \A i \in DOMAIN events : events[i].kind # "key"
                /\ device.keyboard = WholeSoFar
    BY <1>e, <1>2, <1>9 DEF Whole, AtTheDevice
  <2>6. /\ \E i \in DOMAIN events : event = events[i]
        /\ Tail(events) \in Seq(Range(Tail(events)))
        /\ \A i \in DOMAIN Tail(events) : \E j \in DOMAIN events : Tail(events)[i] = events[j]
        /\ Tail(events) = <<>> => event = events[Len(events)]
        /\ Tail(events) # <<>> => Tail(events)[Len(Tail(events))] = events[Len(events)]
    BY <1>2, <2>5, RestOfEvents DEF event
  <2>7. /\ event.kind = "key" /\ ~Swallows(device) =>
             device'.keyboard = Press(device.keyboard, event) /\ device'.finger = device.finger
        /\ event.kind # "key" => device'.keyboard = device.keyboard
        /\ event.kind \notin {"key", "touch", "button"} => device'.finger = device.finger
        /\ Lifts(event) => device'.finger = None
    BY <1>0, <1>2, TakeMeans DEF DeviceOK
  <2>8. Asked(c).op = "type" => ~Swallows(device)
    BY <1>1, <1>2, <1>9 DEF Whole, PastTheGates, Delivering
  <2>9. HandsOff(events) => HandsOff(Tail(events)) /\ event.kind \notin {"touch", "button"}
    BY <2>6 DEF HandsOff
  <2>10. LeavesNothingDown(Tail(events))'
    <3>1. CASE device.finger = None /\ HandsOff(events)
      <4>1. device'.finger = None
        BY <2>5, <2>6, <2>7, <2>8, <2>9, <3>1
      <4> QED
        BY <2>9, <3>1, <4>1 DEF LeavesNothingDown
    <3>2. CASE Lifts(events[Len(events)])
      <4>1. CASE Tail(events) = <<>>
        <5>1. device'.finger = None
          BY <2>6, <2>7, <3>2, <4>1
        <5>2. HandsOff(Tail(events))
          BY <4>1 DEF HandsOff
        <5> QED
          BY <5>1, <5>2 DEF LeavesNothingDown
      <4>2. CASE Tail(events) # <<>>
        BY <2>6, <3>2, <4>2 DEF LeavesNothingDown
      <4> QED
        BY <4>1, <4>2
    <3> QED
      BY <2>5, <3>1, <3>2 DEF LeavesNothingDown
  <2>11. LeavesNothingDown(call[c].events)'
    BY <1>5, <2>10
  <2>12. AtTheDevice(c)'
    <3>1. CASE Asked(c).op = "type"
      <4>1. \A i \in DOMAIN Tail(events) : Tail(events)[i].kind = "key"
        BY <2>5, <2>6, <3>1
      <4>2. device'.keyboard = Press(device.keyboard, event)
        BY <2>5, <2>6, <2>7, <2>8, <3>1
      <4>3. Pressed(device'.keyboard, Tail(events)) = Pressed(device.keyboard, events)
        BY <1>2, <2>5, <4>2, PressedNext DEF event
      <4>4. Pressed(device'.keyboard, Tail(events))
              = [held |-> {}, typed |-> TypedSoFar' \o Asked(c)'.text]
        BY <1>1, <1>8, <2>5, <3>1, <4>3
      <4> QED
        BY <1>1, <1>2, <1>4, <1>5, <2>6, <2>11, <3>1, <4>1, <4>4 DEF AtTheDevice
    <3>2. CASE Asked(c).op # "type"
      <4>1. \A i \in DOMAIN Tail(events) : Tail(events)[i].kind # "key"
        BY <2>5, <2>6, <3>2
      <4>2. device'.keyboard = WholeSoFar'
        BY <1>8, <2>5, <2>6, <2>7, <3>2
      <4> QED
        BY <1>1, <1>2, <1>4, <1>5, <2>6, <2>11, <3>2, <4>1, <4>2 DEF AtTheDevice
    <3> QED
      BY <3>1, <3>2
  <2> QED
    BY <1>3, <2>3, <2>4, <2>12 DEF Whole
<1> QED
  BY <1>0, <1>2, <1>7, <1>9 DEF TypingInv, Whole, TextsAreWhole
\* A call leaves the device, having delivered all of its events or been cut short.
LEMMA EndsOwnTurn ==
  ASSUME IInv, NEW c \in Calls, Acknowledge(c) \/ Cut(c)
  PROVE  /\ Pc(c)' = "done" /\ OwnTurn(c)
         /\ "ticket" \in DOMAIN call'[c] /\ call'[c].ticket = call[c].ticket
<1>1. /\ c \in Active /\ Asked(c)' = Asked(c) /\ ~Typed(c)
  BY DeliveryIsOwn DEF Delivery
<1>2. Pc(c) = "run" /\ FnSettles(call[c].ticket) /\ \E outcome : Answers(c, outcome, << >>)
  BY DEF Acknowledge, Cut
<1>3. "ticket" \in DOMAIN call[c] /\ call[c].ticket \in Tickets /\ status[call[c].ticket] = "running"
  BY <1>2, AtItsTurn
<1>4. PICK outcome : Answers(c, outcome, << >>)
  BY <1>2
<1>5. DOMAIN << >> = {} /\ "ticket" \in Lasting
  BY DEF Lasting
<1>6. /\ Pc(c)' = "done" /\ "ticket" \in DOMAIN call'[c] /\ call'[c]["ticket"] = call[c]["ticket"]
  BY <1>1, <1>3, <1>4, <1>5, ActiveCall, AnswersWith
<1>7. Asked(c).op = "type" => Asked(c).text \in Seq(STRING)
  BY <1>1, ActiveCall DEF Asks
<1>8. status'[call[c].ticket] \in Settled
  BY <1>2, <1>3, ChainTurns DEF IInv
<1>9. c \notin Active'
  BY <1>6 DEF Active, Pc
<1> QED
  BY <1>1, <1>3, <1>6, <1>7, <1>8, <1>9 DEF OwnTurn, Typed, Settled

LEMMA CutIsWhole ==
  ASSUME IInv, IInv', TypingInv, DeviceOK', NEW c \in Calls, Cut(c)
  PROVE  TypingInv'
<1>1. TypersAreOrdered'
  BY EndsOwnTurn, DeliveryIsOwn, TypersStay DEF TypingInv
<1>2. changes' \in Nat /\ faults' \in Nat /\ faults' # 0
  BY DEF Cut, TypingInv
<1> QED
  BY <1>1, <1>2, UpsetIsWhole

LEMMA AcknowledgeIsWhole ==
  ASSUME SheetsAreOverFields, IInv, IInv', TypingInv, DeviceOK', NEW c \in Calls, Acknowledge(c)
  PROVE  TypingInv'
<1>0. /\ DeviceOK /\ changes \in Nat /\ faults \in Nat /\ TypersAreOrdered
      /\ faults = 0 /\ changes = 0 => Whole
  BY TypingInvIs
<1>1. /\ c \in Active /\ Asked(c)' = Asked(c) /\ StepOf(c) /\ ~Typed(c)
      /\ \A t \in Tickets : status[t] \in Settled => status'[t] \in Settled
  BY DeliveryIsOwn DEF Delivery
<1>2. /\ Pc(c) = "run" /\ ~Activating(c) /\ call[c].events = <<>>
      /\ UNCHANGED <<device, changes, faults>> /\ arrived' = arrived
  BY DEF Acknowledge, FnSettles, world
<1>3. /\ Pc(c)' = "done" /\ OwnTurn(c)
      /\ "ticket" \in DOMAIN call'[c] /\ call'[c].ticket = call[c].ticket
  BY EndsOwnTurn
<1>4. TypersAreOrdered'
  BY <1>0, <1>1, <1>3, TypersStay
<1>5. call'[c].ticket \in Tickets /\ status[call'[c].ticket] = "running"
  BY <1>2, <1>3, AtItsTurn
<1>6. ASSUME Whole PROVE Whole'
  <2>1. Swallows(device)' <=> Swallows(device)
    BY <1>0, <1>2, SwallowsStays
  <2>2. \A d \in Calls \ {c} : PastTheGates(d)' /\ AtTheDevice(d)' /\ Pc(d)' # "run"
    BY <1>1, <1>2, <1>6, <2>1, OthersAreElsewhere, BystanderIsWhole DEF Whole, StepOf
  <2>3. PastTheGates(c)' /\ AtTheDevice(c)'
    BY <1>3 DEF PastTheGates, AtTheDevice, Delivering
  <2>4. /\ LeavesNothingDown(call[c].events)
        /\ IF Asked(c).op = "type"
           THEN Pressed(device.keyboard, call[c].events)
                  = [held |-> {}, typed |-> TypedSoFar \o Asked(c).text]
           ELSE device.keyboard = WholeSoFar
    BY <1>2, <1>6 DEF Whole, AtTheDevice
  <2>5. device.finger = None
    BY <1>2, <2>4 DEF LeavesNothingDown
  <2>6. device.keyboard = WholeSoFar'
    <3>1. CASE Asked(c).op = "type"
      <4>1. Typed(c)'
        BY <1>1, <1>3, <3>1 DEF Typed
      <4>2. WholeSoFar' = [held |-> {}, typed |-> TypedSoFar \o Asked(c).text]
        BY <1>0, <1>1, <1>2, <1>4, <1>5, <4>1, OneTypes
      <4>3. Pressed(device.keyboard, <<>>) = device.keyboard
        BY PressedNothing
      <4> QED
        BY <1>2, <2>4, <3>1, <4>2, <4>3
    <3>2. CASE Asked(c).op # "type"
      <4>1. ~Typed(c)'
        BY <1>1, <3>2 DEF Typed
      <4>2. \A d \in Calls : Bystands(d) \/ (~Typed(d) /\ ~Typed(d)')
        BY <1>1, <4>1 DEF StepOf
      <4> QED
        BY <1>0, <1>2, <1>4, <2>4, <3>2, <4>2, NobodyTypes
    <3> QED
      BY <3>1, <3>2
  <2>7. device'.keyboard = [held |-> {}, typed |-> TypedSoFar'] /\ device'.finger = None
    BY <1>2, <2>5, <2>6 DEF WholeSoFar
  <2> QED
    BY <2>2, <2>3, <2>7 DEF Whole
<1> QED
  BY <1>0, <1>2, <1>4, <1>6 DEF TypingInv, Whole, TextsAreWhole

\* A toggle is pressed without the keyboard and the glass.
LEMMA ActivateIsWhole ==
  ASSUME SheetsAreOverFields, IInv, IInv', TypingInv, DeviceOK', NEW c \in Calls, Activate(c)
  PROVE  TypingInv'
<1>0. /\ DeviceOK /\ changes \in Nat /\ faults \in Nat /\ TypersAreOrdered
      /\ faults = 0 /\ changes = 0 => Whole
  BY TypingInvIs
<1>1. /\ c \in Active /\ Asked(c)' = Asked(c) /\ StepOf(c) /\ ~Typed(c)
      /\ \A t \in Tickets : status[t] \in Settled => status'[t] \in Settled
  BY DeliveryIsOwn DEF Delivery
<1>2. /\ Pc(c) = "run" /\ Activating(c) /\ UNCHANGED <<changes, faults>> /\ arrived' = arrived
      /\ device' = device \/ \E p : device' = Flip(device, TopmostAt(device, p))
  BY DEF Activate, FnSettles, world
<1>3. Asked(c).op # "type"
  BY <1>1, <1>2, ActiveCall DEF Activating
<1>4. Asked(c)'.op # "type"
  BY <1>1, <1>3
<1>5. ~Typed(c)' /\ PastTheGates(c)'
  BY <1>4, NotATyperThen
<1>6. OwnTurn(c)
  BY <1>1, <1>4, <1>5 DEF OwnTurn
<1>7. TypersAreOrdered'
  BY <1>0, <1>1, <1>6, TypersStay
<1>8. WholeSoFar' = WholeSoFar
  <2>1. \A d \in Calls : Bystands(d) \/ (~Typed(d) /\ ~Typed(d)')
    BY <1>1, <1>5 DEF StepOf
  <2> QED
    BY <1>0, <1>2, <1>7, <2>1, NobodyTypes
<1>9. Pc(c)' # "run"
  <2>1. \/ \E pc \in {"queue", "readBack", "byLabel"} : \E memory : Goes(c, pc, memory)
        \/ \E outcome, memory : Answers(c, outcome, memory)
    BY DEF Activate
  <2>2. ASSUME NEW pc \in {"queue", "readBack", "byLabel"}, NEW memory, Goes(c, pc, memory)
        PROVE  Pc(c)' # "run"
    BY <1>1, <2>2, ActiveCall, GoesTo
  <2>3. ASSUME NEW outcome, NEW memory, Answers(c, outcome, memory)
        PROVE  Pc(c)' # "run"
    BY <1>1, <2>3, ActiveCall, AnswersWith
  <2> QED
    BY <2>1, <2>2, <2>3
<1>10. ASSUME Whole PROVE Whole'
  <2>1. /\ device'.keyboard = device.keyboard /\ device'.finger = device.finger
        /\ device'.screen = device.screen
    <3>1. ASSUME NEW i PROVE Flip(device, i).screen = device.screen
      BY <1>0 DEF Flip, DeviceOK
    <3> QED
      BY <1>0, <1>2, <3>1, FlipKeepsHands DEF DeviceOK
  <2>2. Swallows(device)' <=> Swallows(device)
    BY <1>0, <2>1, SwallowsStays
  <2>3. \A d \in Calls \ {c} : PastTheGates(d)' /\ AtTheDevice(d)'
    BY <1>1, <1>2, <1>10, <2>2, OthersAreElsewhere, BystanderIsWhole DEF Whole, StepOf
  <2>4. AtTheDevice(c)'
    BY <1>9 DEF AtTheDevice
  <2>5. device.keyboard = WholeSoFar /\ device.finger = None
    BY <1>2, <1>10 DEF Whole, AtTheDevice
  <2>6. device'.keyboard = [held |-> {}, typed |-> TypedSoFar'] /\ device'.finger = None
    <3>1. device'.keyboard = WholeSoFar'
      BY <1>8, <2>1, <2>5
    <3> QED
      BY <2>1, <2>5, <3>1 DEF WholeSoFar
  <2> QED
    BY <1>5, <2>3, <2>4, <2>6 DEF Whole
<1> QED
  BY <1>0, <1>2, <1>7, <1>10 DEF TypingInv, Whole, TextsAreWhole

LEMMA ChangeIsWhole ==
  ASSUME IInv, IInv', TypingInv, DeviceOK', Change
  PROVE  TypingInv'
<1>1. \A d \in Calls : Bystands(d)
  BY AllBystand
<1>2. StepOf(0) /\ (0 \in Calls => Bystands(0))
  BY <1>1 DEF StepOf
<1>3. UNCHANGED status
  BY DEF Change, chainVars
<1>4. TypersAreOrdered'
  BY <1>2, <1>3, TypersStay DEF TypingInv
<1>5. changes' \in Nat /\ faults' \in Nat /\ changes' # 0
  BY DEF Change, TypingInv
<1> QED
  BY <1>4, <1>5, UpsetIsWhole

LEMMA StillIsWhole ==
  ASSUME SheetsAreOverFields, IInv, IInv', TypingInv, DeviceOK',
         Turn \/ UNCHANGED vars \/ \E t \in Tickets : ForgetTail(t)
  PROVE  TypingInv'
<1>1. \A d \in Calls : Bystands(d)
  BY AllBystand
<1>2. UNCHANGED <<changes, faults>> /\ UNCHANGED arrived /\ UNCHANGED status
  BY DEF Turn, vars, ForgetTail, DropTail, chainVars, world
<1>3. /\ device'.keyboard = device.keyboard /\ device'.finger = device.finger
      /\ device'.screen = device.screen
  <2>1. device' = device \/ \E to : device' = [device EXCEPT !.orientation = to]
    BY DEF Turn, vars, ForgetTail
  <2> QED
    BY <2>1 DEF TypingInv, DeviceOK
<1>4. \A t \in Tickets : status[t] \in Settled => status'[t] \in Settled
  BY <1>2
<1> QED
  BY <1>1, <1>2, <1>3, <1>4, RestIsWhole

LEMMA TypingInvStep ==
  ASSUME SheetsAreOverFields, IInv, IInv', TypingInv, [Next]_vars
  PROVE  TypingInv'
<1>1. DeviceOK'
  BY DeviceStep DEF TypingInv
<1>2. ASSUME NEW c \in Calls, Begin(c) \/ Reading(c) \/ Turns(c) \/ Delivery(c) \/ Failure(c)
      PROVE  TypingInv'
  BY <1>1, <1>2, BeginIsWhole, GatesAreWhole, ReadingIsWhole, QueueIsWhole, RunIsWhole,
     DeliverIsWhole, AcknowledgeIsWhole, ActivateIsWhole, CutIsWhole DEF Delivery, Failure
<1>3. CASE Turn \/ Change \/ UNCHANGED vars \/ \E t \in Tickets : ForgetTail(t)
  BY <1>1, <1>3, ChangeIsWhole, StillIsWhole
<1> QED
  BY <1>2, <1>3 DEF Next, AllDone

LEMMA InitTypingInv == Init => TypingInv
<1> SUFFICES ASSUME Init PROVE TypingInv
  OBVIOUS
<1>1. DeviceOK /\ changes \in Nat /\ faults \in Nat
  BY DEF Init, DeviceOK
<1>2. \A c \in Calls : Pc(c) = "idle"
  BY DEF Init, Idle, Pc
<1>3. Active = {} /\ \A c \in Calls : ~Typed(c)
  BY <1>2 DEF Active, Pc, Typed
<1>4. TypersAreOrdered
  BY <1>3 DEF TypersAreOrdered
<1>5. TypedSoFar = <<>>
  <2> DEFINE seqs == [t \in 1 .. 0 |-> TypedAt(t)]
  <2>1. TypedSoFar = FlattenSeq(seqs)
    BY DEF TypedSoFar, Init, ChainInit
  <2>2. seqs \in Pieces(0, STRING)
    BY DEF Pieces
  <2> HIDE DEF seqs
  <2>3. PICK h : Flattens(STRING, 0, seqs, h)
    BY <2>2, JoinOf
  <2> QED
    BY <2>1, <2>3 DEF Flattens
<1>6. device.keyboard = [held |-> {}, typed |-> <<>>] /\ device.finger = None
  BY DEF Init, NothingHeld
<1>7. \A c \in Calls : PastTheGates(c) /\ AtTheDevice(c)
  BY <1>2, <1>3 DEF PastTheGates, AtTheDevice
<1> QED
  BY <1>1, <1>4, <1>5, <1>6, <1>7 DEF TypingInv, TextsAreWhole

\* As long as no stream breaks and the screen stays, whoever else acts, the text that has
\* been typed is the texts of the calls that succeeded, each whole and in the order of the
\* lock, and nothing is left held down: simulator.ts's typeText with its gates, the key
\* map, and exclusively().
THEOREM TextsAreTypedWhole ==
  ASSUME SheetsAreOverFields
  PROVE  Spec => []TextsAreWhole
<1>1. TypingInv => TextsAreWhole
  BY DEF TypingInv
<1>2. IInv /\ IInv' /\ TypingInv /\ [Next]_vars => TypingInv'
  BY TypingInvStep
<1> QED
  BY <1>1, <1>2, InductiveInvariant, InitTypingInv, PTL DEF Spec

--------------------------------------------------------------------------------
(***************************************************************************)
(* What undisturbed calls see.                                              *)
(***************************************************************************)
SameScene == device'.orientation = device.orientation /\ device'.screen = device.screen

\* A call that is another's bystander, and on the same screen if it is not disturbed.
StandsBy(d) ==
  Bystands(d) /\ (d \in Active /\ call'[d].calm => call[d].calm /\ SameScene)

LEMMA DisturbedIsNotCalm ==
  ASSUME NEW d \in Active, NEW turned
  PROVE  ~Disturbed(d, turned).calm
<1> DEFINE news == [calm |-> FALSE, sure |-> call[d].sure /\ ~turned]
<1>1. "calm" \in DOMAIN news /\ news["calm"] = FALSE
  OBVIOUS
<1>2. Disturbed(d, turned) = Updated(call[d], news)
  BY DEF Disturbed
<1> HIDE DEF news
<1>3. \A f \in DOMAIN news : Updated(call[d], news)[f] = news[f]
  BY UpdatedIs
<1> QED
  BY <1>1, <1>2, <1>3

\* All that a step of one call leaves of the screen.
LEMMA SceneStays ==
  ASSUME IInv, NEW c \in Calls,
         Begin(c) \/ Reading(c) \/ (Turns(c) /\ ~Rotate(c)) \/ Delivery(c) \/ Failure(c)
  PROVE  SameScene
<1>1. CASE Deliver(c)
  BY <1>1, TakeKeeps DEF Deliver, SameScene, IInv
<1>2. CASE Activate(c)
  <2>1. \A i : /\ Flip(device, i).orientation = device.orientation
               /\ Flip(device, i).screen = device.screen
    BY DEF Flip, IInv
  <2>2. device' = device \/ \E i : device' = Flip(device, i)
    BY <1>2 DEF Activate
  <2> QED
    BY <2>1, <2>2 DEF SameScene
<1>3. CASE UNCHANGED device
  BY <1>3 DEF SameScene
<1>4. CASE Begin(c) \/ Reading(c)
  BY <1>3, <1>4 DEF Begin, Reading, DimsFromCache, AskRootFrame, RootFrameServed, RootFrameArrives,
     Aim, ScreenServed, ScreenArrives, ReadPoint, LocatePoint, FindByLabel, FindById,
     FindInTree, HitTest, ReadBack, RefuseText, SecureFieldGate, PasswordSheetGate, Capture,
     OnlyCalls, Fails
<1>5. CASE \/ ClearDims(c) \/ ProbeTree(c) \/ Probe(c) \/ NoteDetected(c)
           \/ Queue(c) \/ Run(c) \/ Acknowledge(c) \/ Failure(c)
  BY <1>3, <1>5 DEF ClearDims, ProbeTree, Probe, NoteDetected, Queue, Run, Acknowledge, Failure,
     RootFrameFails, ReadFails, RotateFails, Cut, OnlyCalls, Fails
<1> QED
  BY <1>1, <1>2, <1>4, <1>5 DEF Turns, Delivery

LEMMA BeginIsStoodBy ==
  ASSUME IInv, NEW c \in Calls, Begin(c), NEW d \in Calls \ {c}
  PROVE  StandsBy(d)
<1>1. Bystands(d) /\ SameScene
  BY OthersBystand, SceneStays
<1>2. ASSUME d \in Active PROVE call'[d].calm => call[d].calm
  <2>1. PICK r : call'[d] = Updated(call[d], [sure |-> call[d].sure /\ ~Turning(r)])
    BY <1>2 DEF Begin
  <2> DEFINE news == [sure |-> call[d].sure /\ ~Turning(r)]
  <2>2. DOMAIN news = {"sure"} /\ call'[d] = Updated(call[d], news)
    BY <2>1
  <2> HIDE DEF news
  <2>3. "calm" \in DOMAIN call[d]
    BY <1>2, ActiveCall
  <2>4. \A f \in DOMAIN call[d] \ DOMAIN news : Updated(call[d], news)[f] = call[d][f]
    BY UpdatedIs
  <2> QED
    BY <2>2, <2>3, <2>4
<1> QED
  BY <1>1, <1>2 DEF StandsBy

LEMMA RotateIsStoodBy ==
  ASSUME IInv, NEW c \in Calls, Rotate(c), NEW d \in Calls \ {c}
  PROVE  StandsBy(d)
<1>1. Bystands(d)
  BY OthersBystand
<1>2. call'[d] = Disturbed(d, TRUE)
  BY DEF Rotate
<1> QED
  BY <1>1, <1>2, DisturbedIsNotCalm DEF StandsBy

LEMMA CallIsStoodBy ==
  ASSUME IInv, NEW c \in Active, Moves(c), SameScene, NEW d \in Calls \ {c}
  PROVE  StandsBy(d)
<1>1. Bystands(d)
  BY MoveIs
<1>2. d \in Active => call'[d] = call[d]
  <2>1. c \in Calls /\ DOMAIN call = Calls /\ \A e \in Calls : "pc" \in DOMAIN call[e]
    BY ActiveCall
  <2>2. ASSUME NEW pc, NEW memory, Goes(c, pc, memory) PROVE call'[d] = call[d]
    BY <2>1, <2>2, GoesTo
  <2>3. ASSUME NEW outcome, NEW memory, Answers(c, outcome, memory), d \in Active
        PROVE  call'[d] = call[d]
    <3>1. call'[d] = Past(d)
      BY <2>3 DEF Answers
    <3> QED
      BY <2>3, <3>1 DEF Past, Active, Pc
  <2> QED
    BY <2>2, <2>3 DEF Moves
<1> QED
  BY <1>1, <1>2 DEF StandsBy

LEMMA WorldIsStoodBy ==
  ASSUME IInv, Turn \/ Change \/ UNCHANGED vars \/ \E t \in Tickets : ForgetTail(t),
         NEW d \in Calls
  PROVE  StandsBy(d)
<1>1. Bystands(d)
  BY AllBystand
<1>2. CASE Turn \/ Change
  <2>1. PICK turned : call'[d] = Disturbed(d, turned)
    BY <1>2 DEF Turn, Change
  <2> QED
    BY <1>1, <2>1, DisturbedIsNotCalm DEF StandsBy
<1>3. CASE UNCHANGED vars \/ \E t \in Tickets : ForgetTail(t)
  BY <1>1, <1>3 DEF vars, ForgetTail, StandsBy, SameScene
<1> QED
  BY <1>2, <1>3

--------------------------------------------------------------------------------
\* What one call remembers of the screen does not depend on the others.
SameButCalm(r, q) ==
  DOMAIN q = DOMAIN r /\ \A f \in DOMAIN r \ {"calm", "sure"} : q[f] = r[f]

LEMMA SeesTargetStays ==
  ASSUME NEW r, NEW q, SameButCalm(r, q), {"pc", "request", "dims"} \subseteq DOMAIN r,
         NEW alike, SeesTarget(r, alike)
  PROVE  SeesTarget(q, alike)
<1>1. /\ DOMAIN q = DOMAIN r /\ q.pc = r.pc /\ q.request = r.request /\ q.dims = r.dims
      /\ "verb" \in DOMAIN r => q.verb = r.verb
      /\ "target" \in DOMAIN r => q.target = r.target
      /\ "points" \in DOMAIN r => q.points = r.points
      /\ "by" \in DOMAIN r => q.by = r.by
      /\ "events" \in DOMAIN r => q.events = r.events
      /\ "hit" \in DOMAIN r => q.hit = r.hit
  BY DEF SameButCalm
<1>2. "hit" \in DOMAIN r => "verb" \in DOMAIN r
  BY DEF SeesTarget
<1>3. "verb" \in DOMAIN r => "target" \in DOMAIN r
  BY DEF SeesTarget
<1>4. r.pc \in Aiming \cup Delivering \cup {"hitTest", "readBack"} => "verb" \in DOMAIN r
  BY DEF SeesTarget
<1>5. "verb" \in DOMAIN q =>
        /\ "target" \in DOMAIN q
        /\ \E v \in alike : q.target \in Candidates(v, q.request.label)
        /\ q.verb = "activation" => IsToggle(q.target)
  BY <1>1, <1>3 DEF SeesTarget
<1>6. q.pc \in Aiming \cup {"hitTest"} => HasCentre(q.target)
  BY <1>1, <1>3, <1>4 DEF SeesTarget
<1>7. q.pc = "hitTest" =>
        /\ {"points", "by"} \subseteq DOMAIN q /\ q.by \in Orientations
        /\ q.points = <<MeantAt(CentreOfNode(q.target), q)>>
  BY <1>1, <1>3, <1>4 DEF SeesTarget, MeantAt
<1>8. q.pc \in Delivering =>
        /\ q.verb = "activation" \/ HasCentre(q.target)
        /\ HasCentre(q.target) => Reached(q, alike)
  BY <1>1, <1>3, <1>4 DEF SeesTarget, Reached
<1>9. q.pc = "run" /\ q.verb # "activation" =>
        /\ "events" \in DOMAIN q
        /\ q.events \in Seq([kind : {"touch"}, at : {q.points[1]}, direction : {"down", "up"}]
                              \cup {Delay})
  <2> SUFFICES ASSUME q.pc = "run", q.verb # "activation"
      PROVE  /\ "events" \in DOMAIN q
             /\ q.events \in Seq([kind : {"touch"}, at : {q.points[1]}, direction : {"down", "up"}]
                                   \cup {Delay})
    OBVIOUS
  <2>1. r.pc \in Delivering
    BY <1>1 DEF Delivering
  <2>2. "verb" \in DOMAIN r /\ "target" \in DOMAIN r /\ q.verb = r.verb /\ q.target = r.target
    BY <1>1, <1>3, <1>4, <2>1
  <2>3. HasCentre(r.target) /\ (HasCentre(r.target) => "points" \in DOMAIN r)
    BY <2>1, <2>2 DEF SeesTarget, Reached
  <2>4. q.points = r.points
    BY <1>1, <2>3
  <2>5. /\ "events" \in DOMAIN r
        /\ r.events \in Seq([kind : {"touch"}, at : {r.points[1]}, direction : {"down", "up"}]
                              \cup {Delay})
    BY <1>1, <2>2 DEF SeesTarget
  <2> QED
    BY <1>1, <2>4, <2>5
<1>10. "hit" \in DOMAIN q =>
         /\ "verb" \in DOMAIN q
         /\ HitsIn(q) \/ (q.pc \in LookingUp \cup {"readBack"} /\ MisnamedIn(q, alike))
  BY <1>1, <1>2, <1>3 DEF SeesTarget, HitsIn, MisnamedIn
<1>11. q.dims \in Sizes \cup {None}
  BY <1>1 DEF SeesTarget
<1> QED
  BY <1>1, <1>4, <1>5, <1>6, <1>7, <1>8, <1>9, <1>10, <1>11 DEF SeesTarget

LEMMA SeesPointStays ==
  ASSUME NEW r, NEW q, SameButCalm(r, q), {"pc", "request", "dims"} \subseteq DOMAIN r,
         NEW alike, SeesPoint(r, alike)
  PROVE  SeesPoint(q, alike)
<1>1. /\ DOMAIN q = DOMAIN r /\ q.pc = r.pc /\ q.request = r.request /\ q.dims = r.dims
      /\ "target" \in DOMAIN r => q.target = r.target
      /\ "points" \in DOMAIN r => q.points = r.points
      /\ "by" \in DOMAIN r => q.by = r.by
  BY DEF SameButCalm
<1> QED
  BY <1>1 DEF SeesPoint, MeantAt

LEMMA SeesProbesStays ==
  ASSUME NEW r, NEW q, SameButCalm(r, q), {"pc", "request", "dims"} \subseteq DOMAIN r,
         r.pc = "detected" => "answer" \in DOMAIN r,
         NEW alike, SeesProbes(r, alike)
  PROVE  SeesProbes(q, alike)
<1>1. /\ DOMAIN q = DOMAIN r /\ q.pc = r.pc /\ q.dims = r.dims
      /\ "tried" \in DOMAIN r => q.tried = r.tried
      /\ "matches" \in DOMAIN r => q.matches = r.matches
      /\ "probes" \in DOMAIN r => q.probes = r.probes
      /\ "answer" \in DOMAIN r => q.answer = r.answer
  BY DEF SameButCalm
<1> QED
  BY <1>1 DEF SeesProbes

\* The screen as a call saw it that stood by is the screen as it is.
LEMMA StandsBySees ==
  ASSUME IInv, NEW d \in Calls, StandsBy(d), faults' = 0 => faults = 0, Sees(d), Tells(d)
  PROVE  Sees(d)' /\ Tells(d)'
<1>1. CASE call'[d] = call[d]
  <2>1. /\ Pc(d)' = Pc(d) /\ Asked(d)' = Asked(d) /\ (d \in Active)' = (d \in Active)
    BY <1>1 DEF Pc, Asked, Active
  <2>2. Tells(d)'
    BY <1>1, <2>1 DEF Tells
  <2>3. ASSUME d \in Active, call[d].calm PROVE SameScene
    BY <1>1, <2>3 DEF StandsBy
  <2>4. Sees(d)'
    BY <1>1, <2>1, <2>3 DEF Sees, SameScene
  <2> QED
    BY <2>2, <2>4
<1>2. CASE Pc(d) = "done" /\ call'[d] = Past(d) /\ call'[d] # call[d]
  <2> DEFINE kept == {"pc"} \cup IF Asked(d).op = "type" THEN {"request", "outcome", "ticket"} ELSE {}
  <2>1. call'[d] = Of(call[d], kept) /\ "pc" \in DOMAIN call[d]
    BY <1>2 DEF Past, IInv
  <2>2. DOMAIN Of(call[d], kept) = DOMAIN call[d] \cap kept
        /\ \A f \in DOMAIN call[d] \cap kept : Of(call[d], kept)[f] = call[d][f]
    BY OfIs
  <2>3. "pc" \in kept /\ ("request" \in kept <=> Asked(d).op = "type")
    OBVIOUS
  <2> HIDE DEF kept
  <2>4. Pc(d)' = "done" /\ Asked(d)'.op \in {"none", "type"}
    BY <1>2, <2>1, <2>2, <2>3 DEF Pc, Asked
  <2> QED
    BY <2>4 DEF Sees, Tells, Active, Pc
<1>3. CASE d \in Active /\ SameButCalm(call[d], call'[d])
  <2>1. /\ {"pc", "request", "dims"} \subseteq DOMAIN call[d]
        /\ call[d].pc = "detected" => "answer" \in DOMAIN call[d]
    BY <1>3, ActiveCall DEF Remembers, Pc
  <2>2. Pc(d)' = Pc(d) /\ Asked(d)' = Asked(d) /\ (d \in Active)' = (d \in Active)
        /\ Pc(d) # "done"
    BY <1>3, <2>1 DEF SameButCalm, Pc, Asked, Active
  <2>3. Tells(d)'
    BY <2>2 DEF Tells
  <2>4. ASSUME call'[d].calm PROVE call[d].calm /\ SameScene
    BY <1>3, <2>4 DEF StandsBy
  <2>5. Sees(d)'
    BY <1>3, <2>1, <2>2, <2>4, SeesTargetStays, SeesPointStays, SeesProbesStays DEF Sees, SameScene
  <2> QED
    BY <2>3, <2>5
<1> QED
  BY <1>1, <1>2, <1>3 DEF StandsBy, Bystands, SameButCalm

--------------------------------------------------------------------------------
(***************************************************************************)
(* The steps of a call that is not disturbed.                               *)
(***************************************************************************)
Here == Alike(device.orientation, device.screen)

LEMMA GoesAndSees ==
  ASSUME IInv, NEW c \in Active, Sees(c), SameScene, faults' = 0 => faults = 0,
         NEW pc, pc \notin {"idle", "done"}, NEW memory, Goes(c, pc, memory),
         DOMAIN memory \cap {"request", "pc", "calm"} = {},
         call[c].calm /\ NamesTell /\ Asked(c).op = "named" => SeesTarget(call'[c], Here),
         call[c].calm /\ Asked(c).op = "point" => SeesPoint(call'[c], Here),
         call[c].calm /\ Turning(Asked(c)) /\ faults' = 0 /\ IsDecisive(Here) =>
           SeesProbes(call'[c], Here)
  PROVE  Sees(c)' /\ Tells(c)'
<1>1. /\ c \in Calls /\ DOMAIN call = Calls /\ \A d \in Calls : "pc" \in DOMAIN call[d]
      /\ {"request", "calm"} \subseteq DOMAIN call[c]
  BY ActiveCall
<1>2. /\ Pc(c)' = pc
      /\ DOMAIN call'[c] = DOMAIN call[c] \cup {"pc"} \cup DOMAIN memory
      /\ \A f \in DOMAIN call[c] \ (DOMAIN memory \cup {"pc"}) : call'[c][f] = call[c][f]
  BY <1>1, GoesTo
<1>3. call'[c].calm = call[c].calm /\ Asked(c)' = Asked(c)
  BY <1>1, <1>2 DEF Asked
<1>4. Alike(device'.orientation, device'.screen) = Here
  BY DEF SameScene, Here
<1>5. Tells(c)'
  BY <1>2 DEF Tells
<1>6. call[c].calm => Asked(c) \in Requests(c, device.screen)
  BY DEF Sees
<1>7. Sees(c)'
  BY <1>3, <1>4, <1>6 DEF Sees, SameScene
<1> QED
  BY <1>5, <1>7

LEMMA AnswersAre ==
  ASSUME IInv, NEW c \in Active, NEW outcome, NEW memory, Answers(c, outcome, memory),
         DOMAIN memory \cap {"request", "pc", "calm", "outcome", "screen", "orientation"} = {}
  PROVE  /\ Pc(c)' = "done" /\ call'[c].outcome = outcome
         /\ call'[c].orientation = device.orientation /\ call'[c].screen = device.screen
         /\ call'[c].calm = call[c].calm /\ call'[c].request = call[c].request
         /\ Asked(c)' = Asked(c)
         /\ \A f \in Lasting \ {"pc", "outcome", "screen", "orientation"} :
              /\ f \in DOMAIN call'[c] <=> f \in DOMAIN call[c] \cup DOMAIN memory
              /\ f \in DOMAIN memory => call'[c][f] = memory[f]
              /\ f \in DOMAIN call[c] \ DOMAIN memory => call'[c][f] = call[c][f]
<1>1. /\ c \in Calls /\ DOMAIN call = Calls /\ \A d \in Calls : "pc" \in DOMAIN call[d]
      /\ {"request", "calm"} \subseteq DOMAIN call[c]
  BY ActiveCall
<1>2. /\ Pc(c)' = "done" /\ call'[c].outcome = outcome
      /\ call'[c].orientation = device.orientation
      /\ DOMAIN call'[c] =
           (DOMAIN call[c] \cup DOMAIN memory \cup {"pc", "outcome", "screen", "orientation"})
             \cap Lasting
      /\ \A f \in (DOMAIN call[c] \cap Lasting)
                    \ (DOMAIN memory \cup {"pc", "outcome", "screen", "orientation"}) :
           call'[c][f] = call[c][f]
  BY <1>1, AnswersWith
<1>3. call'[c].screen = device.screen
  <2> DEFINE told == Updated(call[c], memory)
             end  == [pc |-> "done", outcome |-> outcome, screen |-> device.screen,
                      orientation |-> device.orientation]
             new  == Of(Updated(told, end), Lasting)
  <2>1. call'[c] = new
    BY <1>1 DEF Answers
  <2>2. "screen" \in DOMAIN end /\ end["screen"] = device.screen
    OBVIOUS
  <2> HIDE DEF told, end
  <2>3. DOMAIN Updated(told, end) = DOMAIN told \cup DOMAIN end
    BY UpdatedIs
  <2>4. \A f \in DOMAIN end : Updated(told, end)[f] = end[f]
    BY DEF Updated
  <2>5. \A f \in DOMAIN Updated(told, end) \cap Lasting : new[f] = Updated(told, end)[f]
    BY OfIs
  <2>6. "screen" \in Lasting
    BY DEF Lasting
  <2> HIDE DEF new
  <2> QED
    BY <2>1, <2>2, <2>3, <2>4, <2>5, <2>6
<1>4. {"request", "calm"} \subseteq Lasting
  BY DEF Lasting
<1>5. ASSUME NEW f \in Lasting \ {"pc", "outcome", "screen", "orientation"}
      PROVE  /\ f \in DOMAIN call'[c] <=> f \in DOMAIN call[c] \cup DOMAIN memory
             /\ f \in DOMAIN memory => call'[c][f] = memory[f]
             /\ f \in DOMAIN call[c] \ DOMAIN memory => call'[c][f] = call[c][f]
  <2>1. f \in DOMAIN memory => call'[c][f] = memory[f]
    BY <1>1, <1>5, AnswersRemember
  <2> QED
    BY <1>2, <1>5, <2>1
<1>6. /\ "request" \in DOMAIN call'[c] /\ call'[c].request = call[c].request
      /\ call'[c].calm = call[c].calm
  BY <1>1, <1>2, <1>4
<1>7. Asked(c)' = Asked(c)
  BY <1>1, <1>6 DEF Asked
<1> QED
  BY <1>2, <1>3, <1>5, <1>6, <1>7

LEMMA AnswersAndTells ==
  ASSUME IInv, NEW c \in Active, SameScene, NEW outcome, NEW memory, Answers(c, outcome, memory),
         DOMAIN memory \cap {"request", "pc", "calm", "outcome", "screen", "orientation"} = {},
         call[c].calm /\ NamesTell /\ Asked(c).op = "named" => TellsTarget(call'[c], Here),
         call[c].calm /\ PointsTell /\ Asked(c).op = "point" /\ faults' = 0 => TellsPoint(call'[c]),
         call[c].calm /\ Turning(Asked(c)) /\ faults' = 0 /\ IsDecisive(Here) =>
           call'[c].answer = device.orientation
  PROVE  Sees(c)' /\ Tells(c)'
<1>1. /\ Pc(c)' = "done" /\ call'[c].calm = call[c].calm /\ Asked(c)' = Asked(c)
      /\ call'[c].orientation = device.orientation /\ call'[c].screen = device.screen
  BY AnswersAre
<1>2. Alike(call'[c].orientation, call'[c].screen) = Here
  BY <1>1 DEF Here
<1>3. Tells(c)'
  BY <1>1, <1>2 DEF Tells, IInv, TypeOK
<1>4. Sees(c)'
  BY <1>1 DEF Sees, Active, Pc
<1> QED
  BY <1>3, <1>4

\* What the step of a call has to show: of its end, or of what it remembers.
NamedSees(c) ==
  IF Pc(c)' = "done" THEN TellsTarget(call'[c], Here) ELSE SeesTarget(call'[c], Here)
PointSees(c) ==
  IF Pc(c)' = "done" THEN PointsTell /\ faults' = 0 => TellsPoint(call'[c])
                     ELSE SeesPoint(call'[c], Here)
TurnSees(c) ==
  IF Pc(c)' = "done" THEN call'[c].answer = device.orientation
                     ELSE SeesProbes(call'[c], Here)

LEMMA OwnStepSees ==
  ASSUME IInv, NEW c \in Active, Moves(c), SameScene, Sees(c), faults' = 0 => faults = 0,
         call[c].calm /\ NamesTell /\ Asked(c).op = "named" => NamedSees(c),
         call[c].calm /\ Asked(c).op = "point" => PointSees(c),
         call[c].calm /\ Turning(Asked(c)) /\ faults' = 0 /\ IsDecisive(Here) => TurnSees(c)
  PROVE  Sees(c)' /\ Tells(c)'
<1>1. CASE \E pc, memory : pc \notin {"idle", "done"} /\ Goes(c, pc, memory) /\ Learnt(memory)
  <2>1. PICK pc, memory : pc \notin {"idle", "done"} /\ Goes(c, pc, memory) /\ Learnt(memory)
    BY <1>1
  <2>2. Pc(c)' # "done"
    BY <2>1, ActiveCall, GoesTo
  <2>3. DOMAIN memory \cap {"request", "pc", "calm"} = {}
    BY <2>1 DEF Learnt
  <2> QED
    BY <2>1, <2>2, <2>3, GoesAndSees DEF NamedSees, PointSees, TurnSees
<1>2. CASE \E outcome, memory : Answers(c, outcome, memory) /\ Learnt(memory)
  <2>1. PICK outcome, memory : Answers(c, outcome, memory) /\ Learnt(memory)
    BY <1>2
  <2>2. DOMAIN memory \cap {"request", "pc", "calm", "outcome", "screen", "orientation"} = {}
    BY <2>1 DEF Learnt
  <2>3. Pc(c)' = "done"
    BY <2>1, <2>2, AnswersAre
  <2> QED
    BY <2>1, <2>2, <2>3, AnswersAndTells DEF NamedSees, PointSees, TurnSees
<1> QED
  BY <1>1, <1>2 DEF Moves

--------------------------------------------------------------------------------
(***************************************************************************)
(* What is read of the screen is what others would read of it, but for the  *)
(* toggles.                                                                 *)
(***************************************************************************)
LEMMA ScreenIsAlike ==
  ASSUME IInv, DeviceOK
  PROVE  /\ View(device) \in Here /\ View(View(device)) = View(device)
         /\ BridgeTree(device) = BridgeTrees[View(device)]
         /\ DefaultTree(device) = DefaultTrees[View(device)]
         /\ ReadScreenTree = ReadTrees[View(device)]
         /\ \A p : /\ TopmostAt(device, p) = TopmostAt(View(device), p)
                   /\ ReadPointAt(device, p) = ReadPointAt(View(device), p)
         /\ \A target, query : Resolved(device, target, query) = Resolved(View(device), target, query)
         /\ device.orientation \in Orientations /\ device.screen \in Screens
<1>1. View(View(device)) = View(device)
  BY DEF View
<1>2. View(device) \in Here
  BY DEF View, Here, Alike, DeviceOK
<1>3. /\ BridgeTree(View(device)) = BridgeTree(device)
      /\ DefaultTree(View(device)) = DefaultTree(device)
  BY <1>1 DEF BridgeTree, DefaultTree
<1>4. View(device).orientation = device.orientation
      /\ LogicalScreen(View(device)) = LogicalScreen(device)
  BY DEF View, LogicalScreen
<1>5. \A p : TopmostAt(device, p) = TopmostAt(View(device), p)
  BY <1>3 DEF TopmostAt
<1>6. \A p : ReadPointAt(device, p) = ReadPointAt(View(device), p)
  BY <1>4, <1>5 DEF ReadPointAt
<1>7. \A target, query : Resolved(device, target, query) = Resolved(View(device), target, query)
  BY <1>3 DEF Resolved
<1> QED
  BY <1>1, <1>2, <1>5, <1>6, <1>7 DEF BridgeTree, DefaultTree, ReadScreenTree, IInv, TypeOK

LEMMA AlikeIs ==
  ASSUME IInv, NEW v \in Here
  PROVE  /\ v \in Views /\ View(v) = v
         /\ v.orientation = device.orientation /\ v.screen = device.screen
         /\ LogicalScreen(v) = LogicalScreen(device)
         /\ BridgeTree(v) = BridgeTrees[v] /\ DefaultTree(v) = DefaultTrees[v]
<1>1. PICK on \in SUBSET Toggles :
        v = [orientation |-> device.orientation, screen |-> device.screen, on |-> on]
  BY DEF Here, Alike
<1>2. v.orientation = device.orientation /\ v.screen = device.screen /\ View(v) = v
  BY <1>1 DEF View
<1>3. v \in Views
  BY <1>1 DEF Views, IInv, TypeOK
<1> QED
  BY <1>2, <1>3 DEF LogicalScreen, BridgeTree, DefaultTree

LEMMA NameIsTold ==
  ASSUME NamesTell, IInv, NEW c \in Calls, NEW r \in Requests(c, device.screen), r.op = "named"
  PROVE  NothingMoves(Here) /\ NameTells(r.label, Here)
  BY DEF NamesTell, Here, IInv, TypeOK

--------------------------------------------------------------------------------
(***************************************************************************)
(* A tap by name: on its way to the element.                                *)
(***************************************************************************)
\* What it has found, and hit, is as before.
SameTarget(r, q) ==
  /\ q.request = r.request
  /\ \A f \in {"verb", "target", "hit"} :
       (f \in DOMAIN q <=> f \in DOMAIN r) /\ (f \in DOMAIN r => q[f] = r[f])

\* What remains to be shown of a call that goes on with its target.
StillSees(q, alike) ==
  /\ q.dims \in Sizes \cup {None}
  /\ q.pc \in Aiming \cup {"hitTest"} => HasCentre(q.target)
  /\ q.pc = "hitTest" =>
       /\ {"points", "by"} \subseteq DOMAIN q /\ q.by \in Orientations
       /\ q.points = <<MeantAt(CentreOfNode(q.target), q)>>
  /\ q.pc \in Delivering =>
       (q.verb = "activation" \/ HasCentre(q.target)) /\ (HasCentre(q.target) => Reached(q, alike))
  /\ q.pc = "run" /\ q.verb # "activation" =>
       /\ "events" \in DOMAIN q
       /\ q.events \in Seq([kind : {"touch"}, at : {q.points[1]}, direction : {"down", "up"}]
                             \cup {Delay})

LEMMA TargetStays ==
  ASSUME NEW r, NEW q, SameTarget(r, q), NEW alike, SeesTarget(r, alike),
         r.pc \in Aiming \cup Delivering \cup {"hitTest"}, StillSees(q, alike)
  PROVE  SeesTarget(q, alike)
<1>1. "verb" \in DOMAIN r /\ "target" \in DOMAIN r /\ r.pc \notin LookingUp \cup {"readBack"}
  BY DEF SeesTarget, LookingUp, Aiming, Delivering
<1>2. /\ q.request = r.request
      /\ "verb" \in DOMAIN q /\ q.verb = r.verb
      /\ "target" \in DOMAIN q /\ q.target = r.target
      /\ "hit" \in DOMAIN q <=> "hit" \in DOMAIN r
      /\ "hit" \in DOMAIN r => q.hit = r.hit
  BY <1>1 DEF SameTarget
<1>3. /\ \E v \in alike : q.target \in Candidates(v, q.request.label)
      /\ q.verb = "activation" => IsToggle(q.target)
  BY <1>1, <1>2 DEF SeesTarget
<1>4. "hit" \in DOMAIN q => HitsIn(q)
  BY <1>1, <1>2 DEF SeesTarget, HitsIn
<1> QED
  BY <1>2, <1>3, <1>4 DEF SeesTarget, StillSees

\* The call ends, and what it has hit is as before.
LEMMA EndsAndTells ==
  ASSUME IInv, NEW c \in Active, SeesTarget(call[c], Here), NEW outcome, NEW memory,
         Answers(c, outcome, memory), Learnt(memory), "hit" \notin DOMAIN memory,
         outcome # "tap-obstructed",
         "hit" \in DOMAIN call[c] =>
           /\ DOMAIN memory \cap {"verb", "target"} = {}
           /\ Pc(c) \in LookingUp \cup {"readBack"} => outcome \in {"activated", "unread"}
  PROVE  NamedSees(c)
<1>1. /\ Pc(c)' = "done" /\ call'[c].outcome = outcome /\ call'[c].request = call[c].request
      /\ \A f \in {"hit", "target"} :
           /\ f \in DOMAIN call'[c] <=> f \in DOMAIN call[c] \cup DOMAIN memory
           /\ f \in DOMAIN call[c] \ DOMAIN memory => call'[c][f] = call[c][f]
  <2>1. {"hit", "target"} \subseteq Lasting \ {"pc", "outcome", "screen", "orientation"}
    BY DEF Lasting
  <2>2. DOMAIN memory \cap {"request", "pc", "calm", "outcome", "screen", "orientation"} = {}
    BY DEF Learnt
  <2> QED
    BY <2>1, <2>2, AnswersAre
<1>2. ASSUME "hit" \in DOMAIN call'[c]
      PROVE  HitsIn(call'[c]) \/ (outcome \in Activations /\ MisnamedIn(call'[c], Here))
  <2>1. "hit" \in DOMAIN call[c] /\ call'[c].hit = call[c].hit
    BY <1>1, <1>2
  <2>2. "verb" \in DOMAIN call[c] /\ "target" \in DOMAIN call[c]
    BY <2>1 DEF SeesTarget
  <2>3. call'[c].target = call[c].target
    BY <1>1, <2>1, <2>2
  <2>4. HitsIn(call[c]) \/ (Pc(c) \in LookingUp \cup {"readBack"} /\ MisnamedIn(call[c], Here))
    BY <2>1 DEF SeesTarget, Pc
  <2>5. HitsIn(call[c]) => HitsIn(call'[c])
    BY <2>1, <2>3 DEF HitsIn
  <2>6. MisnamedIn(call[c], Here) => MisnamedIn(call'[c], Here)
    BY <1>1, <2>3 DEF MisnamedIn
  <2> QED
    BY <2>1, <2>4, <2>5, <2>6 DEF Activations
<1> QED
  BY <1>1, <1>2 DEF NamedSees, TellsTarget

\* It goes on, and has found and hit what it had.
LEMMA GoesWithTarget ==
  ASSUME IInv, NEW c \in Active, NEW pc, NEW memory, Goes(c, pc, memory),
         DOMAIN memory \cap {"request", "pc", "verb", "target", "hit"} = {}
  PROVE  /\ Pc(c)' = pc /\ call'[c].pc = pc /\ SameTarget(call[c], call'[c])
         /\ DOMAIN call'[c] = DOMAIN call[c] \cup {"pc"} \cup DOMAIN memory
         /\ \A f \in DOMAIN memory : call'[c][f] = memory[f]
         /\ \A f \in DOMAIN call[c] \ (DOMAIN memory \cup {"pc"}) : call'[c][f] = call[c][f]
<1>1. /\ Pc(c)' = pc /\ "request" \in DOMAIN call[c]
      /\ DOMAIN call'[c] = DOMAIN call[c] \cup {"pc"} \cup DOMAIN memory
      /\ \A f \in DOMAIN memory \ {"pc"} : call'[c][f] = memory[f]
      /\ \A f \in DOMAIN call[c] \ (DOMAIN memory \cup {"pc"}) : call'[c][f] = call[c][f]
  BY ActiveCall, GoesTo
<1>2. call'[c].pc = pc
  BY <1>1 DEF Pc
<1> QED
  BY <1>1, <1>2 DEF SameTarget

LEMMA ApproachSees ==
  ASSUME IInv, NEW c \in Active, Asked(c).op = "named", SeesTarget(call[c], Here),
         \/ DimsFromCache(c) \/ AskRootFrame(c) \/ RootFrameServed(c) \/ RootFrameArrives(c)
         \/ RootFrameFails(c)
  PROVE  NamedSees(c)
<1>1. Pc(c) \in {"dims", "root", "rootRead"}
  BY DEF DimsFromCache, AskRootFrame, RootFrameServed, RootFrameArrives, RootFrameFails
<1>2. /\ call[c].pc \in Aiming /\ "verb" \in DOMAIN call[c] /\ "target" \in DOMAIN call[c]
      /\ HasCentre(call[c].target) /\ call[c].dims \in Sizes \cup {None}
  BY <1>1 DEF SeesTarget, Aiming, Pc
<1>3. ASSUME NEW pc \in Aiming, NEW memory, Goes(c, pc, memory),
             DOMAIN memory \cap {"request", "pc", "verb", "target", "hit"} = {},
             "dims" \in DOMAIN memory => memory["dims"] \in Sizes \cup {None}
      PROVE  NamedSees(c)
  <2>1. /\ Pc(c)' = pc /\ call'[c].pc = pc /\ SameTarget(call[c], call'[c])
        /\ call'[c].dims \in Sizes \cup {None}
    BY <1>2, <1>3, GoesWithTarget, ActiveCall
  <2>2. call'[c].target = call[c].target
    BY <1>2, <2>1 DEF SameTarget
  <2>3. StillSees(call'[c], Here)
    BY <1>2, <1>3, <2>1, <2>2 DEF StillSees, Aiming, Delivering
  <2>4. SeesTarget(call'[c], Here)
    BY <1>2, <2>1, <2>3, TargetStays
  <2>5. Pc(c)' # "done"
    BY <1>3, <2>1 DEF Aiming
  <2> QED
    BY <2>4, <2>5 DEF NamedSees
<1>4. \/ \E pc \in Aiming : \/ Goes(c, pc, << >>) \/ \E x : Goes(c, pc, [sure |-> x])
                           \/ \E x \in Sizes \cup {None} : Goes(c, pc, [dims |-> x])
      \/ Answers(c, "error", << >>)
  BY ActiveCall, ScreenSize DEF IInv, TypeOK, DimsFromCache, AskRootFrame, RootFrameServed, RootFrameArrives, RootFrameFails, Aiming
<1>5. /\ DOMAIN << >> = {} /\ \A x : DOMAIN [dims |-> x] = {"dims"} /\ DOMAIN [sure |-> x] = {"sure"}
  OBVIOUS
<1>6. CASE Answers(c, "error", << >>)
  <2>1. call[c].pc \notin LookingUp \cup {"readBack"}
    BY <1>2 DEF LookingUp, Aiming
  <2> QED
    BY <1>5, <1>6, <2>1, EndsAndTells, AllLearnt DEF Pc
<1>7. ASSUME NEW pc \in Aiming, Goes(c, pc, << >>) PROVE NamedSees(c)
  BY <1>3, <1>5, <1>7
<1>8. ASSUME NEW pc \in Aiming, NEW x \in Sizes \cup {None}, Goes(c, pc, [dims |-> x])
      PROVE  NamedSees(c)
  <2> DEFINE memory == [dims |-> x]
  <2>1. DOMAIN memory = {"dims"} /\ memory["dims"] = x /\ Goes(c, pc, memory)
    BY <1>8
  <2> HIDE DEF memory
  <2> QED
    BY <1>3, <1>8, <2>1
<1>9. ASSUME NEW pc \in Aiming, NEW x, Goes(c, pc, [sure |-> x])
      PROVE  NamedSees(c)
  <2> DEFINE memory == [sure |-> x]
  <2>1. DOMAIN memory = {"sure"} /\ Goes(c, pc, memory)
    BY <1>9
  <2> HIDE DEF memory
  <2> QED
    BY <1>3, <2>1
<1> QED
  BY <1>4, <1>6, <1>7, <1>8, <1>9

--------------------------------------------------------------------------------
(***************************************************************************)
(* Frames: those that are served, those that are moved and those found.     *)
(***************************************************************************)
LEMMA BridgeElements ==
  ASSUME NEW v \in Views
  PROVE  /\ \E n \in Nat : Nodes(BridgeTrees[v]) = 1 .. n /\ Len(BridgeTrees[v]) = n
         /\ \A i \in Nodes(BridgeTrees[v]) :
              BridgeTrees[v][i] \in Elements /\ BridgeTrees[v][i].parent < i
<1> DEFINE tree == ScreenTree(v.screen, v.on)
<1>1. v.screen \in Screens /\ v.on \in SUBSET Toggles /\ v.orientation \in Orientations
  BY DEF Views
<1>2. tree \in Seq(Elements) /\ \A i \in Nodes(tree) : tree[i].parent < i
  BY <1>1, TreesAssumption
<1>3. BridgeTrees[v] = Laid(tree, v.orientation)
  BY DEF BridgeTrees
<1> HIDE DEF tree
<1>4. Len(tree) \in Nat /\ Nodes(tree) = 1 .. Len(tree) /\ \A i \in Nodes(tree) : tree[i] \in Elements
  BY <1>2 DEF Nodes
<1>5. \A f \in Frames \cup {NoFrame} : Transpose(f) \in Frames \cup {NoFrame}
  BY DEF Transpose, Frames
<1>6. \A f \in Frames : Transpose(f) \in Frames
  BY DEF Transpose, Frames
<1>7. CASE v.orientation \notin Landscapes
  <2>1. BridgeTrees[v] = tree
    BY <1>3, <1>7 DEF Laid
  <2> QED
    BY <1>2, <1>4, <2>1
<1>8. CASE v.orientation \in Landscapes
  <2> DEFINE laid == [i \in Nodes(tree) |->
                        [tree[i] EXCEPT !.frame = Transpose(@), !.place = Transpose(@)]]
  <2>1. BridgeTrees[v] = laid
    BY <1>3, <1>8 DEF Laid
  <2>2. ASSUME NEW i \in Nodes(tree) PROVE laid[i] \in Elements /\ laid[i].parent = tree[i].parent
    <3>1. tree[i] \in Elements
      BY <1>4
    <3>2. Transpose(tree[i].frame) \in Frames \cup {NoFrame} /\ Transpose(tree[i].place) \in Frames
      BY <1>5, <1>6, <3>1 DEF Elements
    <3>3. [tree[i] EXCEPT !.frame = Transpose(tree[i].frame), !.place = Transpose(tree[i].place)]
            \in Elements
      BY <3>1, <3>2 DEF Elements
    <3> QED
      BY <3>1, <3>3 DEF Elements
  <2>3. Nodes(laid) = 1 .. Len(tree) /\ Len(laid) = Len(tree)
    BY <1>4 DEF Nodes
  <2> HIDE DEF laid
  <2> QED
    BY <1>2, <1>4, <2>1, <2>2, <2>3
<1> QED
  BY <1>7, <1>8

LEMMA ReconciledIs ==
  ASSUME NEW v \in Views, NEW i \in Nodes(BridgeTrees[v])
  PROVE  LET node  == BridgeTrees[v][i]
             found == Reconciled(ByDefault(node))
         IN  /\ found # None /\ "frame" \in DOMAIN found
             /\ found.id = node.id /\ found.label = node.label /\ found.frame = node.frame
             /\ \A target : HitTestReaches(target, found) <=> HitTestReaches(target, node)
<1> DEFINE node  == BridgeTrees[v][i]
           seen  == ByDefault(node)
           found == Reconciled(seen)
<1>1. {"id", "label", "frame"} \subseteq DOMAIN node
  BY BridgeElements DEF Elements
<1> HIDE DEF node
<1>2. /\ {"id", "label", "frame"} \subseteq DOMAIN seen
      /\ seen.id = node.id /\ seen.label = node.label /\ seen.frame = node.frame
  BY <1>1 DEF ByDefault
<1> HIDE DEF seen
<1>3. /\ {"id", "label", "frame"} \subseteq DOMAIN found
      /\ found.id = seen.id /\ found.label = seen.label /\ found.frame = seen.frame
  BY <1>2 DEF Reconciled, Canonicalise
<1> HIDE DEF found
<1>4. \A target : HitTestReaches(target, found) <=> HitTestReaches(target, node)
  BY <1>2, <1>3 DEF HitTestReaches, SameName, HasFrame
<1> QED
  BY <1>2, <1>3, <1>4, NoneAssumption DEF found, seen, node

\* It has a frame, or none.
Framed(node) == "frame" \in DOMAIN node /\ node.frame \in Frames \cup {NoFrame}

\* h tells how far the first n nodes of a tree are moved, and the nearest frame.
MovedBy(tree, moved, i) ==
  LET up  == moved[tree[i].parent]
      own == tree[i].frame
      by  == IF /\ tree[i].type = RemoteHostType
                /\ own # NoFrame /\ up.frame # NoFrame
                /\ SameSize(own, up.frame)
             THEN At(up.frame.x - own.x, up.frame.y - own.y)
             ELSE up.by
  IN  [by |-> by, frame |-> IF own = NoFrame THEN up.frame ELSE Shift(own, by)]

Moving(tree, n, h) ==
  /\ DOMAIN h = 0 .. n /\ h[0] = [by |-> At(0, 0), frame |-> NoFrame]
  /\ \A i \in 1 .. n : h[i] = MovedBy(tree, h, i)

MovedOK(m) == m.by \in Points /\ m.frame \in Frames \cup {NoFrame}

LEMMA MovedByIs ==
  ASSUME NEW tree, NEW moved, NEW i, Framed(tree[i]), MovedOK(moved[tree[i].parent])
  PROVE  MovedOK(MovedBy(tree, moved, i))
<1> DEFINE up  == moved[tree[i].parent]
           own == tree[i].frame
           by  == IF /\ tree[i].type = RemoteHostType
                     /\ own # NoFrame /\ up.frame # NoFrame
                     /\ SameSize(own, up.frame)
                  THEN At(up.frame.x - own.x, up.frame.y - own.y)
                  ELSE up.by
<1>1. by \in Points
  <2>1. own # NoFrame /\ up.frame # NoFrame => At(up.frame.x - own.x, up.frame.y - own.y) \in Points
    BY DEF Framed, MovedOK, Frames, Points, At
  <2> QED
    BY <2>1 DEF MovedOK
<1>2. MovedBy(tree, moved, i) = [by |-> by, frame |-> IF own = NoFrame THEN up.frame ELSE Shift(own, by)]
  BY DEF MovedBy
<1> HIDE DEF by
<1>3. ASSUME NEW f \in Frames PROVE Shift(f, by) \in Frames
  <2>1. by.x \in Int /\ by.y \in Int
    BY <1>1 DEF Points
  <2>2. f.x + by.x \in Int /\ f.y + by.y \in Int
    BY <2>1 DEF Frames
  <2>3. \A a, b \in Int : [f EXCEPT !.x = a, !.y = b] \in Frames
    BY DEF Frames
  <2>4. \A a, b : [f EXCEPT !.x = @ + a, !.y = @ + b] = [f EXCEPT !.x = f.x + a, !.y = f.y + b]
    OBVIOUS
  <2> QED
    BY <2>2, <2>3, <2>4 DEF Shift
<1>4. own \in Frames \cup {NoFrame} /\ up.frame \in Frames \cup {NoFrame}
  BY DEF Framed, MovedOK
<1> HIDE DEF own, up
<1> QED
  BY <1>1, <1>2, <1>3, <1>4 DEF MovedOK

LEMMA MovingExists ==
  ASSUME NEW n \in Nat, NEW tree, \A i \in 1 .. n : tree[i].parent \in 0 .. i - 1
  PROVE  \E h : Moving(tree, n, h)
<1> DEFINE T == {m \in 0 .. n : \E h : Moving(tree, m, h)}
<1>1. 0 \in T
  <2>1. Moving(tree, 0, [i \in 0 .. 0 |-> [by |-> At(0, 0), frame |-> NoFrame]])
    BY DEF Moving
  <2> QED
    BY <2>1
<1>2. ASSUME NEW m \in 1 .. n, m - 1 \in T PROVE m \in T
  <2>1. PICK h : Moving(tree, m - 1, h)
    BY <1>2
  <2> DEFINE more == [i \in 0 .. m |-> IF i = m THEN MovedBy(tree, h, m) ELSE h[i]]
  <2>2. DOMAIN more = 0 .. m /\ more[m] = MovedBy(tree, h, m)
        /\ \A i \in 0 .. m - 1 : more[i] = h[i]
    OBVIOUS
  <2> HIDE DEF more
  <2>3. \A i \in 1 .. m : MovedBy(tree, more, i) = MovedBy(tree, h, i)
    <3>1. \A i \in 1 .. m : tree[i].parent \in 0 .. m - 1
      BY <1>2
    <3>2. \A i \in 1 .. m : more[tree[i].parent] = h[tree[i].parent]
      BY <2>2, <3>1
    <3> QED
      BY <3>2 DEF MovedBy
  <2>4. \A i \in 1 .. m : more[i] = MovedBy(tree, more, i)
    <3>1. ASSUME NEW i \in 1 .. m, i # m PROVE more[i] = MovedBy(tree, more, i)
      <4>1. i \in 1 .. (m - 1) /\ i \in 0 .. m - 1
        BY <3>1
      <4>2. h[i] = MovedBy(tree, h, i)
        BY <2>1, <4>1 DEF Moving
      <4> QED
        BY <2>2, <2>3, <4>1, <4>2
    <3> QED
      BY <2>2, <2>3, <3>1
  <2>5. Moving(tree, m, more)
    BY <2>1, <2>2, <2>4 DEF Moving
  <2> QED
    BY <2>5
<1> HIDE DEF T
<1>3. 0 .. n \subseteq T
  BY <1>1, <1>2, CountingUp
<1> QED
  BY <1>3 DEF T

\* What a hosting window is moved by is a whole number, and so is what it shows.
LEMMA TranslatedFrames ==
  ASSUME NEW n \in Nat, NEW tree, Nodes(tree) = 1 .. n, Len(tree) = n,
         \A i \in 1 .. n : Framed(tree[i]) /\ tree[i].parent \in 0 .. i - 1
  PROVE  \A i \in 1 .. n : Framed(TranslateRemoteSubtrees(tree)[i])
<1> DEFINE Is(m) == m = [i \in 0 .. n |-> IF i = 0 THEN [by |-> At(0, 0), frame |-> NoFrame]
                                          ELSE MovedBy(tree, m, i)]
           moved == CHOOSE m : Is(m)
<1>1. TranslateRemoteSubtrees(tree) =
        [i \in Nodes(tree) |-> IF tree[i].frame = NoFrame THEN tree[i]
                               ELSE [tree[i] EXCEPT !.frame = moved[i].frame]]
  BY DEF TranslateRemoteSubtrees, MovedBy
<1>2. \E m : Is(m)
  <2>1. PICK h : Moving(tree, n, h)
    BY MovingExists
  <2> DEFINE part == [i \in 0 .. n |-> h[i]]
  <2>2. \A i \in 1 .. n : MovedBy(tree, part, i) = MovedBy(tree, h, i)
    <3>1. \A i \in 1 .. n : tree[i].parent \in 0 .. n
      OBVIOUS
    <3>2. \A i \in 1 .. n : part[tree[i].parent] = h[tree[i].parent]
      BY <3>1
    <3> HIDE DEF part
    <3> QED
      BY <3>2 DEF MovedBy
  <2> HIDE DEF part
  <2>3. \A i \in 0 .. n : h[i] = IF i = 0 THEN [by |-> At(0, 0), frame |-> NoFrame]
                                 ELSE MovedBy(tree, part, i)
    <3>1. ASSUME NEW i \in 0 .. n, i # 0 PROVE h[i] = MovedBy(tree, part, i)
      <4>1. i \in 1 .. n
        BY <3>1
      <4> QED
        BY <2>1, <2>2, <4>1 DEF Moving
    <3> QED
      BY <2>1, <3>1 DEF Moving
  <2>4. Is(part)
    BY <2>3 DEF part
  <2> QED
    BY <2>4
<1>3. Is(moved)
  <2> HIDE DEF Is
  <2> QED
    BY <1>2
<1> HIDE DEF moved
<1>4. \A i \in 0 .. n : MovedOK(moved[i])
  <2> DEFINE T == {m \in 0 .. n : \A i \in 0 .. m : MovedOK(moved[i])}
  <2>1. MovedOK([by |-> At(0, 0), frame |-> NoFrame])
    BY DEF MovedOK, Points, At
  <2>2. moved[0] = [by |-> At(0, 0), frame |-> NoFrame]
        /\ \A i \in 1 .. n : moved[i] = MovedBy(tree, moved, i)
    BY <1>3
  <2> HIDE DEF Is
  <2>3. 0 \in T
    BY <2>1, <2>2
  <2>4. ASSUME NEW m \in 1 .. n, m - 1 \in T PROVE m \in T
    <3>1. \A i \in 0 .. m - 1 : MovedOK(moved[i])
      BY <2>4
    <3>2. tree[m].parent \in 0 .. m - 1 /\ Framed(tree[m])
      OBVIOUS
    <3>3. MovedOK(moved[m])
      BY <2>2, <3>1, <3>2, MovedByIs
    <3>4. \A i \in 0 .. m : i = m \/ i \in 0 .. m - 1
      OBVIOUS
    <3> QED
      BY <3>1, <3>3, <3>4
  <2> HIDE DEF T
  <2>5. 0 .. n \subseteq T
    BY <2>3, <2>4, CountingUp
  <2>6. n \in T
    BY <2>5
  <2> QED
    BY <2>6 DEF T
<1> HIDE DEF Is
<1> QED
  BY <1>1, <1>4 DEF Framed, MovedOK

FramedTree(tree) ==
  \E n \in Nat : Nodes(tree) = 1 .. n /\ \A i \in Nodes(tree) : Framed(tree[i])

LEMMA SelectionIsFramed ==
  ASSUME NEW tree, FramedTree(tree), NEW S \in SUBSET Nodes(tree), NEW chosen,
         DOMAIN chosen = DOMAIN InOrder(S),
         \A k \in DOMAIN InOrder(S) : Framed(tree[InOrder(S)[k]]) => Framed(chosen[k])
  PROVE  FramedTree(chosen)
<1>1. PICK n \in Nat : Nodes(tree) = 1 .. n /\ \A i \in Nodes(tree) : Framed(tree[i])
  BY DEF FramedTree
<1>2. /\ Cardinality(S) \in Nat
      /\ \A k \in 1 .. Cardinality(S) : InOrder(S)[k] \in S
  BY <1>1, InOrderCounts
<1>3. DOMAIN InOrder(S) = 1 .. Cardinality(S)
  BY DEF InOrder
<1> QED
  BY <1>1, <1>2, <1>3 DEF FramedTree, Nodes

LEMMA TreesAreFramed ==
  ASSUME NEW v \in Views
  PROVE  FramedTree(DefaultTrees[v]) /\ FramedTree(ReadTrees[v])
<1> DEFINE tree == BridgeTrees[v]
           open == {i \in Nodes(tree) : ~tree[i].bridge}
           moved == TranslateRemoteSubtrees(tree)
           kept == Kept(moved)
           pruned == PruneTree(moved)
<1>1. PICK n \in Nat : Nodes(tree) = 1 .. n /\ Len(tree) = n
  BY BridgeElements
<1>2. \A i \in 1 .. n : Framed(tree[i]) /\ tree[i].parent \in 0 .. i - 1
  BY <1>1, BridgeElements DEF Framed, Elements
<1>3. FramedTree(tree)
  BY <1>1, <1>2 DEF FramedTree
<1>4. /\ DefaultTrees[v] = [k \in DOMAIN InOrder(open) |-> ByDefault(tree[InOrder(open)[k]])]
      /\ open \in SUBSET Nodes(tree)
  BY DEF DefaultTrees
<1>5. Nodes(moved) = Nodes(tree)
  BY DEF TranslateRemoteSubtrees, Nodes
<1>6. /\ DOMAIN pruned = DOMAIN InOrder(kept)
      /\ \A k \in DOMAIN InOrder(kept) :
           \E up : pruned[k] = [Canonicalise(moved[InOrder(kept)[k]]) EXCEPT !.parent = up]
      /\ kept \in SUBSET Nodes(moved) /\ ReadTrees[v] = pruned
  BY DEF PruneTree, Kept, ReadTrees
<1>7. /\ \A node : Framed(node) => Framed(ByDefault(node))
      /\ \A node, up : Framed(node) => Framed([Canonicalise(node) EXCEPT !.parent = up])
  BY DEF Framed, ByDefault, Canonicalise
<1> HIDE DEF tree, open, kept, pruned
<1>8. FramedTree(moved)
  <2>1. \A i \in 1 .. n : Framed(moved[i])
    BY <1>1, <1>2, TranslatedFrames
  <2> QED
    BY <1>1, <1>5, <2>1 DEF FramedTree
<1> HIDE DEF moved
<1>9. FramedTree(DefaultTrees[v])
  <2>1. \A k \in DOMAIN InOrder(open) :
          Framed(tree[InOrder(open)[k]]) => Framed(DefaultTrees[v][k])
    BY <1>4, <1>7
  <2> QED
    BY <1>3, <1>4, <2>1, SelectionIsFramed
<1>10. FramedTree(ReadTrees[v])
  <2>1. \A k \in DOMAIN InOrder(kept) :
          Framed(moved[InOrder(kept)[k]]) => Framed(ReadTrees[v][k])
    BY <1>6, <1>7
  <2> QED
    BY <1>6, <1>8, <2>1, SelectionIsFramed
<1> QED
  BY <1>9, <1>10

LEMMA CandidatesAreFramed ==
  ASSUME NEW v \in Views, NEW label, NEW element \in Candidates(v, label)
  PROVE  Framed(element)
<1>1. FramedTree(DefaultTrees[v]) /\ FramedTree(ReadTrees[v])
  BY TreesAreFramed
<1>2. ASSUME NEW key, FindByMarker(DefaultTrees[v], label, key) # None
      PROVE  Framed(FindByMarker(DefaultTrees[v], label, key))
  <2> DEFINE tree == DefaultTrees[v]
             hits == {i \in Nodes(tree) : Includes(tree[i][key], label) /\ tree[i][key] # <<>>}
             first == Marked(tree, label, key)
  <2>1. first = IF hits = {} THEN None ELSE tree[LeastOf(hits)]
    BY DEF Marked
  <2>2. PICK n \in Nat : Nodes(tree) = 1 .. n /\ \A i \in Nodes(tree) : Framed(tree[i])
    BY <1>1 DEF FramedTree
  <2>3. hits \in SUBSET Nat /\ hits \subseteq Nodes(tree)
    BY <2>2
  <2>4. FindByMarker(tree, label, key) = None
        \/ (FindByMarker(tree, label, key) = Reconciled(first) /\ first # None)
    BY DEF FindByMarker, first
  <2> HIDE DEF first, tree, hits
  <2>5. first # None => Framed(first)
    BY <2>1, <2>2, <2>3, LeastOfIsOne
  <2>6. \A node : Framed(node) => Framed(Reconciled(node))
    BY DEF Framed, Reconciled, Canonicalise
  <2> QED
    BY <1>2, <2>4, <2>5, <2>6 DEF tree
<1>3. ASSUME MatchInTree(ReadTrees[v], label) # 0
      PROVE  Framed(ReadTrees[v][MatchInTree(ReadTrees[v], label)])
  <2>1. PICK n \in Nat : Nodes(ReadTrees[v]) = 1 .. n
                         /\ \A i \in Nodes(ReadTrees[v]) : Framed(ReadTrees[v][i])
    BY <1>1 DEF FramedTree
  <2> QED
    BY <1>3, <2>1, MatchIsInTree
<1>4. \/ element = FindByMarker(DefaultTrees[v], label, "label")
      \/ element = FindByMarker(DefaultTrees[v], label, "id")
      \/ /\ MatchInTree(ReadTrees[v], label) # 0
         /\ element = ReadTrees[v][MatchInTree(ReadTrees[v], label)]
  BY DEF Candidates
<1>5. element # None
  BY DEF Candidates
<1> QED
  BY <1>2, <1>3, <1>4, <1>5

\* What is drawn on top does not depend on the toggles.
LEMMA SameOnTop ==
  ASSUME IInv, DeviceOK, NothingMoves(Here), NEW v \in Here, NEW p
  PROVE  /\ TopmostAt(v, p) = TopmostAt(device, p) /\ ReadPointAt(v, p) = ReadPointAt(device, p)
         /\ Nodes(BridgeTrees[v]) = Nodes(BridgeTree(device))
<1>1. /\ View(device) \in Here /\ BridgeTree(device) = BridgeTrees[View(device)]
      /\ BridgeTree(v) = BridgeTrees[v] /\ LogicalScreen(v) = LogicalScreen(device)
      /\ v.orientation = device.orientation
  BY ScreenIsAlike, AlikeIs
<1>2. /\ Nodes(BridgeTree(v)) = Nodes(BridgeTree(device))
      /\ \A i \in Nodes(BridgeTree(v)) : BridgeTree(v)[i].place = BridgeTree(device)[i].place
  BY <1>1 DEF NothingMoves
<1>3. \A q : TopmostAt(v, q) = TopmostAt(device, q)
  <2> TAKE q
  <2> DEFINE under(d) == {i \in Nodes(BridgeTree(d)) : FrameContains(BridgeTree(d)[i].place, q)}
  <2>1. under(v) = under(device)
    BY <1>2
  <2>2. \A d : TopmostAt(d, q) = IF under(d) = {} THEN 0
                               ELSE CHOOSE i \in under(d) : \A j \in under(d) : j <= i
    BY DEF TopmostAt
  <2> HIDE DEF under
  <2> QED
    BY <2>1, <2>2
<1> QED
  BY <1>1, <1>2, <1>3 DEF ReadPointAt

\* The target of a tap by name, and what is told of it.
LEMMA TargetIs ==
  ASSUME NamesTell, IInv, DeviceOK, NEW c \in Active, Asked(c).op = "named",
         Asked(c) \in Requests(c, device.screen), SeesTarget(call[c], Here),
         "verb" \in DOMAIN call[c]
  PROVE  /\ "target" \in DOMAIN call[c] /\ Framed(call[c].target)
         /\ NothingMoves(Here)
         /\ HasCentre(call[c].target) =>
              \A v, w \in Here : TestTells(call[c].target, v, w)
         /\ IsToggle(call[c].target) =>
              PressTells(call[c].target, Asked(c).label, Here)
<1>1. c \in Calls /\ Asked(c) = call[c].request
  BY ActiveCall
<1>2. NothingMoves(Here) /\ NameTells(Asked(c).label, Here)
  BY <1>1, NameIsTold
<1>3. PICK v \in Here : call[c].target \in Candidates(v, Asked(c).label)
  BY <1>1 DEF SeesTarget
<1>4. Framed(call[c].target)
  BY <1>3, AlikeIs, CandidatesAreFramed
<1>5. call[c].target \in UNION {Candidates(u, Asked(c).label) : u \in Here}
  BY <1>3
<1> QED
  BY <1>2, <1>4, <1>5 DEF NameTells, SeesTarget

LEMMA AimSees ==
  ASSUME IInv, NEW c \in Active, Asked(c).op = "named", SeesTarget(call[c], Here), Aim(c)
  PROVE  NamedSees(c)
<1> DEFINE size == call[c].dims
           by   == Effective(size)
           points == <<RoundPoint(ToPortrait(CentreOfNode(call[c].target), size))>>
           memory == [points |-> points, by |-> by]
<1>1. Pc(c) = "aim" /\ Goes(c, "hitTest", memory)
  BY DEF Aim
<1>2. /\ call[c].pc \in Aiming /\ "verb" \in DOMAIN call[c] /\ "target" \in DOMAIN call[c]
      /\ HasCentre(call[c].target) /\ call[c].dims \in Sizes \cup {None}
  BY <1>1 DEF SeesTarget, Aiming, Pc
<1>3. by \in Orientations
  BY DEF Effective, GetEffectiveOrientation, IInv, TypeOK, Hints, Orientations
<1>4. /\ DOMAIN memory = {"points", "by"} /\ memory["points"] = points /\ memory["by"] = by
  OBVIOUS
<1>5. points = <<RoundPoint(IF size = None THEN CentreOfNode(call[c].target)
                            ELSE TransformPointToPortrait(CentreOfNode(call[c].target), by, size))>>
  BY DEF ToPortrait
<1> HIDE DEF size, by, points, memory
<1>6. /\ Pc(c)' = "hitTest" /\ call'[c].pc = "hitTest" /\ SameTarget(call[c], call'[c])
      /\ {"points", "by"} \subseteq DOMAIN call'[c]
      /\ call'[c].points = points /\ call'[c].by = by /\ call'[c].dims = size
  BY <1>1, <1>4, GoesWithTarget, ActiveCall DEF size
<1>7. call'[c].target = call[c].target
  BY <1>2, <1>6 DEF SameTarget
<1>8. StillSees(call'[c], Here)
  BY <1>2, <1>3, <1>5, <1>6, <1>7 DEF StillSees, Aiming, Delivering, MeantAt, size
<1>9. SeesTarget(call'[c], Here)
  BY <1>2, <1>6, <1>8, TargetStays
<1> QED
  BY <1>6, <1>9 DEF NamedSees

\* A point that is read is a whole one.
LEMMA CentreIsPoint ==
  ASSUME NEW node, Framed(node), HasCentre(node), NEW size \in Sizes \cup {None}, NEW o \in Orientations
  PROVE  RoundPoint(IF size = None THEN CentreOfNode(node)
                    ELSE TransformPointToPortrait(CentreOfNode(node), o, size)) \in Points
<1>1. node.frame \in Frames
  BY DEF Framed, HasCentre, HasFrame
<1>2. CentreOfNode(node) \in Points
  BY <1>1 DEF CentreOfNode, CentreOf, Frames, Points, At
<1> QED
  BY <1>2, PortraitIsPoint, RoundingIsClose

LEMMA HitTestSees ==
  ASSUME NamesTell, IInv, DeviceOK, NEW c \in Active, Asked(c).op = "named",
         Asked(c) \in Requests(c, device.screen), SeesTarget(call[c], Here), HitTest(c)
  PROVE  NamedSees(c)
<1> DEFINE r == call[c]
           p == r.points[1]
           i == ReadPointAt(device, p)
<1>1. /\ Pc(c) = "hitTest" /\ r.pc = "hitTest" /\ "verb" \in DOMAIN r /\ HasCentre(r.target)
      /\ r.dims \in Sizes \cup {None} /\ {"points", "by"} \subseteq DOMAIN r
      /\ r.by \in Orientations /\ r.points = <<MeantAt(CentreOfNode(r.target), r)>>
  BY DEF SeesTarget, HitTest, Pc
<1>2. /\ "target" \in DOMAIN r /\ Framed(r.target) /\ NothingMoves(Here)
      /\ \A v, w \in Here : TestTells(r.target, v, w)
  BY <1>1, TargetIs
<1>3. p = MeantAt(CentreOfNode(r.target), r) /\ p \in Points
  BY <1>1, <1>2, CentreIsPoint DEF MeantAt
<1>4. /\ View(device) \in Here /\ BridgeTree(device) = BridgeTrees[View(device)]
      /\ View(device) \in Views /\ View(device).orientation = device.orientation
      /\ ReadPointAt(View(device), p) = i
  BY ScreenIsAlike, AlikeIs
<1>5. i = 0 \/ i \in Nodes(BridgeTree(device))
  BY PressedIs
<1>6. AtPoint(p) = IF i = 0 THEN None ELSE Reconciled(ByDefault(BridgeTree(device)[i]))
  BY DEF AtPoint
<1>7. i # 0 => /\ AtPoint(p) # None
               /\ HitTestReaches(r.target, AtPoint(p)) <=> HitTestReaches(r.target, BridgeTree(device)[i])
  BY <1>4, <1>5, <1>6, ReconciledIs
<1>8. CASE AtPoint(p) # None /\ HitTestReaches(r.target, AtPoint(p))
  <2>1. Goes(c, "queue", << >>) /\ DOMAIN << >> = {}
    BY <1>8 DEF HitTest
  <2>2. i # 0 /\ HitTestReaches(r.target, BridgeTree(device)[i])
    BY <1>6, <1>7, <1>8
  <2>3. Reached(r, Here)
    BY <1>1, <1>3, <1>4, <2>2 DEF Reached
  <2>4. /\ Pc(c)' = "queue" /\ call'[c].pc = "queue" /\ SameTarget(r, call'[c])
        /\ "points" \in DOMAIN call'[c] /\ call'[c].points = r.points /\ call'[c].dims = r.dims
    BY <1>1, <2>1, GoesWithTarget, ActiveCall
  <2>5. call'[c].target = r.target
    BY <1>2, <2>4 DEF SameTarget
  <2>6. Reached(call'[c], Here)
    BY <2>3, <2>4, <2>5 DEF Reached
  <2>7. StillSees(call'[c], Here)
    BY <1>1, <2>4, <2>5, <2>6 DEF StillSees, Aiming, Delivering
  <2>8. SeesTarget(call'[c], Here)
    BY <1>1, <2>4, <2>7, TargetStays
  <2> QED
    BY <2>4, <2>8 DEF NamedSees
<1>9. CASE ~(AtPoint(p) # None /\ HitTestReaches(r.target, AtPoint(p)))
  <2>1. Answers(c, "tap-obstructed", << >>) /\ DOMAIN << >> = {}
    BY <1>9 DEF HitTest
  <2>2. i # 0 => ~HitTestReaches(r.target, BridgeTree(device)[i])
    BY <1>7, <1>9
  <2>3. /\ Pc(c)' = "done" /\ call'[c].outcome = "tap-obstructed"
        /\ call'[c].orientation = device.orientation
        /\ \A f \in {"hit", "target", "by", "dims"} :
             /\ f \in DOMAIN call'[c] <=> f \in DOMAIN r
             /\ f \in DOMAIN r => call'[c][f] = r[f]
    <3>1. {"hit", "target", "by", "dims"} \subseteq Lasting \ {"pc", "outcome", "screen", "orientation"}
      BY DEF Lasting
    <3> QED
      BY <2>1, <3>1, AnswersAre
  <2>4. call'[c].target = r.target /\ call'[c].by = r.by /\ call'[c].dims = r.dims
    BY <1>1, <1>2, <2>3, ActiveCall
  <2>5. "hit" \in DOMAIN call'[c] => HitsIn(call'[c])
    <3> SUFFICES ASSUME "hit" \in DOMAIN call'[c] PROVE HitsIn(call'[c])
      OBVIOUS
    <3>1. "hit" \in DOMAIN r /\ call'[c].hit = r.hit
      BY <2>3
    <3>2. HitsIn(r)
      BY <1>1, <3>1 DEF SeesTarget, LookingUp
    <3> QED
      BY <2>4, <3>1, <3>2 DEF HitsIn
  <2>6. ASSUME OrientedIn(call'[c]), NEW v \in Here
        PROVE  LET k == TopmostAt(v, CentreOf(r.target.place))
               IN  k = 0 \/ ~Inside(BridgeTrees[v][k], r.target)
    <3>1. r.dims = PortraitSize(device.orientation, PortraitScreen) /\ r.by = device.orientation
      BY <2>3, <2>4, <2>6 DEF OrientedIn
    <3>2. r.dims # None
      BY <3>1, ScreenSize, ScreenIsAlike DEF LogicalScreen
    <3>3. p = ReadAt(CentreOfNode(r.target), device.orientation)
      BY <1>3, <3>1, <3>2 DEF MeantAt, ReadAt
    <3>4. ReadPointAt(View(device), p) = TopmostAt(View(device), CentreOf(r.target.place))
      BY <1>2, <1>4, <3>3 DEF TestTells
    <3>5. TopmostAt(v, CentreOf(r.target.place)) = i
      BY <1>2, <1>4, <3>4, SameOnTop, ScreenIsAlike
    <3>6. i # 0 => ~Inside(BridgeTrees[v][i], r.target)
      BY <1>2, <1>4, <1>5, <2>2 DEF TestTells
    <3> QED
      BY <3>5, <3>6
  <2>7. TellsTarget(call'[c], Here)
    BY <2>3, <2>4, <2>5, <2>6 DEF TellsTarget
  <2> QED
    BY <2>3, <2>7 DEF NamedSees
<1> QED
  BY <1>8, <1>9

--------------------------------------------------------------------------------
(***************************************************************************)
(* A tap by name: what it finds.                                            *)
(***************************************************************************)
\* It goes on with what it has found, before it has hit anything.
LEMMA FindsTarget ==
  ASSUME IInv, NEW c \in Active, Asked(c).op = "named", SeesTarget(call[c], Here),
         "verb" \notin DOMAIN call[c],
         NEW element, NEW verb, NEW pc \in {"dims", "queue"},
         Goes(c, pc, [target |-> element, verb |-> verb]),
         \E v \in Here : element \in Candidates(v, Asked(c).label),
         verb = "activation" => IsToggle(element),
         pc = "dims" => HasCentre(element),
         pc = "queue" => verb = "activation" /\ ~HasCentre(element)
  PROVE  NamedSees(c)
<1> DEFINE memory == [target |-> element, verb |-> verb]
<1>1. Goes(c, pc, memory) /\ DOMAIN memory = {"target", "verb"}
      /\ memory["target"] = element /\ memory["verb"] = verb
  OBVIOUS
<1>2. call[c].dims \in Sizes \cup {None} /\ "hit" \notin DOMAIN call[c]
  BY DEF SeesTarget
<1> HIDE DEF memory
<1>3. /\ Pc(c)' = pc /\ "request" \in DOMAIN call[c] /\ Asked(c) = call[c].request
      /\ DOMAIN call'[c] = DOMAIN call[c] \cup {"pc"} \cup DOMAIN memory
      /\ \A f \in DOMAIN memory \ {"pc"} : call'[c][f] = memory[f]
      /\ \A f \in DOMAIN call[c] \ (DOMAIN memory \cup {"pc"}) : call'[c][f] = call[c][f]
  BY <1>1, ActiveCall, GoesTo
<1>4. /\ call'[c].pc = pc /\ call'[c].request = call[c].request
      /\ {"verb", "target"} \subseteq DOMAIN call'[c]
      /\ call'[c].verb = verb /\ call'[c].target = element
      /\ call'[c].dims \in Sizes \cup {None} /\ "hit" \notin DOMAIN call'[c]
  BY <1>1, <1>2, <1>3, ActiveCall DEF Pc
<1>5. SeesTarget(call'[c], Here)
  BY <1>3, <1>4 DEF SeesTarget, Aiming, Delivering
<1> QED
  BY <1>3, <1>5 DEF NamedSees

LEMMA FoundSees ==
  ASSUME IInv, NEW c \in Active, Asked(c).op = "named", SeesTarget(call[c], Here),
         NEW element, element = None \/ \E v \in Here : element \in Candidates(v, Asked(c).label),
         Found(c, element)
  PROVE  NamedSees(c)
<1>1. "hit" \in DOMAIN call[c] => "verb" \in DOMAIN call[c]
  BY DEF SeesTarget
<1>2. CASE "verb" \in DOMAIN call[c]
  <2> DEFINE memory == [answer |-> element]
  <2>1. Answers(c, "activated", memory) /\ DOMAIN memory = {"answer"} /\ Learnt(memory)
    BY <1>2, AllLearnt DEF Found
  <2> HIDE DEF memory
  <2> QED
    BY <2>1, EndsAndTells
<1>3. CASE "verb" \notin DOMAIN call[c] /\ element = None
  <2>1. Answers(c, "element-not-found", << >>) /\ DOMAIN << >> = {} /\ Learnt(<< >>)
    BY <1>3, AllLearnt DEF Found
  <2> QED
    BY <1>1, <1>3, <2>1, EndsAndTells
<1>4. CASE "verb" \notin DOMAIN call[c] /\ element # None
  <2> DEFINE verb == DecideTapVerb(element, Asked(c).plain)
             seen == [target |-> element, verb |-> verb]
  <2>1. verb \in {"element-disabled", "touch", "activation", "toggle-needs-plain-tap"}
        /\ (verb = "activation" => IsToggle(element))
    BY DEF DecideTapVerb
  <2>2. DOMAIN seen = {"target", "verb"}
    OBVIOUS
  <2>3. Learnt(seen)
    BY <2>2 DEF Learnt
  <2>4. Operate(c, element)
    BY <1>4 DEF Found
  <2>5. \/ Answers(c, verb, seen) \/ Answers(c, "element-unusable-frame", seen)
        \/ Goes(c, "dims", seen) /\ HasCentre(element)
        \/ Goes(c, "queue", seen) /\ verb = "activation" /\ ~HasCentre(element)
    BY <2>1, <2>4 DEF Operate
  <2>6. CASE Answers(c, verb, seen) \/ Answers(c, "element-unusable-frame", seen)
    <3> HIDE DEF seen, verb
    <3> QED
      BY <1>1, <1>4, <2>1, <2>2, <2>3, <2>6, EndsAndTells
  <2>7. CASE \/ Goes(c, "dims", seen) /\ HasCentre(element)
             \/ Goes(c, "queue", seen) /\ verb = "activation" /\ ~HasCentre(element)
    <3> HIDE DEF verb
    <3> QED
      BY <1>4, <2>1, <2>7, FindsTarget
  <2> QED
    BY <2>5, <2>6, <2>7
<1> QED
  BY <1>2, <1>3, <1>4

LEMMA LookupSees ==
  ASSUME IInv, DeviceOK, NEW c \in Active, Asked(c).op = "named", SeesTarget(call[c], Here),
         FindByLabel(c) \/ FindById(c) \/ FindInTree(c)
  PROVE  NamedSees(c)
<1>1. Pc(c) \in LookingUp
  BY DEF FindByLabel, FindById, FindInTree, LookingUp
<1>2. /\ View(device) \in Here /\ DefaultTree(device) = DefaultTrees[View(device)]
      /\ ReadScreenTree = ReadTrees[View(device)]
  BY ScreenIsAlike
<1>3. \/ \E pc \in LookingUp : Goes(c, pc, << >>)
      \/ \E element : /\ element = None \/ element \in Candidates(View(device), Asked(c).label)
                      /\ Found(c, element)
  <2>1. CASE FindByLabel(c)
    BY <1>2, <2>1 DEF FindByLabel, LookingUp, Candidates
  <2>2. CASE FindById(c)
    BY <1>2, <2>2 DEF FindById, LookingUp, Candidates
  <2>3. CASE FindInTree(c)
    BY <1>2, <2>3 DEF FindInTree, LookingUp, Candidates
  <2> QED
    BY <2>1, <2>2, <2>3
<1>4. ASSUME NEW pc \in LookingUp, Goes(c, pc, << >>) PROVE NamedSees(c)
  <2>1. DOMAIN << >> = {}
    OBVIOUS
  <2>2. /\ Pc(c)' = pc /\ call'[c].pc = pc /\ SameTarget(call[c], call'[c])
        /\ call'[c].dims = call[c].dims
    BY <1>4, <2>1, GoesWithTarget, ActiveCall
  <2>3. call'[c].pc \notin Aiming \cup Delivering \cup {"hitTest", "readBack", "run"}
    BY <1>4, <2>2 DEF LookingUp, Aiming, Delivering
  <2>4. "verb" \in DOMAIN call'[c] =>
          /\ "target" \in DOMAIN call'[c]
          /\ \E v \in Here : call'[c].target \in Candidates(v, call'[c].request.label)
          /\ call'[c].verb = "activation" => IsToggle(call'[c].target)
    BY <2>2 DEF SeesTarget, SameTarget
  <2>5. "hit" \in DOMAIN call'[c] =>
          /\ "verb" \in DOMAIN call'[c]
          /\ HitsIn(call'[c]) \/ (call'[c].pc \in LookingUp /\ MisnamedIn(call'[c], Here))
    BY <1>1, <1>4, <2>2 DEF SeesTarget, SameTarget, HitsIn, MisnamedIn, Pc
  <2>6. SeesTarget(call'[c], Here)
    BY <2>2, <2>3, <2>4, <2>5 DEF SeesTarget
  <2>7. Pc(c)' # "done"
    BY <1>4, <2>2 DEF LookingUp
  <2> QED
    BY <2>6, <2>7 DEF NamedSees
<1> QED
  BY <1>2, <1>3, <1>4, FoundSees

LEMMA ReadFailsSees ==
  ASSUME IInv, NEW c \in Active, SeesTarget(call[c], Here), ReadFails(c)
  PROVE  NamedSees(c)
<1>1. Answers(c, ThrownBy(c), << >>) /\ DOMAIN << >> = {} /\ Learnt(<< >>)
  BY AllLearnt DEF ReadFails
<1>2. "hit" \in DOMAIN call[c] => "verb" \in DOMAIN call[c]
  BY DEF SeesTarget
<1>3. Pc(c) \in LookingUp \cup {"readBack"} /\ "verb" \in DOMAIN call[c] => ThrownBy(c) = "unread"
  BY DEF ThrownBy, LookingUp
<1>4. ThrownBy(c) # "tap-obstructed"
  BY ThrownOutcome
<1> QED
  BY <1>1, <1>2, <1>3, <1>4, EndsAndTells

LEMMA ReadBackSees ==
  ASSUME IInv, NEW c \in Active, SeesTarget(call[c], Here), ReadBack(c)
  PROVE  NamedSees(c)
<1> DEFINE memory == [answer |-> FindByMarker(DefaultTree(device), call[c].target.id, "id")]
<1>1. Answers(c, "activated", memory) /\ DOMAIN memory = {"answer"} /\ Learnt(memory)
  BY AllLearnt DEF ReadBack
<1> HIDE DEF memory
<1> QED
  BY <1>1, EndsAndTells

--------------------------------------------------------------------------------
(***************************************************************************)
(* A tap by name: what it hits.                                             *)
(***************************************************************************)
LEMMA DeliveringIs ==
  ASSUME IInv, NEW c \in Active, SeesTarget(call[c], Here), Pc(c) \in Delivering
  PROVE  /\ call[c].pc \in Delivering /\ "verb" \in DOMAIN call[c] /\ "target" \in DOMAIN call[c]
         /\ call[c].dims \in Sizes \cup {None}
         /\ call[c].verb = "activation" => IsToggle(call[c].target)
         /\ call[c].verb = "activation" \/ HasCentre(call[c].target)
         /\ HasCentre(call[c].target) => Reached(call[c], Here)
         /\ "hit" \in DOMAIN call[c] => HitsIn(call[c])
  BY DEF SeesTarget, Delivering, LookingUp, Pc

\* It goes on with what it has reached, whatever it has hit.
LEMMA DeliverySees ==
  ASSUME IInv, NEW c \in Active, SeesTarget(call[c], Here), Pc(c) \in Delivering,
         NEW pc \in Delivering, NEW memory, Goes(c, pc, memory),
         DOMAIN memory \cap {"request", "pc", "dims", "verb", "target", "points"} = {},
         "hit" \in DOMAIN memory =>
           \A k \in DOMAIN memory["hit"] : Inside(memory["hit"][k], call[c].target),
         pc = "run" /\ call[c].verb # "activation" =>
           /\ "events" \in DOMAIN memory
           /\ memory["events"] \in
                Seq([kind : {"touch"}, at : {call[c].points[1]}, direction : {"down", "up"}]
                      \cup {Delay})
  PROVE  NamedSees(c)
<1> DEFINE r == call[c]
           q == call'[c]
<1>1. /\ r.pc \in Delivering /\ "verb" \in DOMAIN r /\ "target" \in DOMAIN r
      /\ r.dims \in Sizes \cup {None}
      /\ r.verb = "activation" => IsToggle(r.target)
      /\ r.verb = "activation" \/ HasCentre(r.target)
      /\ HasCentre(r.target) => Reached(r, Here)
      /\ "hit" \in DOMAIN r => HitsIn(r)
      /\ \E v \in Here : r.target \in Candidates(v, r.request.label)
  BY DeliveringIs DEF SeesTarget
<1>2. /\ Pc(c)' = pc /\ {"request", "dims"} \subseteq DOMAIN r
      /\ DOMAIN q = DOMAIN r \cup {"pc"} \cup DOMAIN memory
      /\ \A f \in DOMAIN memory \ {"pc"} : q[f] = memory[f]
      /\ \A f \in DOMAIN r \ (DOMAIN memory \cup {"pc"}) : q[f] = r[f]
  BY ActiveCall, GoesTo
<1>3. /\ q.pc = pc /\ q.request = r.request /\ q.dims = r.dims
      /\ "verb" \in DOMAIN q /\ q.verb = r.verb /\ "target" \in DOMAIN q /\ q.target = r.target
      /\ "points" \in DOMAIN r => "points" \in DOMAIN q /\ q.points = r.points
  BY <1>1, <1>2 DEF Pc
<1>4. Reached(r, Here) => Reached(q, Here)
  BY <1>3 DEF Reached
<1>5. "hit" \in DOMAIN q => HitsIn(q)
  <2>1. CASE "hit" \in DOMAIN memory
    <3>1. q.hit = memory["hit"]
      BY <1>2, <2>1
    <3> QED
      BY <1>3, <2>1, <3>1 DEF HitsIn
  <2>2. CASE "hit" \notin DOMAIN memory
    <3>1. "hit" \in DOMAIN q => "hit" \in DOMAIN r /\ q.hit = r.hit
      BY <1>2, <2>2
    <3> QED
      BY <1>1, <1>3, <3>1 DEF HitsIn
  <2> QED
    BY <2>1, <2>2
<1>6. pc = "run" /\ q.verb # "activation" =>
        /\ "events" \in DOMAIN q
        /\ q.events \in Seq([kind : {"touch"}, at : {q.points[1]}, direction : {"down", "up"}]
                              \cup {Delay})
  <2> SUFFICES ASSUME pc = "run", q.verb # "activation"
      PROVE  /\ "events" \in DOMAIN q
             /\ q.events \in Seq([kind : {"touch"}, at : {q.points[1]}, direction : {"down", "up"}]
                                   \cup {Delay})
    OBVIOUS
  <2>1. r.verb # "activation" /\ HasCentre(r.target)
    BY <1>1, <1>3
  <2>2. q.points = r.points
    BY <1>1, <1>3, <2>1 DEF Reached
  <2>3. q.events = memory["events"] /\ "events" \in DOMAIN q
    BY <1>2, <2>1
  <2> QED
    BY <2>1, <2>2, <2>3
<1> HIDE DEF r, q
<1>7. SeesTarget(q, Here)
  BY <1>1, <1>3, <1>4, <1>5, <1>6 DEF SeesTarget, Aiming, Delivering
<1>8. Pc(c)' # "done"
  BY <1>2 DEF Delivering
<1> QED
  BY <1>7, <1>8 DEF NamedSees, q

LEMMA QueueSees ==
  ASSUME IInv, NEW c \in Active, SeesTarget(call[c], Here), Queue(c)
  PROVE  NamedSees(c)
<1> DEFINE memory == [ticket |-> arrived + 1]
<1>1. Goes(c, "wait", memory) /\ DOMAIN memory = {"ticket"} /\ Pc(c) = "queue"
  BY DEF Queue
<1> HIDE DEF memory
<1>2. "wait" \in Delivering /\ "queue" \in Delivering
  BY DEF Delivering
<1> QED
  BY <1>1, <1>2, DeliverySees

LEMMA RunSees ==
  ASSUME IInv, NEW c \in Active, Asked(c).op = "named", SeesTarget(call[c], Here), Run(c)
  PROVE  NamedSees(c)
<1>1. Pc(c) = "wait" /\ "wait" \in Delivering /\ "run" \in Delivering
  BY DEF Run, Delivering
<1>2. "verb" \in DOMAIN call[c]
  BY <1>1, DeliveringIs
<1>3. CASE Activating(c)
  <2>1. Goes(c, "run", << >>) /\ DOMAIN << >> = {} /\ call[c].verb = "activation"
    BY <1>3 DEF Run, Activating
  <2> QED
    BY <1>1, <2>1, DeliverySees
<1>4. CASE ~Activating(c)
  <2> DEFINE memory == [events |-> Events(c)]
  <2>1. Goes(c, "run", memory) /\ DOMAIN memory = {"events"} /\ memory["events"] = Events(c)
    BY <1>4 DEF Run
  <2> HIDE DEF memory
  <2>2. Asked(c).count \in Nat \ {0}
    <3>1. Asked(c) \in Asks
      BY ActiveCall
    <3> QED
      BY <3>1 DEF Asks
  <2>3. Events(c) = TapEvents(call[c].points[1], Asked(c).count)
    BY DEF Events
  <2>4. memory["events"] \in
          Seq([kind : {"touch"}, at : {call[c].points[1]}, direction : {"down", "up"}] \cup {Delay})
    BY <2>1, <2>2, <2>3, TapEventsTouch
  <2> QED
    BY <1>1, <2>1, <2>4, DeliverySees
<1> QED
  BY <1>3, <1>4

LEMMA EndOfDeliverySees ==
  ASSUME IInv, NEW c \in Active, SeesTarget(call[c], Here), Acknowledge(c) \/ Cut(c)
  PROVE  NamedSees(c)
<1>1. PICK outcome \in {"ok", "error"} : Answers(c, outcome, << >>)
  BY DEF Acknowledge, Cut
<1>2. Pc(c) = "run" /\ DOMAIN << >> = {} /\ Learnt(<< >>)
  BY AllLearnt DEF Acknowledge, Cut
<1>3. Pc(c) \notin LookingUp \cup {"readBack"}
  BY <1>2 DEF LookingUp
<1> QED
  BY <1>1, <1>2, <1>3, EndsAndTells

LEMMA DeliverSees ==
  ASSUME NamesTell, IInv, DeviceOK, NEW c \in Active, Asked(c).op = "named",
         Asked(c) \in Requests(c, device.screen), SeesTarget(call[c], Here), Deliver(c)
  PROVE  NamedSees(c)
<1> DEFINE r == call[c]
           p == r.points[1]
           head == Head(r.events)
           S == [kind : {"touch"}, at : {p}, direction : {"down", "up"}] \cup {Delay}
           i == ReadPointAt(device, p)
           rest == [events |-> Tail(r.events)]
           memory == Updated(Lands(head), rest)
<1>1. Pc(c) = "run" /\ "run" \in Delivering /\ ~Activating(c) /\ r.events # <<>>
      /\ Goes(c, "run", memory)
  BY DEF Deliver, Delivering
<1>2. "verb" \in DOMAIN r /\ r.verb # "activation" /\ HasCentre(r.target) /\ Reached(r, Here)
  BY <1>1, DeliveringIs DEF Activating
<1>3. r.events \in Seq(S)
  BY <1>1, <1>2 DEF SeesTarget, Pc
<1>4. head \in S /\ Tail(r.events) \in Seq(S)
  <2> HIDE DEF S
  <2> QED
    BY <1>1, <1>3
<1>5. DOMAIN rest = {"events"} /\ rest["events"] = Tail(r.events)
  OBVIOUS
<1> HIDE DEF rest
<1>6. /\ DOMAIN memory = DOMAIN Lands(head) \cup {"events"} /\ memory["events"] = Tail(r.events)
      /\ \A f \in DOMAIN Lands(head) \ {"events"} : memory[f] = Lands(head)[f]
  <2> DEFINE lands == Lands(head)
  <2> HIDE DEF lands
  <2>1. /\ DOMAIN Updated(lands, rest) = DOMAIN lands \cup DOMAIN rest
        /\ \A f \in DOMAIN rest : Updated(lands, rest)[f] = rest[f]
        /\ \A f \in DOMAIN lands \ DOMAIN rest : Updated(lands, rest)[f] = lands[f]
    BY UpdatedIs
  <2>2. /\ DOMAIN Updated(lands, rest) = DOMAIN lands \cup {"events"}
        /\ Updated(lands, rest)["events"] = Tail(r.events)
        /\ \A f \in DOMAIN lands \ {"events"} : Updated(lands, rest)[f] = lands[f]
    BY <1>5, <2>1
  <2> QED
    BY <2>2 DEF lands
<1> HIDE DEF memory
<1>7. DOMAIN memory \subseteq {"landed", "hit", "events"}
  BY <1>6, LandsTells
<1>8. "hit" \in DOMAIN memory => \A k \in DOMAIN memory["hit"] : Inside(memory["hit"][k], r.target)
  <2> SUFFICES ASSUME "hit" \in DOMAIN memory
      PROVE  \A k \in DOMAIN memory["hit"] : Inside(memory["hit"][k], r.target)
    OBVIOUS
  <2>1. "hit" \in DOMAIN Lands(head) /\ memory["hit"] = Lands(head)["hit"]
    BY <1>6
  <2>2. head # Delay
    BY <2>1 DEF Lands, Delay
  <2>3. head.kind = "touch" /\ head.at = p
    BY <1>4, <2>2
  <2>4. Lands(head)["hit"] = IF i = 0 THEN <<>> ELSE <<BridgeTree(device)[i]>>
    BY <2>3 DEF Lands
  <2>5. \A v, w \in Here : TestTells(r.target, v, w) /\ NothingMoves(Here)
    BY <1>2, TargetIs
  <2>6. PICK v \in Here : LET j == ReadPointAt(v, p)
                          IN  j # 0 /\ HitTestReaches(r.target, BridgeTrees[v][j])
    BY <1>2 DEF Reached
  <2>7. /\ View(device) \in Here /\ BridgeTree(device) = BridgeTrees[View(device)]
    BY ScreenIsAlike
  <2>8. ReadPointAt(v, p) = i /\ Nodes(BridgeTrees[v]) = Nodes(BridgeTree(device))
    BY <2>5, <2>7, SameOnTop
  <2>9. i \in Nodes(BridgeTree(device)) /\ i # 0
    BY <2>6, <2>8, PressedIs
  <2>10. Inside(BridgeTree(device)[i], r.target)
    BY <2>5, <2>6, <2>7, <2>8, <2>9 DEF TestTells
  <2> QED
    BY <2>1, <2>4, <2>9, <2>10
<1> HIDE DEF S
<1> QED
  BY <1>1, <1>4, <1>6, <1>7, <1>8, DeliverySees DEF S

\* What is read at a point is seen there.
LEMMA ReadIsSeen ==
  ASSUME IInv, NEW v \in Here, NEW p \in Points, ReadPointAt(v, p) # 0
  PROVE  ReadPointAt(v, p) \in Nodes(BridgeTrees[v]) /\ IsSeen(v, ReadPointAt(v, p))
<1> DEFINE q == LogicalOf(p, v.orientation, LogicalScreen(v))
           under == {j \in Nodes(BridgeTree(v)) : FrameContains(BridgeTree(v)[j].place, q)}
           i == ReadPointAt(v, p)
<1>1. /\ v \in Views /\ View(v) = v /\ BridgeTree(v) = BridgeTrees[v]
      /\ v.orientation = device.orientation /\ LogicalScreen(v) = LogicalScreen(device)
      /\ device.orientation \in Orientations
  BY AlikeIs DEF IInv, TypeOK
<1>2. q \in Points
  <2>1. LogicalScreen(v) \in Sizes
    BY <1>1, ScreenSize
  <2> QED
    BY <1>1, <2>1 DEF LogicalOf, Points, Sizes, At, Orientations
<1>3. PICK n \in Nat : Nodes(BridgeTree(v)) = 1 .. n
  BY <1>1, BridgeElements
<1>4. under \in SUBSET (0 .. n) /\ under \subseteq Nodes(BridgeTree(v))
  BY <1>3
<1>5. i = IF under = {} THEN 0 ELSE CHOOSE j \in under : \A k \in under : k <= j
  BY DEF ReadPointAt, TopmostAt
<1>6. i = TopmostAt(v, q)
  BY DEF ReadPointAt
<1> HIDE DEF under, i, q
<1>7. i \in under
  BY <1>4, <1>5, GreatestExists DEF i
<1>8. i \in Nodes(BridgeTrees[v]) /\ FrameContains(BridgeTrees[v][i].place, q)
  BY <1>1, <1>4, <1>7 DEF under
<1>9. BridgeTrees[v][i].place \in Frames
  BY <1>1, <1>8, BridgeElements DEF Elements
<1>10. q \in PointsOf(BridgeTrees[v][i].place)
  <2> DEFINE f == BridgeTrees[v][i].place
  <2>1. f \in Frames /\ FrameContains(f, q)
    BY <1>8, <1>9
  <2> HIDE DEF f
  <2>2. q = At(q.x, q.y) /\ q.x \in f.x .. f.x + f.width /\ q.y \in f.y .. f.y + f.height
    BY <1>2, <2>1 DEF Points, Frames, FrameContains, At
  <2>3. q \in PointsOf(f)
    BY <2>2 DEF PointsOf
  <2> QED
    BY <2>3 DEF f
<1> QED
  BY <1>6, <1>8, <1>10 DEF IsSeen, i

LEMMA ActivateSees ==
  ASSUME NamesTell, IInv, DeviceOK, NEW c \in Active, Asked(c).op = "named",
         Asked(c) \in Requests(c, device.screen), SeesTarget(call[c], Here), Activate(c)
  PROVE  NamedSees(c)
<1> DEFINE r == call[c]
           q == call'[c]
           target == r.target
           found == Resolved(device, target, Asked(c).label)
           i == TopmostAt(device, CentreOf(found.place))
<1>1. Pc(c) = "run" /\ Pc(c) \in Delivering /\ r.verb = "activation"
  BY DEF Activate, Activating, Delivering
<1>2. /\ "verb" \in DOMAIN r /\ "target" \in DOMAIN r
      /\ r.dims \in Sizes \cup {None} /\ IsToggle(target)
      /\ HasCentre(target) => Reached(r, Here)
      /\ "hit" \in DOMAIN r => HitsIn(r)
      /\ \E v \in Here : target \in Candidates(v, r.request.label)
  BY <1>1, DeliveringIs DEF SeesTarget
<1>3. Asked(c) = r.request /\ {"request", "dims"} \subseteq DOMAIN r
  BY ActiveCall
<1>4. CASE found = None /\ HasCentre(target)
  <2> DEFINE memory == [verb |-> "touch"]
  <2>1. Goes(c, "queue", memory) /\ DOMAIN memory = {"verb"} /\ memory["verb"] = "touch"
    BY <1>4 DEF Activate
  <2> HIDE DEF memory
  <2>2. /\ Pc(c)' = "queue"
        /\ DOMAIN q = DOMAIN r \cup {"pc"} \cup DOMAIN memory
        /\ \A f \in DOMAIN memory \ {"pc"} : q[f] = memory[f]
        /\ \A f \in DOMAIN r \ (DOMAIN memory \cup {"pc"}) : q[f] = r[f]
    BY <2>1, ActiveCall, GoesTo
  <2>3. /\ q.pc = "queue" /\ q.request = r.request /\ q.dims = r.dims
        /\ "verb" \in DOMAIN q /\ q.verb = "touch" /\ "target" \in DOMAIN q /\ q.target = target
        /\ "points" \in DOMAIN r => "points" \in DOMAIN q /\ q.points = r.points
        /\ "hit" \in DOMAIN q <=> "hit" \in DOMAIN r
        /\ "hit" \in DOMAIN r => q.hit = r.hit
    BY <1>2, <1>3, <2>1, <2>2 DEF Pc
  <2>4. Reached(q, Here)
    BY <1>2, <1>4, <2>3 DEF Reached
  <2>5. "hit" \in DOMAIN q => HitsIn(q)
    BY <1>2, <2>3 DEF HitsIn
  <2> HIDE DEF q, r
  <2>6. SeesTarget(q, Here)
    BY <1>2, <1>4, <2>3, <2>4, <2>5 DEF SeesTarget, Aiming, Delivering
  <2> QED
    BY <2>2, <2>6 DEF NamedSees, q
<1>5. CASE found = None /\ ~HasCentre(target)
  <2>1. Answers(c, "element-unusable-frame", << >>) /\ DOMAIN << >> = {} /\ Learnt(<< >>)
    BY <1>5, AllLearnt DEF Activate
  <2>2. Pc(c) \notin LookingUp \cup {"readBack"}
    BY <1>1 DEF LookingUp
  <2> QED
    BY <2>1, <2>2, EndsAndTells
<1>6. CASE found # None
  <2> DEFINE memory == [hit |-> <<BridgeTree(device)[i]>>]
             pc == IF target.id # <<>> THEN "readBack" ELSE "byLabel"
  <2>1. Goes(c, pc, memory) /\ DOMAIN memory = {"hit"} /\ memory["hit"] = <<BridgeTree(device)[i]>>
        /\ pc \in {"readBack", "byLabel"}
    BY <1>6 DEF Activate
  <2> HIDE DEF memory, pc
  <2>2. /\ Pc(c)' = pc
        /\ DOMAIN q = DOMAIN r \cup {"pc"} \cup DOMAIN memory
        /\ \A f \in DOMAIN memory \ {"pc"} : q[f] = memory[f]
        /\ \A f \in DOMAIN r \ (DOMAIN memory \cup {"pc"}) : q[f] = r[f]
    BY <2>1, ActiveCall, GoesTo
  <2>3. /\ q.pc = pc /\ q.request = r.request /\ q.dims = r.dims
        /\ "verb" \in DOMAIN q /\ q.verb = r.verb /\ "target" \in DOMAIN q /\ q.target = target
        /\ "hit" \in DOMAIN q /\ q.hit = <<BridgeTree(device)[i]>>
    BY <1>2, <1>3, <2>1, <2>2 DEF Pc
  <2>4. PressTells(target, Asked(c).label, Here)
    BY <1>2, TargetIs
  <2>5. /\ View(device) \in Here /\ BridgeTree(device) = BridgeTrees[View(device)]
        /\ Resolved(View(device), target, Asked(c).label) = found
        /\ TopmostAt(View(device), CentreOf(found.place)) = i
    BY ScreenIsAlike
  <2>6. HitsIn(q) \/ MisnamedIn(q, Here)
    <3>1. CASE found.key # target.key
      <4>1. \A v \in Here : Resolved(v, target, Asked(c).label).key = found.key
        BY <1>6, <2>4, <2>5 DEF PressTells
      <4> QED
        BY <1>3, <2>3, <3>1, <4>1 DEF MisnamedIn
    <3>2. CASE found.key = target.key
      <4>1. CASE HasCentre(target) /\ \A v \in Here : \A j \in Nodes(BridgeTrees[v]) :
                   HitTestReaches(target, BridgeTrees[v][j]) => ~IsSeen(v, j)
        <5>1. PICK v \in Here : LET j == ReadPointAt(v, r.points[1])
                                IN  j # 0 /\ HitTestReaches(target, BridgeTrees[v][j])
          BY <1>2, <4>1 DEF Reached
        <5>2. r.points[1] \in Points
          BY <1>2, <4>1 DEF Reached
        <5> QED
          BY <4>1, <5>1, <5>2, ReadIsSeen
      <4>2. CASE Inside(BridgeTree(device)[i], target)
        BY <2>3, <4>2 DEF HitsIn
      <4> QED
        BY <1>6, <2>4, <2>5, <3>2, <4>1, <4>2 DEF PressTells
    <3> QED
      BY <3>1, <3>2
  <2> HIDE DEF q, r
  <2>7. SeesTarget(q, Here)
    BY <1>2, <2>1, <2>3, <2>6 DEF SeesTarget, Aiming, Delivering, LookingUp
  <2> QED
    BY <2>1, <2>2, <2>7 DEF NamedSees, q
<1> QED
  BY <1>4, <1>5, <1>6

--------------------------------------------------------------------------------
(***************************************************************************)
(* A read of a point.                                                       *)
(***************************************************************************)
LEMMA AskedPoints ==
  ASSUME NEW r \in Asks, r.op = "point"
  PROVE  r.at \in Points
  BY DEF Asks

\* The call ends without an answer that is told of.
LEMMA PointEnds ==
  ASSUME IInv, NEW c \in Active, NEW outcome, NEW memory, Answers(c, outcome, memory),
         Learnt(memory), outcome # "ok"
  PROVE  PointSees(c)
<1>1. DOMAIN memory \cap {"request", "pc", "calm", "outcome", "screen", "orientation"} = {}
  BY DEF Learnt
<1>2. Pc(c)' = "done" /\ call'[c].outcome = outcome
  BY <1>1, AnswersAre
<1> QED
  BY <1>2 DEF PointSees, TellsPoint

LEMMA PointApproachSees ==
  ASSUME IInv, NEW c \in Active,
         \/ DimsFromCache(c) \/ AskRootFrame(c) \/ RootFrameServed(c) \/ RootFrameArrives(c)
         \/ RootFrameFails(c)
  PROVE  PointSees(c)
<1>1. \/ \E pc \in Aiming : \/ Goes(c, pc, << >>) \/ \E x : Goes(c, pc, [sure |-> x])
                           \/ \E x : Goes(c, pc, [dims |-> x])
      \/ Answers(c, "error", << >>)
  BY DEF DimsFromCache, AskRootFrame, RootFrameServed, RootFrameArrives, RootFrameFails, Aiming
<1>2. ASSUME NEW pc \in Aiming, NEW memory, Goes(c, pc, memory)
      PROVE  PointSees(c)
  <2>1. Pc(c)' = pc
    BY <1>2, ActiveCall, GoesTo
  <2> QED
    BY <2>1 DEF PointSees, SeesPoint, Pc, Aiming
<1>3. CASE Answers(c, "error", << >>)
  BY <1>3, AllLearnt, PointEnds
<1> QED
  BY <1>1, <1>2, <1>3

LEMMA PointAimSees ==
  ASSUME IInv, NEW c \in Active, Asked(c).op = "point", Aim(c)
  PROVE  PointSees(c)
<1> DEFINE size == call[c].dims
           by   == Effective(size)
           points == <<RoundPoint(ToPortrait(Asked(c).at, size))>>
           memory == [points |-> points, by |-> by]
<1>1. Goes(c, "read", memory)
  BY DEF Aim
<1>2. DOMAIN memory = {"points", "by"} /\ memory["points"] = points /\ memory["by"] = by
  OBVIOUS
<1>3. points = <<RoundPoint(IF size = None THEN Asked(c).at
                            ELSE TransformPointToPortrait(Asked(c).at, by, size))>>
  BY DEF ToPortrait
<1>4. {"request", "dims"} \subseteq DOMAIN call[c] /\ Asked(c) = call[c].request
  BY ActiveCall
<1> HIDE DEF size, by, points, memory
<1>5. /\ Pc(c)' = "read"
      /\ DOMAIN call'[c] = DOMAIN call[c] \cup {"pc"} \cup DOMAIN memory
      /\ \A f \in DOMAIN memory \ {"pc"} : call'[c][f] = memory[f]
      /\ \A f \in DOMAIN call[c] \ (DOMAIN memory \cup {"pc"}) : call'[c][f] = call[c][f]
  BY <1>1, ActiveCall, GoesTo
<1>6. /\ call'[c].pc = "read" /\ {"points", "by"} \subseteq DOMAIN call'[c]
      /\ call'[c].points = points /\ call'[c].by = by /\ call'[c].dims = size
      /\ call'[c].request = Asked(c)
  BY <1>2, <1>4, <1>5 DEF Pc, size
<1> QED
  BY <1>3, <1>5, <1>6 DEF PointSees, SeesPoint, MeantAt

\* What the answer is told of when the call had the device's orientation.
LEMMA OrientedPoint ==
  ASSUME NEW c \in Active, IInv, NEW q, q.dims = call[c].dims, q.by = call[c].by,
         q.orientation = device.orientation, OrientedIn(q), NEW p
  PROVE  MeantAt(p, call[c]) = ReadAt(p, device.orientation)
<1>1. LogicalScreen(device) # None /\ LogicalScreen(device) = PortraitSize(device.orientation, PortraitScreen)
  BY ScreenSize DEF IInv, TypeOK, LogicalScreen
<1>2. /\ call[c].dims = PortraitSize(device.orientation, PortraitScreen)
      /\ call[c].by = device.orientation
  BY DEF OrientedIn
<1> QED
  BY <1>1, <1>2 DEF MeantAt, ReadAt

\* The call answers with what it has read.
LEMMA PointAnswers ==
  ASSUME IInv, NEW c \in Active, NEW found, Answers(c, "ok", [answer |-> found]),
         Asked(c).op = "point", {"points", "by"} \subseteq DOMAIN call[c],
         PointsTell /\ faults' = 0 /\ found # None
           /\ MeantAt(Asked(c).at, call[c]) = ReadAt(Asked(c).at, device.orientation) =>
             DistanceOutsideFrame(found.frame, Asked(c).at) <= HitSlop
  PROVE  PointSees(c)
<1> DEFINE memory == [answer |-> found]
<1>1. DOMAIN memory = {"answer"} /\ memory["answer"] = found /\ Answers(c, "ok", memory)
  OBVIOUS
<1> HIDE DEF memory
<1>2. {"answer", "dims", "by"} \subseteq Lasting \ {"pc", "outcome", "screen", "orientation"}
  BY DEF Lasting
<1>3. "dims" \in DOMAIN call[c] /\ Asked(c) = call[c].request
  BY ActiveCall
<1>4. /\ Pc(c)' = "done" /\ call'[c].orientation = device.orientation
      /\ call'[c].request = Asked(c)
      /\ call'[c].answer = found /\ call'[c].dims = call[c].dims /\ call'[c].by = call[c].by
  BY <1>1, <1>2, <1>3, AnswersAre
<1>5. OrientedIn(call'[c]) => MeantAt(Asked(c).at, call[c]) = ReadAt(Asked(c).at, device.orientation)
  BY <1>4, OrientedPoint
<1> QED
  BY <1>4, <1>5 DEF PointSees, TellsPoint

LEMMA ReadPointSees ==
  ASSUME IInv, DeviceOK, NEW c \in Active, Asked(c).op = "point",
         Asked(c) \in Requests(c, device.screen), SeesPoint(call[c], Here), ReadPoint(c)
  PROVE  PointSees(c)
<1> DEFINE r == call[c]
           p == r.points[1]
           i == ReadPointAt(device, p)
           found == AtPoint(p)
           node == Reconciled(ByDefault(BridgeTree(device)[i]))
<1>1. /\ Pc(c) = "read" /\ {"points", "by"} \subseteq DOMAIN r
      /\ p = MeantAt(r.request.at, r) /\ r.points = <<p>>
  BY DEF ReadPoint, SeesPoint, Pc
<1>2. Asked(c) = r.request /\ {"request", "dims"} \subseteq DOMAIN r /\ c \in Calls
  BY ActiveCall
<1>3. found = IF i = 0 THEN None ELSE node
  BY DEF AtPoint
<1>4. /\ View(device) \in Here /\ BridgeTree(device) = BridgeTrees[View(device)]
      /\ View(device) \in Views /\ ReadPointAt(View(device), p) = i
      /\ device.orientation \in Orientations /\ device.screen \in Screens
  BY ScreenIsAlike, AlikeIs
<1>5. CASE found # None /\ HasFrame(found) /\ IsRemotelyHosted(found.frame, Asked(c).at)
  <2> DEFINE memory == [target |-> found]
  <2>1. Goes(c, "locate", memory) /\ DOMAIN memory = {"target"} /\ memory["target"] = found
    BY <1>5 DEF ReadPoint
  <2> HIDE DEF memory
  <2>2. /\ Pc(c)' = "locate"
        /\ DOMAIN call'[c] = DOMAIN r \cup {"pc"} \cup DOMAIN memory
        /\ \A f \in DOMAIN memory \ {"pc"} : call'[c][f] = memory[f]
        /\ \A f \in DOMAIN r \ (DOMAIN memory \cup {"pc"}) : call'[c][f] = r[f]
    BY <2>1, ActiveCall, GoesTo
  <2>3. /\ call'[c].pc = "locate" /\ call'[c].request = r.request /\ call'[c].dims = r.dims
        /\ {"points", "by", "target"} \subseteq DOMAIN call'[c]
        /\ call'[c].points = r.points /\ call'[c].by = r.by /\ call'[c].target = found
    BY <1>1, <1>2, <2>1, <2>2 DEF Pc
  <2>4. i # 0 /\ found = Reconciled(ByDefault(BridgeTrees[View(device)][i]))
    BY <1>3, <1>4, <1>5
  <2>5. r.points = <<MeantAt(r.request.at, r)>>
    BY <1>1
  <2>6. MeantAt(r.request.at, call'[c]) = MeantAt(r.request.at, r)
    BY <2>3 DEF MeantAt
  <2> HIDE DEF r, i, found
  <2>7. SeesPoint(call'[c], Here)
    BY <1>2, <1>4, <1>5, <2>3, <2>4, <2>5, <2>6 DEF SeesPoint, i, r
  <2> QED
    BY <2>2, <2>7 DEF PointSees
<1>6. CASE ~(found # None /\ HasFrame(found) /\ IsRemotelyHosted(found.frame, Asked(c).at))
  <2>1. Answers(c, "ok", [answer |-> found])
    BY <1>6 DEF ReadPoint
  <2>2. ASSUME PointsTell, found # None,
               MeantAt(Asked(c).at, r) = ReadAt(Asked(c).at, device.orientation)
        PROVE  DistanceOutsideFrame(found.frame, Asked(c).at) <= HitSlop
    <3>1. i # 0 /\ i = ReadPointAt(View(device), ReadAt(Asked(c).at, device.orientation))
          /\ found = Reconciled(ByDefault(BridgeTrees[View(device)][i]))
      BY <1>1, <1>2, <1>3, <1>4, <2>2
    <3>2. /\ HasFrame(found)
          /\ DistanceOutsideFrame(found.frame, Asked(c).at) <= HitSlop \/ ~HasNoSize(found.frame)
      BY <1>2, <1>4, <2>2, <3>1 DEF PointsTell, Here
    <3>3. found.frame \in Frames /\ Asked(c).at \in Points
      <4>1. Framed(found)
        <5>1. i \in Nodes(BridgeTrees[View(device)])
          BY <1>4, <3>1, PressedIs
        <5>2. /\ "frame" \in DOMAIN found
              /\ found.frame = BridgeTrees[View(device)][i].frame
              /\ BridgeTrees[View(device)][i].frame \in Frames \cup {NoFrame}
          BY <1>4, <3>1, <5>1, ReconciledIs, BridgeElements DEF Elements
        <5> QED
          BY <5>2 DEF Framed
      <4> QED
        BY <3>2, <4>1, ActiveCall, AskedPoints DEF Framed, HasFrame
    <3> HIDE DEF found
    <3>4. DistanceOutsideFrame(found.frame, Asked(c).at) \in Int
      BY <3>3 DEF DistanceOutsideFrame, Larger, Frames, Points
    <3> QED
      BY <1>6, <2>2, <3>2, <3>4, HitSlopAssumption DEF IsRemotelyHosted
  <2> HIDE DEF found, r
  <2> QED
    BY <1>1, <2>1, <2>2, PointAnswers DEF r
<1> QED
  BY <1>5, <1>6

LEMMA LocatePointSees ==
  ASSUME IInv, DeviceOK, faults \in Nat, NEW c \in Active, Asked(c).op = "point",
         Asked(c) \in Requests(c, device.screen), SeesPoint(call[c], Here), LocatePoint(c)
  PROVE  PointSees(c)
<1> DEFINE r == call[c]
           corrected == LocateInTree(ReadScreenTree, r.target, Asked(c).at)
<1>1. /\ Pc(c) = "locate" /\ {"points", "by", "target"} \subseteq DOMAIN r
      /\ r.points[1] = MeantAt(r.request.at, r)
      /\ HasFrame(r.target) /\ IsRemotelyHosted(r.target.frame, r.request.at)
  BY DEF LocatePoint, SeesPoint, Pc
<1>2. PICK v \in Here : LET i == ReadPointAt(v, r.points[1])
                        IN  i # 0 /\ r.target = Reconciled(ByDefault(BridgeTrees[v][i]))
  BY <1>1 DEF SeesPoint, Pc
<1>3. Asked(c) = r.request /\ c \in Calls
  BY ActiveCall
<1>4. /\ View(device) \in Here /\ View(device) \in Views
      /\ ReadScreenTree = ReadTrees[View(device)]
      /\ device.orientation \in Orientations /\ device.screen \in Screens
  BY ScreenIsAlike, AlikeIs
<1>5. \/ /\ Answers(c, "ok", [answer |-> IF corrected = NoFrame THEN r.target
                                        ELSE [r.target EXCEPT !.frame = corrected]])
      \/ Answers(c, "ok", [answer |-> r.target]) /\ faults' = faults + 1
  BY DEF LocatePoint, Fails
<1>6. ASSUME corrected # NoFrame
      PROVE  DistanceOutsideFrame(corrected, Asked(c).at) <= HitSlop
  <2> DEFINE tree == ReadTrees[View(device)]
             found == {i \in Nodes(tree) :
                    /\ HasFrame(r.target) /\ HasFrame(tree[i])
                    /\ Identifies(r.target, tree[i])
                    /\ SameSize(tree[i].frame, r.target.frame)
                    /\ FrameContains(tree[i].frame, Asked(c).at)}
  <2>1. corrected = IF found = {} THEN NoFrame ELSE tree[LeastOf(found)].frame
    BY <1>4 DEF LocateInTree
  <2>2. PICK n \in Nat : Nodes(tree) = 1 .. n /\ \A i \in Nodes(tree) : Framed(tree[i])
    BY <1>4, TreesAreFramed DEF FramedTree
  <2> HIDE DEF corrected, tree, r
  <2>3. found \in SUBSET Nat /\ found # {}
    BY <1>6, <2>1, <2>2
  <2>4. LeastOf(found) \in found
    BY <2>3, LeastOfIsOne
  <2>5. corrected \in Frames /\ FrameContains(corrected, Asked(c).at)
    BY <1>6, <2>1, <2>2, <2>3, <2>4 DEF Framed
  <2>6. Asked(c).at \in Points
    BY ActiveCall, AskedPoints
  <2> HIDE DEF found
  <2>7. DistanceOutsideFrame(corrected, Asked(c).at) = 0
    BY <2>5, <2>6 DEF DistanceOutsideFrame, Larger, FrameContains, Frames, Points
  <2> QED
    BY <2>7, HitSlopAssumption
<1>7. ASSUME PointsTell, corrected = NoFrame,
             MeantAt(Asked(c).at, r) = ReadAt(Asked(c).at, device.orientation)
      PROVE  DistanceOutsideFrame(r.target.frame, Asked(c).at) <= HitSlop
  BY <1>1, <1>2, <1>3, <1>4, <1>7 DEF PointsTell, Here
<1> HIDE DEF corrected
<1>8. CASE Answers(c, "ok", [answer |-> r.target]) /\ faults' = faults + 1
  <2>1. faults' # 0
    BY <1>8
  <2> QED
    BY <1>1, <1>8, <2>1, PointAnswers
<1>9. CASE corrected = NoFrame /\ Answers(c, "ok", [answer |-> r.target])
  BY <1>1, <1>7, <1>9, PointAnswers
<1>10. CASE corrected # NoFrame /\ Answers(c, "ok", [answer |-> [r.target EXCEPT !.frame = corrected]])
  <2> DEFINE found == [r.target EXCEPT !.frame = corrected]
  <2>1. found.frame = corrected
    BY <1>1 DEF HasFrame
  <2>2. Answers(c, "ok", [answer |-> found])
    BY <1>10
  <2> HIDE DEF found
  <2> QED
    BY <1>1, <1>6, <1>10, <2>1, <2>2, PointAnswers
<1> QED
  BY <1>5, <1>8, <1>9, <1>10

--------------------------------------------------------------------------------
(***************************************************************************)
(* A detection.                                                             *)
(***************************************************************************)
\* The device is in one of the two orientations that are tried.
LEMMA CandidatesAre ==
  ASSUME device.orientation \in Orientations, NEW both,
         both = CandidateOrientations(IsLandscape(LogicalScreen(device)))
  PROVE  /\ both[1] \in Orientations /\ both[2] \in Orientations /\ both[1] # both[2]
         /\ \/ both[1] = device.orientation /\ both[2] = Opposite[device.orientation]
            \/ both[2] = device.orientation /\ both[1] = Opposite[device.orientation]
<1>1. IsLandscape(LogicalScreen(device)) <=> device.orientation \in Landscapes
  BY ScreenSize
<1>2. CASE device.orientation \in Landscapes
  <2>1. both[1] = "landscape_right" /\ both[2] = "landscape_left"
    BY <1>1, <1>2 DEF CandidateOrientations
  <2> QED
    BY <1>2, <2>1 DEF Landscapes, Orientations, Opposite
<1>3. CASE device.orientation \notin Landscapes
  <2>1. both[1] = "portrait" /\ both[2] = "upside_down"
    BY <1>1, <1>3 DEF CandidateOrientations
  <2> QED
    BY <1>3, <2>1 DEF Landscapes, Orientations, Opposite
<1> QED
  BY <1>2, <1>3

LEMMA ReadsHere ==
  ASSUME IInv, DeviceOK, NEW probe, NEW candidate, NEW found,
         found = AtPoint(RoundPoint(TransformPointToPortrait(probe.at, candidate,
                                                             LogicalScreen(device))))
  PROVE  found # None /\ found.label = probe.label <=> ReadsAs(View(device), probe, candidate)
<1> DEFINE p == RoundPoint(TransformPointToPortrait(probe.at, candidate, LogicalScreen(device)))
           i == ReadPointAt(device, p)
<1>1. /\ View(device) \in Here /\ BridgeTree(device) = BridgeTrees[View(device)]
      /\ View(device) \in Views /\ ReadPointAt(View(device), p) = i
      /\ LogicalScreen(View(device)) = LogicalScreen(device)
  BY ScreenIsAlike, AlikeIs
<1>2. found = IF i = 0 THEN None ELSE Reconciled(ByDefault(BridgeTrees[View(device)][i]))
  BY <1>1 DEF AtPoint
<1>3. ReadsAs(View(device), probe, candidate)
        <=> i # 0 /\ BridgeTrees[View(device)][i].label = probe.label
  BY <1>1 DEF ReadsAs
<1>4. i # 0 => i \in Nodes(BridgeTrees[View(device)])
  BY <1>1, PressedIs
<1> HIDE DEF i, p
<1> QED
  BY <1>1, <1>2, <1>3, <1>4, ReconciledIs

\* One that does not tell leaves the rest to.
LEMMA RestIsDecisive ==
  ASSUME NEW alike, NEW probes, probes \in Seq(Range(probes)), Decisive(probes, alike),
         ~IsTelling(probes[1], alike)
  PROVE  /\ Tail(probes) # <<>> /\ Tail(probes) \in Seq(Range(Tail(probes)))
         /\ Decisive(Tail(probes), alike)
<1> DEFINE rest == Tail(probes)
<1>1. PICK n \in Nat : n = Len(probes) /\ DOMAIN probes = 1 .. n
  OBVIOUS
<1>2. PICK k \in DOMAIN probes : IsTelling(probes[k], alike)
  BY DEF Decisive
<1>3. k \in 2 .. n /\ probes # <<>>
  BY <1>1, <1>2
<1>4. Len(rest) = n - 1 /\ DOMAIN rest = 1 .. n - 1 /\ \A j \in 1 .. n - 1 : rest[j] = probes[j + 1]
  BY <1>1, <1>3
<1>5. rest \in Seq(Range(probes))
  BY <1>3
<1> HIDE DEF rest
<1>6. rest = [j \in 1 .. n - 1 |-> rest[j]] /\ \A j \in 1 .. n - 1 : rest[j] \in Range(rest)
  BY <1>4, <1>5 DEF Range
<1>7. rest \in Seq(Range(rest)) /\ rest # <<>>
  <2>1. PICK m \in Nat \ {0} : m = n - 1
    BY <1>3
  <2>2. DOMAIN rest = 1 .. m /\ rest = [j \in 1 .. m |-> rest[j]]
        /\ \A j \in 1 .. m : rest[j] \in Range(rest)
    BY <1>4, <1>6, <2>1
  <2>3. rest \in Seq(Range(rest))
    BY <2>2
  <2>4. 1 \in DOMAIN rest
    BY <2>1, <2>2
  <2> QED
    BY <2>3, <2>4
<1>8. IsTelling(rest[k - 1], alike) /\ k - 1 \in DOMAIN rest
  BY <1>1, <1>2, <1>3, <1>4
<1>9. ASSUME NEW j \in DOMAIN rest PROVE IsFair(rest[j], alike)
  <2>1. j \in 1 .. n - 1 /\ j + 1 \in DOMAIN probes /\ rest[j] = probes[j + 1]
    BY <1>1, <1>3, <1>4
  <2>2. IsFair(probes[j + 1], alike)
    BY <2>1 DEF Decisive
  <2> QED
    BY <2>1, <2>2
<1> QED
  BY <1>7, <1>8, <1>9 DEF Decisive, rest

\* The first that is tried.
LEMMA ProbesAre ==
  ASSUME NEW v \in Views, NEW size
  PROVE  Probes(DefaultTrees[v], size) \in Seq(Range(Probes(DefaultTrees[v], size)))
<1> DEFINE tree == DefaultTrees[v]
           S == UniquelyLabelled(tree, CollectProbeCandidates(tree, size))
           probes == Probes(tree, size)
<1>1. PICK n \in Nat : Nodes(tree) = 1 .. n
  BY TreesAreFramed DEF FramedTree
<1>2. S \in SUBSET (1 .. n)
  BY <1>1 DEF UniquelyLabelled, CollectProbeCandidates
<1>3. DOMAIN probes = DOMAIN InOrder(S) /\ probes = [k \in DOMAIN probes |-> probes[k]]
  BY DEF Probes
<1> HIDE DEF tree, S, probes
<1>4. Cardinality(S) \in Nat
  BY <1>2, InOrderCounts
<1>5. DOMAIN InOrder(S) = 1 .. Cardinality(S)
  BY DEF InOrder
<1>6. \A k \in DOMAIN probes : probes[k] \in Range(probes)
  BY DEF Range
<1>7. probes \in Seq(Range(probes))
  BY <1>3, <1>4, <1>5, <1>6
<1> QED
  BY <1>7 DEF probes, tree

\* The next element to try, or the first.
LEMMA FromTheFirst ==
  ASSUME IInv, NEW c \in Active, NEW probes, NEW size, NEW alike,
         \/ Goes(c, "probe", Updated(NoProbe, [dims |-> size, probes |-> probes]))
         \/ Goes(c, "probe", Updated(NoProbe, [probes |-> probes])) /\ call[c].dims = size,
         probes \in Seq(Range(probes)), Decisive(probes, alike), alike # {},
         \A v \in alike : size = LogicalScreen(v)
  PROVE  Pc(c)' # "done" /\ SeesProbes(call'[c], alike)
<1>1. PICK news : /\ Goes(c, "probe", Updated(NoProbe, news))
                  /\ DOMAIN news \in {{"dims", "probes"}, {"probes"}}
                  /\ news["probes"] = probes
                  /\ IF "dims" \in DOMAIN news THEN news["dims"] = size ELSE call[c].dims = size
  <2>1. ASSUME NEW news, news = [dims |-> size, probes |-> probes]
        PROVE  DOMAIN news = {"dims", "probes"} /\ news["dims"] = size /\ news["probes"] = probes
    BY <2>1
  <2>2. ASSUME NEW news, news = [probes |-> probes]
        PROVE  DOMAIN news = {"probes"} /\ news["probes"] = probes
    BY <2>2
  <2> QED
    BY <2>1, <2>2
<1> DEFINE memory == Updated(NoProbe, news)
<1>2. DOMAIN NoProbe = {"tried", "matches"} /\ NoProbe["tried"] = 0 /\ NoProbe["matches"] = {}
  BY DEF NoProbe
<1>3. /\ DOMAIN memory = DOMAIN NoProbe \cup DOMAIN news
      /\ \A f \in DOMAIN news : memory[f] = news[f]
      /\ \A f \in DOMAIN NoProbe \ DOMAIN news : memory[f] = NoProbe[f]
  BY UpdatedIs
<1>4. /\ DOMAIN memory = {"tried", "matches"} \cup DOMAIN news /\ "pc" \notin DOMAIN memory
      /\ memory["tried"] = 0 /\ memory["matches"] = {} /\ memory["probes"] = probes
      /\ "dims" \in DOMAIN memory => memory["dims"] = size
      /\ "dims" \notin DOMAIN memory => call[c].dims = size
  BY <1>1, <1>2, <1>3
<1>5. Goes(c, "probe", memory) /\ "probes" \in DOMAIN memory
  BY <1>1, <1>4
<1> HIDE DEF memory
<1>6. /\ Pc(c)' = "probe" /\ "dims" \in DOMAIN call[c]
      /\ DOMAIN call'[c] = DOMAIN call[c] \cup {"pc"} \cup DOMAIN memory
      /\ \A f \in DOMAIN memory \ {"pc"} : call'[c][f] = memory[f]
      /\ \A f \in DOMAIN call[c] \ (DOMAIN memory \cup {"pc"}) : call'[c][f] = call[c][f]
  BY <1>5, ActiveCall, GoesTo
<1>7. /\ call'[c].pc = "probe" /\ {"tried", "matches", "probes"} \subseteq DOMAIN call'[c]
      /\ call'[c].tried = 0 /\ call'[c].matches = {} /\ call'[c].probes = probes
      /\ call'[c].dims = size
  BY <1>4, <1>5, <1>6 DEF Pc
<1> DEFINE q == call'[c]
<1> HIDE DEF q
<1>8. q.pc = "probe" => /\ {"tried", "matches", "probes"} \subseteq DOMAIN q
                        /\ q.probes = probes /\ q.tried = 0 /\ q.matches = {} /\ q.dims = size
                        /\ q.pc # "detected"
  BY <1>7 DEF q
<1>9. SeesProbes(q, alike)
  BY <1>7, <1>8 DEF SeesProbes, q
<1> QED
  BY <1>6, <1>9 DEF q

LEMMA DetectsAndSees ==
  ASSUME IInv, NEW c \in Active, NEW o, Detects(c, o), NEW alike, \A v \in alike : o = v.orientation
  PROVE  Pc(c)' # "done" /\ SeesProbes(call'[c], alike)
<1> DEFINE memory == [answer |-> o]
<1>1. Goes(c, "detected", memory) /\ DOMAIN memory = {"answer"} /\ memory["answer"] = o
  BY DEF Detects
<1> HIDE DEF memory
<1>2. Pc(c)' = "detected" /\ \A f \in DOMAIN memory \ {"pc"} : call'[c][f] = memory[f]
  BY <1>1, ActiveCall, GoesTo
<1>3. call'[c].pc = "detected" /\ call'[c].answer = o
  BY <1>1, <1>2 DEF Pc
<1> QED
  BY <1>2, <1>3 DEF SeesProbes

LEMMA ProbeTreeSees ==
  ASSUME IInv, DeviceOK, faults \in Nat, NEW c \in Active, faults' = 0, IsDecisive(Here),
         ProbeTree(c)
  PROVE  TurnSees(c)
<1> DEFINE size   == LogicalScreen(device)
           probes == Probes(DefaultTree(device), size)
<1>1. /\ View(device) \in Here /\ View(device) \in Views
      /\ DefaultTree(device) = DefaultTrees[View(device)]
      /\ \A v \in Here : LogicalScreen(v) = size
  BY ScreenIsAlike, AlikeIs
<1>2. probes \in Seq(Range(probes))
  BY <1>1, ProbesAre
<1>3. Decisive(probes, Here)
  BY <1>1 DEF IsDecisive
<1>4. IF probes = <<>> THEN Detects(c, CandidateOrientations(IsLandscape(size))[1])
      ELSE Goes(c, "probe", Updated(NoProbe, [dims |-> size, probes |-> probes]))
  <2>1. ~Fails
    BY DEF Fails
  <2> QED
    BY <2>1 DEF ProbeTree
<1> HIDE DEF probes, size
<1>5. probes # <<>>
  BY <1>3 DEF Decisive
<1> QED
  BY <1>1, <1>2, <1>3, <1>4, <1>5, FromTheFirst DEF TurnSees

LEMMA ProbeSees ==
  ASSUME IInv, DeviceOK, faults \in Nat, NEW c \in Active, faults' = 0,
         SeesProbes(call[c], Here), Probe(c)
  PROVE  TurnSees(c)
<1> DEFINE r         == call[c]
           probe     == Head(r.probes)
           size      == r.dims
           both      == CandidateOrientations(IsLandscape(size))
           candidate == both[r.tried + 1]
           found     == AtPoint(RoundPoint(TransformPointToPortrait(probe.at, candidate, size)))
           matches   == IF found # None /\ found.label = probe.label
                        THEN r.matches \cup {candidate} ELSE r.matches
           o         == device.orientation
<1>1. /\ Pc(c) = "probe" /\ r.pc = "probe" /\ Tried(c, matches)
  <2>1. ~Fails
    BY DEF Fails
  <2> QED
    BY <2>1 DEF Probe, Pc
<1>2. /\ {"tried", "matches", "probes"} \subseteq DOMAIN r
      /\ \A v \in Here : size = LogicalScreen(v)
      /\ r.probes \in Seq(Range(r.probes)) /\ Decisive(r.probes, Here)
      /\ \E v \in Here :
           r.matches = IF r.tried = 1 /\ ReadsAs(v, r.probes[1], both[1]) THEN {both[1]} ELSE {}
  BY <1>1 DEF SeesProbes
<1>3. r.tried \in {0, 1} /\ {"request", "dims"} \subseteq DOMAIN r
  BY <1>1, ActiveCall DEF Remembers
<1>4. /\ View(device) \in Here /\ LogicalScreen(View(device)) = LogicalScreen(device)
      /\ o \in Orientations /\ View(device).orientation = o
      /\ \A v \in Here : v.orientation = o
  BY ScreenIsAlike, AlikeIs
<1>5. size = LogicalScreen(device) /\ Here # {}
  BY <1>2, <1>4
<1>6. r.probes # <<>> /\ probe = r.probes[1] /\ 1 \in DOMAIN r.probes
  BY <1>2 DEF Decisive
<1>7. matches = IF ReadsAs(View(device), probe, candidate) THEN r.matches \cup {candidate}
                ELSE r.matches
  BY <1>5, ReadsHere
<1>8. /\ both[1] \in Orientations /\ both[2] \in Orientations /\ both[1] # both[2]
      /\ \/ both[1] = o /\ both[2] = Opposite[o]
         \/ both[2] = o /\ both[1] = Opposite[o]
  BY <1>4, <1>5, CandidatesAre
<1>9. IsFair(probe, Here)
  BY <1>2, <1>6 DEF Decisive
<1>10. candidate = IF r.tried = 0 THEN both[1] ELSE both[2]
  BY <1>3
<1> HIDE DEF found, matches, candidate, both, probe, size
<1>11. CASE r.tried = 0
  <2> DEFINE memory == [tried |-> 1, matches |-> matches]
             q == call'[c]
  <2>1. Goes(c, "probe", memory) /\ DOMAIN memory = {"tried", "matches"}
        /\ memory["tried"] = 1 /\ memory["matches"] = matches
    BY <1>1, <1>11 DEF Tried
  <2> HIDE DEF memory
  <2>2. /\ Pc(c)' = "probe"
        /\ DOMAIN call'[c] = DOMAIN r \cup {"pc"} \cup DOMAIN memory
        /\ \A f \in DOMAIN memory \ {"pc"} : call'[c][f] = memory[f]
        /\ \A f \in DOMAIN r \ (DOMAIN memory \cup {"pc"}) : call'[c][f] = r[f]
    BY <2>1, ActiveCall, GoesTo
  <2>3. /\ q.pc = "probe" /\ {"tried", "matches", "probes"} \subseteq DOMAIN q
        /\ q.tried = 1 /\ q.matches = matches /\ q.probes = r.probes /\ q.dims = size
    BY <1>2, <1>3, <2>1, <2>2 DEF Pc, size
  <2>4. both = CandidateOrientations(IsLandscape(q.dims))
    BY <2>3 DEF both
  <2> HIDE DEF q, r
  <2>5. q.matches = IF q.tried = 1 /\ ReadsAs(View(device), q.probes[1], both[1])
                    THEN {both[1]} ELSE {}
    <3>1. r.matches = {}
      BY <1>2, <1>11
    <3> QED
      BY <1>6, <1>7, <1>10, <1>11, <2>3, <3>1
  <2>6. SeesProbes(q, Here)
    BY <1>2, <1>4, <2>3, <2>4, <2>5 DEF SeesProbes
  <2> QED
    BY <2>2, <2>6 DEF TurnSees, q
<1>12. CASE r.tried = 1
  <2>1. PICK v \in Here : r.matches = IF ReadsAs(v, probe, both[1]) THEN {both[1]} ELSE {}
    BY <1>2, <1>6, <1>12
  <2>2. matches = (IF ReadsAs(v, probe, both[1]) THEN {both[1]} ELSE {})
                    \cup (IF ReadsAs(View(device), probe, both[2]) THEN {both[2]} ELSE {})
    BY <1>7, <1>10, <1>12, <2>1
  <2>3. Opposite[o] \in matches => o \in matches
    <3>1. \A u, w \in Here : ReadsAs(u, probe, Opposite[o]) => ReadsAs(w, probe, o)
      BY <1>4, <1>9 DEF IsFair
    <3> QED
      BY <1>4, <1>8, <2>2, <3>1
  <2>4. IsTelling(probe, Here) => matches = {o}
    <3>1. SUFFICES ASSUME IsTelling(probe, Here) PROVE matches = {o}
      OBVIOUS
    <3>2. \A u \in Here : ReadsAs(u, probe, o) /\ ~ReadsAs(u, probe, Opposite[o])
      BY <1>4, <3>1 DEF IsTelling
    <3> QED
      BY <1>4, <1>8, <2>2, <3>2
  <2>5. IsFiniteSet(matches) /\ matches \subseteq {o, Opposite[o]}
    BY <1>8, <2>2, FS_Singleton, FS_EmptySet, FS_Union
  <2>6. CASE Cardinality(matches) = 1
    <3>1. PICK x : matches = {x}
      BY <2>5, <2>6, FS_Singleton
    <3>2. x = o
      BY <2>3, <2>5, <3>1
    <3>3. Detects(c, CHOOSE y \in matches : TRUE)
      BY <1>1, <1>12, <2>6 DEF Tried
    <3>4. (CHOOSE y \in matches : TRUE) = o
      BY <3>1, <3>2
    <3> QED
      BY <1>4, <3>3, <3>4, DetectsAndSees DEF TurnSees
  <2>7. CASE Cardinality(matches) # 1
    <3>1. ~IsTelling(r.probes[1], Here)
      BY <1>6, <2>4, <2>7, FS_Singleton
    <3>2. /\ Tail(r.probes) # <<>> /\ Tail(r.probes) \in Seq(Range(Tail(r.probes)))
          /\ Decisive(Tail(r.probes), Here)
      BY <1>2, <3>1, RestIsDecisive
    <3>3. Goes(c, "probe", Updated(NoProbe, [probes |-> Tail(r.probes)]))
      BY <1>1, <1>12, <2>7, <3>2 DEF Tried
    <3>4. r.dims = size
      BY DEF size
    <3> QED
      BY <1>2, <1>5, <3>2, <3>3, <3>4, FromTheFirst DEF TurnSees
  <2> QED
    BY <2>6, <2>7
<1> QED
  BY <1>3, <1>11, <1>12

LEMMA NoteDetectedSees ==
  ASSUME IInv, DeviceOK, NEW c \in Active, SeesProbes(call[c], Here), NoteDetected(c)
  PROVE  TurnSees(c)
<1>1. Pc(c) = "detected" /\ Answers(c, "ok", << >>) /\ DOMAIN << >> = {}
  BY DEF NoteDetected
<1>2. "answer" \in DOMAIN call[c] /\ call[c].answer = device.orientation
  BY <1>1, ActiveCall, ScreenIsAlike, AlikeIs DEF SeesProbes, Remembers, Pc
<1>3. "answer" \in Lasting \ {"pc", "outcome", "screen", "orientation"}
  BY DEF Lasting
<1>4. Pc(c)' = "done" /\ call'[c].answer = call[c].answer
  BY <1>1, <1>2, <1>3, AnswersAre
<1> QED
  BY <1>2, <1>4 DEF TurnSees

LEMMA ClearDimsSees ==
  ASSUME IInv, NEW c \in Active, ClearDims(c)
  PROVE  TurnSees(c)
<1>1. Pc(c)' = "probeTree"
  BY ActiveCall, GoesTo DEF ClearDims
<1> QED
  BY <1>1 DEF TurnSees, SeesProbes, Pc

--------------------------------------------------------------------------------
(***************************************************************************)
(* What undisturbed calls see is invariant.                                 *)
(***************************************************************************)
LEMMA BeginSees ==
  ASSUME IInv, NEW c \in Calls, Begin(c)
  PROVE  Sees(c)' /\ Tells(c)'
<1>1. PICK r \in Requests(c, device.screen) :
        call'[c] = [request |-> r, pc |-> FirstStep(r), calm |-> TRUE,
                    sure |-> sure /\ ~Turning(r), dims |-> None]
  BY DEF Begin
<1> DEFINE q == call'[c]
<1>2. /\ DOMAIN q = {"request", "pc", "calm", "sure", "dims"}
      /\ q.request = r /\ q.pc = FirstStep(r) /\ q.dims = None
  BY <1>1
<1>3. device' = device
  BY DEF Begin
<1>4. Asked(c)' = r /\ Pc(c)' = FirstStep(r)
  BY <1>2 DEF Asked, Pc
<1> HIDE DEF q
<1>5. r \in Asks
  BY <1>1, RequestsAssumption DEF IInv, TypeOK
<1>6. FirstStep(r) # "done"
  BY <1>5, FirstStepIsAPlace
<1>7. ASSUME NEW alike, r.op = "named" PROVE SeesTarget(q, alike)
  <2>1. FirstStep(r) = "byLabel"
    BY <1>7 DEF FirstStep
  <2> QED
    BY <1>2, <2>1 DEF SeesTarget, Aiming, Delivering
<1>8. ASSUME NEW alike, r.op = "point" PROVE SeesPoint(q, alike)
  <2>1. FirstStep(r) = "dims"
    BY <1>8 DEF FirstStep
  <2> QED
    BY <1>2, <2>1 DEF SeesPoint
<1>9. ASSUME NEW alike, Turning(r) PROVE SeesProbes(q, alike)
  <2>1. FirstStep(r) \in {"turn", "clear"}
    BY <1>9 DEF FirstStep, Turning
  <2> QED
    BY <1>2, <2>1 DEF SeesProbes
<1>10. Sees(c)'
  BY <1>1, <1>3, <1>4, <1>7, <1>8, <1>9 DEF Sees, q
<1> QED
  BY <1>4, <1>6, <1>10 DEF Tells

LEMMA RotateSees ==
  ASSUME IInv, NEW c \in Calls, Rotate(c), Sees(c)
  PROVE  Sees(c)' /\ Tells(c)'
<1>1. c \in Active /\ Asked(c).op = "rotate" /\ Pc(c) = "turn"
  BY Underway, PlaceTellsOp DEF Rotate
<1> DEFINE news == [pc |-> "clear"]
<1>2. DOMAIN news = {"pc"} /\ news["pc"] = "clear" /\ call'[c] = Updated(call[c], news)
  BY DEF Rotate
<1> HIDE DEF news
<1>3. /\ DOMAIN Updated(call[c], news) = DOMAIN call[c] \cup DOMAIN news
      /\ \A f \in DOMAIN news : Updated(call[c], news)[f] = news[f]
      /\ \A f \in DOMAIN call[c] \ DOMAIN news : Updated(call[c], news)[f] = call[c][f]
  BY UpdatedIs
<1>4. {"request", "calm"} \subseteq DOMAIN call[c]
  BY <1>1, ActiveCall
<1>5. /\ call'[c].pc = "clear" /\ Asked(c)' = Asked(c) /\ call'[c].calm = call[c].calm
  BY <1>2, <1>3, <1>4 DEF Asked
<1>6. device'.screen = device.screen
  BY DEF Rotate
<1>7. \A alike : SeesProbes(call'[c], alike)
  BY <1>5 DEF SeesProbes
<1>8. Sees(c)'
  BY <1>1, <1>5, <1>6, <1>7 DEF Sees
<1> QED
  BY <1>5, <1>8 DEF Tells, Pc

\* A step of the call's own.
LEMMA OwnSees ==
  ASSUME IInv, SightInv, NEW c \in Calls, faults' = 0 => faults = 0,
         Reading(c) \/ (Turns(c) /\ ~Rotate(c)) \/ Delivery(c) \/ Failure(c)
  PROVE  c \in Active /\ Moves(c) /\ Sees(c)' /\ Tells(c)'
<1>1. Moves(c)
  BY ReadingMoves, TurningMoves, DeliveryMoves DEF Turns, Failure
<1>2. c \in Active
  BY Underway DEF Reading, DimsFromCache, AskRootFrame, RootFrameServed, RootFrameArrives,
     Aim, ScreenServed, ScreenArrives, ReadPoint, LocatePoint, FindByLabel, FindById,
     FindInTree, HitTest, ReadBack, RefuseText, SecureFieldGate, PasswordSheetGate, Capture,
     Turns, ClearDims, ProbeTree, Probe, NoteDetected, Delivery, Queue, Run, Activate, Deliver,
     Acknowledge, Failure, RootFrameFails, ReadFails, RotateFails, Cut
<1>3. SameScene
  BY SceneStays
<1>4. DeviceOK /\ faults \in Nat /\ Sees(c)
  BY DEF SightInv
<1>5. Pc(c) \in Places(Asked(c).op)
  BY <1>2, ActiveCall
<1>6. \/ Pc(c) \in {"dims", "root", "rootRead"}
         /\ \/ DimsFromCache(c) \/ AskRootFrame(c) \/ RootFrameServed(c) \/ RootFrameArrives(c)
            \/ RootFrameFails(c)
      \/ Pc(c) = "aim" /\ Aim(c)
      \/ Pc(c) \in {"byLabel", "byId", "inTree"} /\ (FindByLabel(c) \/ FindById(c) \/ FindInTree(c))
      \/ Pc(c) = "hitTest" /\ HitTest(c)
      \/ Pc(c) = "readBack" /\ ReadBack(c)
      \/ Pc(c) = "queue" /\ Queue(c)
      \/ Pc(c) = "wait" /\ Run(c)
      \/ Pc(c) = "run" /\ (Activate(c) \/ Deliver(c) \/ Acknowledge(c) \/ Cut(c))
      \/ Pc(c) = "read" /\ ReadPoint(c)
      \/ Pc(c) = "locate" /\ LocatePoint(c)
      \/ Pc(c) = "turn" /\ RotateFails(c)
      \/ Pc(c) = "clear" /\ ClearDims(c)
      \/ Pc(c) = "probeTree" /\ ProbeTree(c)
      \/ Pc(c) = "probe" /\ Probe(c)
      \/ Pc(c) = "detected" /\ NoteDetected(c)
      \/ Pc(c) \in {"byLabel", "byId", "hitTest", "readBack", "read"} /\ ReadFails(c)
      \/ Pc(c) \in {"screen", "screenRead", "gate", "sheet", "capture"}
  <2>1. CASE \/ DimsFromCache(c) \/ AskRootFrame(c) \/ RootFrameServed(c) \/ RootFrameArrives(c)
             \/ RootFrameFails(c)
    BY <2>1 DEF DimsFromCache, AskRootFrame, RootFrameServed, RootFrameArrives, RootFrameFails
  <2>2. CASE FindByLabel(c) \/ FindById(c) \/ FindInTree(c)
    BY <2>2 DEF FindByLabel, FindById, FindInTree
  <2>3. CASE Aim(c) \/ HitTest(c) \/ ReadBack(c) \/ ReadPoint(c) \/ LocatePoint(c)
    BY <2>3 DEF Aim, HitTest, ReadBack, ReadPoint, LocatePoint
  <2>4. CASE \/ Queue(c) \/ Run(c) \/ Activate(c) \/ Deliver(c) \/ Acknowledge(c) \/ Cut(c)
    BY <2>4 DEF Queue, Run, Activate, Deliver, Acknowledge, Cut
  <2>5. CASE RotateFails(c) \/ ClearDims(c) \/ ProbeTree(c) \/ Probe(c) \/ NoteDetected(c)
    BY <2>5 DEF RotateFails, ClearDims, ProbeTree, Probe, NoteDetected
  <2>6. CASE \/ ScreenServed(c) \/ ScreenArrives(c) \/ RefuseText(c) \/ SecureFieldGate(c)
             \/ PasswordSheetGate(c) \/ Capture(c) \/ ReadFails(c)
    BY <2>6 DEF ScreenServed, ScreenArrives, RefuseText, SecureFieldGate, PasswordSheetGate,
       Capture, ReadFails
  <2> QED
    BY <2>1, <2>2, <2>3, <2>4, <2>5, <2>6, Zenon DEF Reading, Turns, Delivery, Failure
<1>7. ASSUME call[c].calm, NamesTell, Asked(c).op = "named" PROVE NamedSees(c)
  <2>1. Pc(c) \in Aiming \cup Delivering \cup {"byLabel", "byId", "inTree", "hitTest", "readBack"}
    BY <1>5, <1>7 DEF Places
  <2>2. SeesTarget(call[c], Here) /\ Asked(c) \in Requests(c, device.screen)
    BY <1>2, <1>4, <1>7 DEF Sees, Here
  <2>3. \/ DimsFromCache(c) \/ AskRootFrame(c) \/ RootFrameServed(c) \/ RootFrameArrives(c)
        \/ RootFrameFails(c) \/ Aim(c) \/ FindByLabel(c) \/ FindById(c) \/ FindInTree(c)
        \/ HitTest(c) \/ ReadBack(c) \/ ReadFails(c) \/ Queue(c) \/ Run(c)
        \/ Activate(c) \/ Deliver(c) \/ Acknowledge(c) \/ Cut(c)
    BY <1>6, <2>1 DEF Aiming, Delivering
  <2> QED
    BY <1>2, <1>4, <1>7, <2>2, <2>3, ApproachSees, AimSees, LookupSees, HitTestSees, ReadBackSees, ReadFailsSees,
       QueueSees, RunSees, ActivateSees, DeliverSees, EndOfDeliverySees
<1>8. ASSUME call[c].calm, Asked(c).op = "point" PROVE PointSees(c)
  <2>1. Pc(c) \in Aiming \cup {"read", "locate"}
    BY <1>5, <1>8 DEF Places
  <2>2. SeesPoint(call[c], Here) /\ Asked(c) \in Requests(c, device.screen)
    BY <1>2, <1>4, <1>8 DEF Sees, Here
  <2>3. \/ DimsFromCache(c) \/ AskRootFrame(c) \/ RootFrameServed(c) \/ RootFrameArrives(c)
        \/ RootFrameFails(c) \/ Aim(c) \/ ReadPoint(c) \/ LocatePoint(c) \/ ReadFails(c)
    BY <1>6, <2>1 DEF Aiming
  <2>4. ReadFails(c) => faults' # 0 /\ Pc(c)' = "done"
    <3>1. ReadFails(c) => faults' # 0
      BY <1>4 DEF ReadFails, Fails
    <3>2. ASSUME ReadFails(c) PROVE Pc(c)' = "done"
      BY <1>2, <3>2, AllLearnt, AnswersAre DEF ReadFails
    <3> QED
      BY <3>1, <3>2
  <2>5. ReadFails(c) => PointSees(c)
    BY <2>4 DEF PointSees
  <2> QED
    BY <1>2, <1>4, <1>8, <2>2, <2>3, <2>5, PointApproachSees, PointAimSees, ReadPointSees,
       LocatePointSees
<1>9. ASSUME call[c].calm, Turning(Asked(c)), faults' = 0, IsDecisive(Here) PROVE TurnSees(c)
  <2>1. Pc(c) \in Detecting \cup {"turn"}
    BY <1>5, <1>9 DEF Places, Turning
  <2>2. SeesProbes(call[c], Here)
    BY <1>2, <1>4, <1>9 DEF Sees, Here
  <2>3. RotateFails(c) \/ ClearDims(c) \/ ProbeTree(c) \/ Probe(c) \/ NoteDetected(c)
    BY <1>6, <2>1 DEF Detecting
  <2>4. ~RotateFails(c)
    BY <1>4, <1>9 DEF RotateFails, Fails
  <2> QED
    BY <1>2, <1>4, <1>9, <2>2, <2>3, <2>4, ClearDimsSees, ProbeTreeSees, ProbeSees, NoteDetectedSees
<1> QED
  BY <1>1, <1>2, <1>3, <1>4, <1>7, <1>8, <1>9, OwnStepSees

\* Faults only ever come.
LEMMA FaultsStay ==
  ASSUME faults \in Nat, [Next]_vars
  PROVE  faults' \in Nat /\ (faults' = 0 => faults = 0)
<1>1. /\ OnlyCalls => faults' = faults
      /\ Fails => faults' = faults + 1
  BY DEF OnlyCalls, Fails, world
<1>2. ASSUME NEW c \in Calls, Reading(c) PROVE faults' \in {faults, faults + 1}
  BY <1>1, <1>2 DEF Reading, DimsFromCache, AskRootFrame, RootFrameServed, RootFrameArrives, Aim,
     ScreenServed, ScreenArrives, ReadPoint, LocatePoint, FindByLabel, FindById, FindInTree,
     HitTest, ReadBack, RefuseText, SecureFieldGate, PasswordSheetGate, Capture, world
<1>3. ASSUME NEW c \in Calls, Begin(c) \/ Turns(c) PROVE faults' \in {faults, faults + 1}
  BY <1>1, <1>3 DEF Begin, Turns, Rotate, ClearDims, ProbeTree, Probe, NoteDetected, world
<1>4. ASSUME NEW c \in Calls, Delivery(c) \/ Failure(c) PROVE faults' \in {faults, faults + 1}
  BY <1>1, <1>4 DEF Delivery, Queue, Run, Activate, Deliver, Acknowledge, Failure, RootFrameFails,
     ReadFails, RotateFails, Cut, world
<1>5. ASSUME Turn \/ Change \/ UNCHANGED vars \/ \E t \in Tickets : ForgetTail(t)
      PROVE  faults' = faults
  BY <1>5 DEF Turn, Change, ForgetTail, vars, world
<1>6. faults' \in {faults, faults + 1}
  BY <1>2, <1>3, <1>4, <1>5 DEF Next, AllDone
<1> QED
  BY <1>6

LEMMA SightInvStep ==
  ASSUME IInv, SightInv, [Next]_vars
  PROVE  SightInv'
<1>1. DeviceOK' /\ faults' \in Nat /\ (faults' = 0 => faults = 0)
  BY DeviceStep, FaultsStay DEF SightInv
<1>2. \A d \in Calls : Sees(d) /\ Tells(d)
  BY DEF SightInv
<1>3. \A d \in Calls : StandsBy(d) => Sees(d)' /\ Tells(d)'
  BY <1>1, <1>2, StandsBySees
<1>4. ASSUME NEW c \in Calls, Begin(c) PROVE \A d \in Calls : Sees(d)' /\ Tells(d)'
  BY <1>3, <1>4, BeginSees, BeginIsStoodBy
<1>5. ASSUME NEW c \in Calls, Rotate(c) PROVE \A d \in Calls : Sees(d)' /\ Tells(d)'
  BY <1>2, <1>3, <1>5, RotateSees, RotateIsStoodBy
<1>6. ASSUME NEW c \in Calls,
             Reading(c) \/ (Turns(c) /\ ~Rotate(c)) \/ Delivery(c) \/ Failure(c)
      PROVE  \A d \in Calls : Sees(d)' /\ Tells(d)'
  <2>1. c \in Active /\ Moves(c) /\ Sees(c)' /\ Tells(c)'
    BY <1>1, <1>6, OwnSees
  <2>2. SameScene
    BY <1>6, SceneStays
  <2>3. \A d \in Calls \ {c} : StandsBy(d)
    BY <2>1, <2>2, CallIsStoodBy
  <2> QED
    BY <1>3, <2>1, <2>3
<1>7. ASSUME Turn \/ Change \/ UNCHANGED vars \/ \E t \in Tickets : ForgetTail(t)
      PROVE  \A d \in Calls : Sees(d)' /\ Tells(d)'
  <2>1. \A d \in Calls : StandsBy(d)
    BY <1>7, WorldIsStoodBy
  <2> QED
    BY <1>3, <2>1
<1>8. \A d \in Calls : Sees(d)' /\ Tells(d)'
  <2>1. CASE \E c \in Calls : Begin(c) \/ Reading(c) \/ Turns(c) \/ Delivery(c) \/ Failure(c)
    <3>1. PICK c \in Calls : Begin(c) \/ Reading(c) \/ Turns(c) \/ Delivery(c) \/ Failure(c)
      BY <2>1
    <3>2. CASE Begin(c) \/ Rotate(c)
      BY <1>4, <1>5, <3>2
    <3>3. CASE ~(Begin(c) \/ Rotate(c))
      <4>1. Reading(c) \/ (Turns(c) /\ ~Rotate(c)) \/ Delivery(c) \/ Failure(c)
        BY <3>1, <3>3
      <4> QED
        BY <1>6, <4>1
    <3> QED
      BY <3>2, <3>3
  <2>2. CASE Turn \/ Change \/ UNCHANGED vars \/ \E t \in Tickets : ForgetTail(t)
    BY <1>7, <2>2
  <2> QED
    BY <2>1, <2>2 DEF Next, AllDone
<1> QED
  BY <1>1, <1>8 DEF SightInv

LEMMA InitSightInv == Init => SightInv
<1> SUFFICES ASSUME Init PROVE SightInv
  OBVIOUS
<1>1. DeviceOK /\ faults \in Nat
  BY DEF Init, DeviceOK
<1>2. \A c \in Calls : Pc(c) = "idle" /\ call[c].pc = "idle"
  BY DEF Init, Idle, Pc
<1> QED
  BY <1>1, <1>2 DEF SightInv, Sees, Tells, Active

\* Every undisturbed call has seen the screen as it is, and told what is so of it.
THEOREM UndisturbedCallsSee == Spec => []SightInv
<1>1. IInv /\ SightInv /\ [Next]_vars => SightInv'
  BY SightInvStep
<1> QED
  BY <1>1, InductiveInvariant, InitSightInv, PTL DEF Spec

\* The device as a finished call found it is one of those that it has told of.
LEMMA SeenIs ==
  ASSUME IInv, SightInv, NEW c \in Calls, Pc(c) = "done",
         Asked(c).op \notin {"none", "type"}, call[c].calm
  PROVE  /\ View(Seen(c)) \in Alike(call[c].orientation, call[c].screen)
         /\ Asked(c) = call[c].request
         /\ BridgeTree(Seen(c)) = BridgeTrees[View(Seen(c))]
         /\ LogicalScreen(Seen(c)) = PortraitSize(call[c].orientation, PortraitScreen)
         /\ \A p : TopmostAt(Seen(c), p) = TopmostAt(View(Seen(c)), p)
         /\ \A target, query :
              Resolved(Seen(c), target, query) = Resolved(View(Seen(c)), target, query)
         /\ Unclear(Seen(c)) <=> Unclear(View(Seen(c)))
<1> DEFINE d == Seen(c)
<1>1. /\ d.orientation = call[c].orientation /\ d.screen = call[c].screen /\ d.on = device.on
      /\ device.on \subseteq Toggles
  BY DEF Seen, SightInv, DeviceOK
<1>2. Asked(c) = call[c].request
  BY DEF Asked
<1> HIDE DEF d
<1>3. View(d) \in Alike(call[c].orientation, call[c].screen) /\ View(View(d)) = View(d)
      /\ View(d).orientation = d.orientation
  BY <1>1 DEF View, Alike
<1>4. /\ BridgeTree(View(d)) = BridgeTree(d) /\ DefaultTree(View(d)) = DefaultTree(d)
      /\ LogicalScreen(View(d)) = LogicalScreen(d)
  BY <1>3 DEF BridgeTree, DefaultTree, LogicalScreen
<1>5. \A p : TopmostAt(d, p) = TopmostAt(View(d), p)
  BY <1>4 DEF TopmostAt
<1>6. \A target, query : Resolved(d, target, query) = Resolved(View(d), target, query)
  BY <1>4 DEF Resolved
<1>7. \A p, label : IsNamedAt(d, p, label) <=> IsNamedAt(View(d), p, label)
  BY <1>4, <1>5 DEF IsNamedAt
<1>8. Unclear(d) <=> Unclear(View(d))
  BY <1>4, <1>7 DEF Unclear
<1> QED
  BY <1>1, <1>2, <1>3, <1>5, <1>6, <1>8 DEF BridgeTree, LogicalScreen, d

\* Where names tell, a tap by name that nothing has disturbed has operated the element
\* that it was aimed at or something inside it, never what covers the element, whatever
\* the handle believed of the orientation, whatever failed and whoever else acted.
THEOREM NamedTapsHitTheirTargets ==
  ASSUME NamesTell
  PROVE  Spec => []NamedTapHitsItsTarget
<1>1. IInv /\ SightInv => NamedTapHitsItsTarget
  <2> SUFFICES ASSUME IInv, SightInv, NEW c \in Calls, Operated(c)
      PROVE  Hits(c) \/ (call[c].outcome \in Activations /\ NamesAnother(c))
    BY DEF NamedTapHitsItsTarget
  <2>1. Pc(c) = "done" /\ Asked(c).op = "named" /\ call[c].calm /\ "hit" \in DOMAIN call[c]
    BY DEF Operated, Done
  <2> DEFINE alike == Alike(call[c].orientation, call[c].screen)
  <2>2. TellsTarget(call[c], alike)
    BY <2>1 DEF SightInv, Tells
  <2>3. CASE HitsIn(call[c])
    BY <2>3 DEF HitsIn, Hits
  <2>4. CASE call[c].outcome \in Activations /\ MisnamedIn(call[c], alike)
    BY <2>1, <2>4, SeenIs DEF MisnamedIn, NamesAnother
  <2> QED
    BY <2>1, <2>2, <2>3, <2>4 DEF TellsTarget
<1> QED
  BY <1>1, InductiveInvariant, UndisturbedCallsSee, PTL

\* Where names tell, a tap by name that worked with the device's orientation and screen is
\* not refused where what is on top at the centre of the element is its own.
THEOREM ClearTapsGoThrough ==
  ASSUME NamesTell
  PROVE  Spec => []ClearTapsAreNotRefused
<1>1. IInv /\ SightInv => ClearTapsAreNotRefused
  <2> SUFFICES ASSUME IInv, SightInv, NEW c \in Calls, Done(c, "named"), call[c].calm,
                      call[c].outcome = "tap-obstructed", Oriented(c)
      PROVE  LET i == TopmostAt(Seen(c), CentreOf(call[c].target.place))
             IN  i = 0 \/ ~Inside(BridgeTree(Seen(c))[i], call[c].target)
    BY DEF ClearTapsAreNotRefused
  <2>1. Pc(c) = "done" /\ Asked(c).op = "named"
    BY DEF Done
  <2> DEFINE alike == Alike(call[c].orientation, call[c].screen)
  <2>2. TellsTarget(call[c], alike)
    BY <2>1 DEF SightInv, Tells
  <2>3. OrientedIn(call[c])
    BY <2>1, SeenIs DEF Oriented, OrientedIn
  <2> QED
    BY <2>1, <2>2, <2>3, SeenIs DEF TellsTarget
<1> QED
  BY <1>1, InductiveInvariant, UndisturbedCallsSee, PTL

\* Where a point read or the tree says where things are, what describePoint answers has a
\* frame that is near the point, as long as no read fails, also when another process
\* draws it in coordinates of its own.
THEOREM PointFramesAreNear ==
  ASSUME PointsTell
  PROVE  Spec => []PointFramesAreOnScreen
<1>1. IInv /\ SightInv => PointFramesAreOnScreen
  <2> SUFFICES ASSUME IInv, SightInv, NEW c \in Calls, Done(c, "point"), call[c].calm,
                      call[c].outcome = "ok", call[c].answer # None, Oriented(c), faults = 0
      PROVE  DistanceOutsideFrame(call[c].answer.frame, Asked(c).at) <= HitSlop
    BY DEF PointFramesAreOnScreen
  <2>1. Pc(c) = "done" /\ Asked(c).op = "point"
    BY DEF Done
  <2>2. TellsPoint(call[c])
    BY <2>1 DEF SightInv, Tells
  <2>3. OrientedIn(call[c]) /\ Asked(c) = call[c].request
    BY <2>1, SeenIs DEF Oriented, OrientedIn
  <2> QED
    BY <2>2, <2>3 DEF TellsPoint
<1> QED
  BY <1>1, InductiveInvariant, UndisturbedCallsSee, PTL

\* Where screens tell unless they are unclear, a detection that nothing disturbs is right,
\* on a screen of any number of elements and with any number of candidates to try.
THEOREM DetectionsAreRight ==
  ASSUME ScreensTell
  PROVE  Spec => []DetectionIsRight
<1>1. IInv /\ SightInv => DetectionIsRight
  <2> SUFFICES ASSUME IInv, SightInv, NEW c \in Calls, Pc(c) = "done", Turning(Asked(c)),
                      call[c].calm, faults = 0
      PROVE  call[c].answer = call[c].orientation \/ Unclear(Seen(c))
    BY DEF DetectionIsRight
  <2> DEFINE alike == Alike(call[c].orientation, call[c].screen)
  <2>1. Asked(c).op \notin {"none", "type"}
    BY DEF Turning
  <2>2. IsDecisive(alike) => call[c].answer = call[c].orientation
    BY <2>1 DEF SightInv, Tells
  <2>3. View(Seen(c)) \in alike /\ (Unclear(Seen(c)) <=> Unclear(View(Seen(c))))
    BY <2>1, SeenIs
  <2>4. call[c].orientation \in Orientations /\ call[c].screen \in Screens
    BY <2>1 DEF SightInv, Tells
  <2> QED
    BY <2>2, <2>3, <2>4 DEF ScreensTell
<1> QED
  BY <1>1, InductiveInvariant, UndisturbedCallsSee, PTL

================================================================================
