------------------------------ MODULE Geometry ------------------------------
(***************************************************************************)
(* Rotation and frames as arithmetic: ax/orientation.ts and the frame      *)
(* helpers of ax/tree.ts and ax/tap.ts.                                    *)
(*                                                                         *)
(* Callers work in logical coordinates, what is seen on the screen.  A     *)
(* companion accepts input in portrait coordinates, whatever the device is *)
(* doing.  Lengths are counted in half points, so that the centre of a     *)
(* frame is a whole number; a point read or a touch is rounded to whole    *)
(* points, which are the even numbers.                                     *)
(***************************************************************************)
EXTENDS Integers

CONSTANT HitSlop  \* how far a hit test may land outside of a frame

ASSUME HitSlopAssumption == HitSlop \in Nat

Orientations == {"portrait", "landscape_right", "upside_down", "landscape_left"}
Landscapes   == {"landscape_right", "landscape_left"}
Hints        == Orientations \cup {"auto"}

Points == [x : Int, y : Int]
Frames == [x : Int, y : Int, width : Nat, height : Nat]
Sizes  == [width : Nat, height : Nat]

At(x, y) == [x |-> x, y |-> y]

(***************************************************************************)
(* Orientation.                                                            *)
(***************************************************************************)
IsLandscape(size) == size.width > size.height

GetEffectiveOrientation(hint, size) ==
    IF hint # "auto" THEN hint
    ELSE IF IsLandscape(size) THEN "landscape_right" ELSE "portrait"

TransformPointToPortrait(p, orientation, size) ==
    CASE orientation \in {"portrait", "auto"} -> p
      [] orientation = "landscape_right" -> At(p.y, size.width - p.x)
      [] orientation = "landscape_left"  -> At(size.height - p.y, p.x)
      [] orientation = "upside_down"     -> At(size.width - p.x, size.height - p.y)

\* Fault: every frame retires the hint.
RetireHint(hint, isLandscape) == "auto"

\* A frame that agrees with the aspect of the hint says nothing of its
\* chirality and leaves it alone; one that disagrees retires it.
ReconcileHint(hint, isLandscape) ==
    IF hint = "auto" \/ (hint \in Landscapes <=> isLandscape) THEN hint ELSE "auto"

CandidateOrientations(isLandscape) ==
    IF isLandscape THEN <<"landscape_right", "landscape_left">>
                   ELSE <<"portrait", "upside_down">>

(***************************************************************************)
(* Frames.                                                                 *)
(***************************************************************************)
HasNoSize(f) == f.width = 0 /\ f.height = 0

CentreOf(f) == At(f.x + f.width \div 2, f.y + f.height \div 2)

\* Math.round, of a number of half points to a whole point.
RoundPoint(p) == At(2 * ((p.x + 1) \div 2), 2 * ((p.y + 1) \div 2))

FrameContains(f, p) ==
    /\ f.x <= p.x /\ p.x <= f.x + f.width
    /\ f.y <= p.y /\ p.y <= f.y + f.height

Larger(a, b) == IF a >= b THEN a ELSE b

DistanceOutsideFrame(f, p) ==
    LET dx == Larger(Larger(f.x - p.x, p.x - (f.x + f.width)), 0)
        dy == Larger(Larger(f.y - p.y, p.y - (f.y + f.height)), 0)
    IN  Larger(dx, dy)

\* Fault: only a frame that begins beyond the point is far from it.
IsHostedBeyond(f, p) ==
    ~HasNoSize(f) /\ Larger(f.x - p.x, f.y - p.y) > HitSlop

IsRemotelyHosted(f, p) ==
    ~HasNoSize(f) /\ DistanceOutsideFrame(f, p) > HitSlop

\* Equal to within less than one point, which is two half points.
Near(a, b) == -2 < a - b /\ a - b < 2
SameSize(f, g) == Near(f.width, g.width) /\ Near(f.height, g.height)

\* One point of slack on each edge.
Encloses(outer, inner) ==
    /\ inner.x >= outer.x - 2
    /\ inner.y >= outer.y - 2
    /\ inner.x + inner.width  <= outer.x + outer.width + 2
    /\ inner.y + inner.height <= outer.y + outer.height + 2

Shift(f, by) == [f EXCEPT !.x = @ + by.x, !.y = @ + by.y]

(***************************************************************************)
(* The device: how an orientation lays the logical screen over the         *)
(* portrait one, and the size of the portrait screen.  External to the     *)
(* code, which inverts it.                                                 *)
(***************************************************************************)
LogicalOf(p, orientation, size) ==
    CASE orientation = "portrait"        -> p
      [] orientation = "landscape_right" -> At(size.width - p.y, p.x)
      [] orientation = "landscape_left"  -> At(p.y, size.height - p.x)
      [] orientation = "upside_down"     -> At(size.width - p.x, size.height - p.y)

PortraitSize(orientation, size) ==
    IF orientation \in Landscapes
    THEN [width |-> size.height, height |-> size.width]
    ELSE size

OnScreen(p, size) == p.x \in 0..size.width /\ p.y \in 0..size.height
=============================================================================
