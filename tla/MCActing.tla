-------------------------------- MODULE MCActing --------------------------------
(***************************************************************************)
(* TLC instances of Acting: three screens of a small device, and calls that  *)
(* turn or detect, read and act.  Lengths are half points.                  *)
(***************************************************************************)
EXTENDS Acting

Box(x, y, w, h) == [x |-> x, y |-> y, width |-> w, height |-> h]

Node(key, type, label, box) ==
  [key |-> key, parent |-> 1, type |-> type, label |-> label, id |-> <<>>, value |-> <<>>,
   subrole |-> "", traits |-> {}, enabled |-> TRUE, bridge |-> FALSE,
   frame |-> box, place |-> box]

In(parent, node) == [node EXCEPT !.parent = parent]
Named(id, node)  == [node EXCEPT !.id = id]
InBar(node)      == [node EXCEPT !.bridge = TRUE]
PlacedAt(box, node)   == [node EXCEPT !.place = box]
Switch(key, label, box, on) ==
  [Node(key, "Switch", label, box) EXCEPT !.value = IF key \in on THEN <<"1">> ELSE <<"0">>]

MCPortraitScreen == [width |-> 24, height |-> 40]
Whole == Box(0, 0, 24, 40)
App   == [Node("app", "Application", <<"App">>, Whole) EXCEPT !.parent = 0]

\* An alarm whose switch sits under the toolbar, and a status line in front of it
\* that names it.
Settings(on) ==
  <<App,
    Node("status", "StaticText", <<"Alarm", "=", IF "alarm" \in on THEN "on" ELSE "off">>,
         Box(2, 8, 16, 4)),
    Named(<<"Alarm", "Row">>, Switch("row", <<"Alarm", "Row">>, Box(2, 14, 20, 4), on)),
    Named(<<"Alarm">>, Switch("alarm", <<"Wake">>, Box(2, 2, 20, 4), on)),
    Named(<<"Night">>, Switch("night", <<"Night">>, Box(4, 34, 6, 4), on)),
    InBar(Node("bar", "Button", <<"Filter">>, Box(2, 32, 12, 8)))>>

\* A sheet of another process over the lower half, in coordinates of its own, in
\* front of a form whose upper half has a button where the sheet claims its own is.
Sheet(on) ==
  <<App,
    [Node("field", "TextField", <<"Password">>, Box(2, 12, 20, 4))
       EXCEPT !.traits = {"IsEditing", "SecureTextField"}],
    Node("login", "Button", <<"Login">>, Box(4, 2, 10, 6)),
    InBar(Node("window", "Group", <<>>, Box(0, 20, 24, 20))),
    InBar(In(4, PlacedAt(Box(0, 20, 24, 20), Node("host", "83", <<>>, Box(0, 0, 24, 20))))),
    Named(StrongPasswordSheetId,
          InBar(In(5, PlacedAt(Box(4, 22, 10, 6), Node("fill", "Button", <<"Fill">>, Box(4, 2, 10, 6))))))>>

\* A map with a pin in its centre, above which the map itself shows again, a
\* disabled button, and a switch that reports no frame.
Map(on) ==
  <<App,
    Node("map", "Image", <<"Map">>, Box(0, 12, 24, 24)),
    Node("pin", "Button", <<"Pin">>, Box(10, 22, 4, 4)),
    [Node("route", "Button", <<"Route">>, Box(14, 2, 8, 4)) EXCEPT !.enabled = FALSE],
    [Switch("traffic", <<"Traffic">>, Box(2, 2, 8, 4), on) EXCEPT !.frame = NoFrame]>>

MCScreenTree(screen, on) ==
  CASE screen = "settings" -> Settings(on)
    [] screen = "sheet"    -> Sheet(on)
    [] screen = "map"      -> Map(on)

MCScreens == {"settings", "sheet", "map"}

Tap(x, y)       == [op |-> "tap", at |-> At(x, y), count |-> 1]
ByName(label)   == [op |-> "named", label |-> label, plain |-> TRUE, count |-> 1]
Twice(label)    == [op |-> "named", label |-> label, plain |-> FALSE, count |-> 2]
Type(text)      == [op |-> "type", text |-> text]
Do(op)          == [op |-> op]
Home(held)      == [op |-> "button", held |-> held]
Swipe           == [op |-> "swipe", from |-> At(4, 4), to |-> At(4, 16)]
Point(x, y)     == [op |-> "point", at |-> At(x, y)]

MCBecomes(screen) ==
  CASE screen = "settings" -> {"sheet"}
    [] screen = "sheet"    -> {"settings"}
    [] screen = "map"      -> {}

\* What each call may ask for, on each screen.
MCRequests(c, screen) ==
  LET turning == {[op |-> "rotate", to |-> "landscape_left"], Do("detect")}
  IN  CASE screen = "settings" ->
             (CASE c = 1 -> turning
               [] c = 2 -> {Do("describe"), ByName(<<"Wake">>), Type(<<"a">>), Twice(<<"Wake">>)}
               [] c = 3 -> {ByName(<<"Night">>), Type(<<"B">>), Home(TRUE)})
        [] screen = "sheet" ->
             (CASE c = 1 -> {Do("detect"), Type(<<"a">>)}
               [] c = 2 -> {Point(6, 24), Twice(<<"Fill">>)}
               [] c = 3 -> {Do("shot"), ByName(<<"Fill">>)})
        [] screen = "map" ->
             (CASE c = 1 -> turning
               [] c = 2 -> {ByName(<<"Map">>), ByName(<<"Route">>)}
               [] c = 3 -> {Tap(6, 5), Swipe, ByName(<<"Traffic">>), Type(<<"a", "umlaut">>)})

\* The screens are of the kind that the theorems about names, points, orientations
\* and texts speak of.
ASSUME TheoremHypotheses ==
  IdsAreUnique /\ SheetsAreOverFields /\ NamesTell /\ PointsTell /\ ScreensTell
================================================================================
