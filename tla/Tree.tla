---------------------------------- MODULE Tree ----------------------------------
(***************************************************************************)
(* The accessibility tree: ax/tree.ts, ax/tap.ts and ax/input.ts.          *)
(*                                                                         *)
(* A tree is the sequence of its nodes in document order; every node names *)
(* its parent, an earlier one, and the first is the root.  A text is a     *)
(* sequence of words and marks; an absent one and an empty one are both    *)
(* <<>>, which the code never tells apart.  An absent frame is NoFrame.    *)
(***************************************************************************)
EXTENDS Geometry, Sequences, FiniteSets

CONSTANT NoFrame

Nodes(tree) == DOMAIN tree
HasFrame(node) == node.frame # NoFrame

\* Some of the indices of a tree, in document order.
Rank(indices, i) == Cardinality({j \in indices : j <= i})
InOrder(indices) ==
    [k \in 1 .. Cardinality(indices) |-> CHOOSE i \in indices : Rank(indices, i) = k]

(***************************************************************************)
(* Texts.                                                                  *)
(***************************************************************************)
Typography ==
    [curly_single |-> "'", curly_double |-> "\"", en_dash |-> "-", em_dash |-> "-"]

NormaliseForMatch(text) ==
    [i \in DOMAIN text |->
       IF text[i] \in DOMAIN Typography THEN Typography[text[i]] ELSE text[i]]

\* String.includes.
Includes(text, needle) ==
    \E at \in 0 .. Len(text) - Len(needle) :
        SubSeq(text, at + 1, at + Len(needle)) = needle

\* A value that is a number, which is no text.
IsNumber(value) == value # <<>> /\ value[1] = "number"
TextOf(value) == IF IsNumber(value) THEN <<>> ELSE value

(***************************************************************************)
(* One element.                                                            *)
(***************************************************************************)
ReconcileType(type, subrole) ==
    CASE subrole = "AXSearchField" -> "SearchField"
      [] subrole = "AXSwitch"      -> "Switch"
      [] subrole = "AXTabButton"   -> "Button"
      [] OTHER -> IF type = "Heading" THEN "StaticText" ELSE type

\* What a caller sees of a node: its subrole and its traits are dropped.
Canonicalise(node) == [node EXCEPT !.subrole = "", !.traits = {}]

\* A marker query and a point read have their own names for types.
Reconciled(node) ==
    Canonicalise([node EXCEPT !.type = ReconcileType(@, node.subrole)])

ActionableTypes ==
    {"Button", "Cell", "CheckBox", "ComboBox", "Link", "PopUpButton", "RadioButton",
     "ScrollBar", "SearchField", "SecureTextField", "Slider", "Stepper", "Switch",
     "TabButton", "TextArea", "TextField"}

ContainerTypes == {"Any", "Group", "Other", "Unknown"}

IsInteresting(node) ==
    \/ node.label # <<>>
    \/ TextOf(node.value) # <<>>
    \/ node.type \in ActionableTypes
    \/ node.id # <<>> /\ node.type \notin ContainerTypes

IsToggle(node) == node.type \in {"Switch", "CheckBox", "Toggle"} /\ node.value # <<>>

\* A node without a usable frame has no centre.
HasCentre(node) == HasFrame(node) /\ ~HasNoSize(node.frame)
CentreOfNode(node) == CentreOf(node.frame)

(***************************************************************************)
(* Remote-hosted views.                                                    *)
(***************************************************************************)
RemoteHostType == "83"

\* Frames measured from a hosting window are moved onto the screen, by where the
\* host's parent, already moved, says that the window is.
TranslateRemoteSubtrees(tree) ==
    LET moved[i \in 0 .. Len(tree)] ==
            \* the offset of node i's subtree, and the nearest frame down to i
            IF i = 0 THEN [by |-> At(0, 0), frame |-> NoFrame]
            ELSE LET up   == moved[tree[i].parent]
                     own  == tree[i].frame
                     by   == IF /\ tree[i].type = RemoteHostType
                                /\ own # NoFrame /\ up.frame # NoFrame
                                /\ SameSize(own, up.frame)
                             THEN At(up.frame.x - own.x, up.frame.y - own.y)
                             ELSE up.by
                 IN  [by |-> by,
                      frame |-> IF own = NoFrame THEN up.frame ELSE Shift(own, by)]
    IN  [i \in Nodes(tree) |->
           IF tree[i].frame = NoFrame THEN tree[i]
           ELSE [tree[i] EXCEPT !.frame = moved[i].frame]]

(***************************************************************************)
(* Pruning: the root and every interesting node, under their nearest kept  *)
(* ancestor, in document order.                                            *)
(***************************************************************************)
Kept(tree) == {i \in Nodes(tree) : i = 1 \/ IsInteresting(tree[i])}

KeptAncestor(tree, i) ==
    LET nearest[j \in 0 .. Len(tree)] ==
            IF j = 0 \/ j \in Kept(tree) THEN j ELSE nearest[tree[j].parent]
    IN  nearest[tree[i].parent]

PruneTree(tree) ==
    LET oldIndex == InOrder(Kept(tree))
    IN  [k \in DOMAIN oldIndex |->
           [Canonicalise(tree[oldIndex[k]]) EXCEPT
              !.parent = Rank(Kept(tree), KeptAncestor(tree, oldIndex[k]))]]

(***************************************************************************)
(* Lookup.                                                                 *)
(***************************************************************************)
LeastOf(indices) == CHOOSE i \in indices : \A j \in indices : i <= j

Matches(text, needle) ==
    text # <<>> /\ Includes(NormaliseForMatch(text), NormaliseForMatch(needle))

LabelHits(tree, needle) == {i \in Nodes(tree) : Matches(tree[i].label, needle)}
ValueHits(tree, needle) ==
    {i \in Nodes(tree) : Matches(TextOf(tree[i].value), needle)} \ LabelHits(tree, needle)
IdHits(tree, needle) ==
    {i \in Nodes(tree) : tree[i].id = needle}
      \ (LabelHits(tree, needle) \cup ValueHits(tree, needle))

\* An exact name beats a partial one, a control beats prose.
Score(node, needle) ==
    LET text == IF Matches(node.label, needle) THEN node.label ELSE TextOf(node.value)
    IN  (IF NormaliseForMatch(text) = NormaliseForMatch(needle) THEN 2 ELSE 0)
          + (IF node.type \in ActionableTypes THEN 1 ELSE 0)

Best(tree, hits, needle) ==
    LeastOf({i \in hits :
               \A j \in hits : Score(tree[j], needle) <= Score(tree[i], needle)})

\* The index of the element meant by a label, or 0.
MatchInTree(tree, needle) ==
    LET byLabel == LabelHits(tree, needle)
        byValue == ValueHits(tree, needle)
        byId    == IdHits(tree, needle)
    IN  IF byLabel # {} THEN Best(tree, byLabel, needle)
        ELSE IF byValue # {} THEN Best(tree, byValue, needle)
        ELSE IF byId # {} THEN LeastOf(byId)
        ELSE 0

\* The frame the tree gives an element that a point read found at p.
Identifies(wanted, node) ==
    IF wanted.id # <<>> THEN node.id = wanted.id
    ELSE wanted.label # <<>> /\ node.label = wanted.label

LocateInTree(tree, wanted, p) ==
    LET found == {i \in Nodes(tree) :
                    /\ HasFrame(wanted) /\ HasFrame(tree[i])
                    /\ Identifies(wanted, tree[i])
                    /\ SameSize(tree[i].frame, wanted.frame)
                    /\ FrameContains(tree[i].frame, p)}
    IN  IF found = {} THEN NoFrame ELSE tree[LeastOf(found)].frame

(***************************************************************************)
(* Probes of the orientation.                                              *)
(***************************************************************************)
CollectProbeCandidates(tree, size) ==
    {i \in Nodes(tree) :
       /\ HasFrame(tree[i]) /\ tree[i].label # <<>>
       /\ tree[i].frame.width # 0 /\ tree[i].frame.height # 0
       /\ tree[i].frame # [x |-> 0, y |-> 0, width |-> size.width, height |-> size.height]}

UniquelyLabelled(tree, candidates) ==
    {i \in candidates : \A j \in candidates : tree[j].label = tree[i].label => j = i}

(***************************************************************************)
(* Taps: ax/tap.ts.                                                        *)
(***************************************************************************)
DecideTapVerb(node, plain) ==
    IF ~node.enabled THEN "element-disabled"
    ELSE IF ~IsToggle(node) THEN "touch"
    ELSE IF plain THEN "activation" ELSE "toggle-needs-plain-tap"

SameName(a, b) ==
    \/ a.id # <<>> /\ a.id = b.id
    \/ a.label # <<>> /\ NormaliseForMatch(a.label) = NormaliseForMatch(b.label)

\* Whether what a point read found is the target, or something inside it.
HitTestReaches(target, atPoint) ==
    \/ SameName(target, atPoint)
    \/ /\ HasFrame(target) /\ HasFrame(atPoint)
       /\ Encloses(target.frame, atPoint.frame)

(***************************************************************************)
(* Typing: ax/input.ts.                                                    *)
(***************************************************************************)
EditingSecureField(tree) ==
    \E i \in Nodes(tree) : {"IsEditing", "SecureTextField"} \subseteq tree[i].traits
================================================================================
