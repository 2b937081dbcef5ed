--------------------------------- MODULE KeyMap ---------------------------------
(***************************************************************************)
(* Typing as key events: idb/keymap.ts, and what IdbClient.typeText makes   *)
(* of a text.  A text is a sequence of characters; "backtick" is spelled    *)
(* out, being a comment to the parser.                                     *)
(***************************************************************************)
EXTENDS Integers, SequencesExt

HidKeyShift == 225

\* The table by runs of consecutive keys: the first keycode, and the characters.
Row(first, shift, characters) == [first |-> first, shift |-> shift, characters |-> characters]

Rows ==
    {Row(4, FALSE, <<"a", "b", "c", "d", "e", "f", "g", "h", "i", "j", "k", "l", "m", "n",
                     "o", "p", "q", "r", "s", "t", "u", "v", "w", "x", "y", "z", "1", "2",
                     "3", "4", "5", "6", "7", "8", "9", "0", "\n">>),
     Row(44, FALSE, <<" ", "-", "=", "[", "]", "\\">>),
     Row(51, FALSE, <<";", "'", "backtick", ",", ".", "/">>),
     Row(4, TRUE, <<"A", "B", "C", "D", "E", "F", "G", "H", "I", "J", "K", "L", "M", "N",
                    "O", "P", "Q", "R", "S", "T", "U", "V", "W", "X", "Y", "Z", "!", "@",
                    "#", "$", "%", "^", "&", "*", "(", ")">>),
     Row(45, TRUE, <<"_", "+", "{", "}", "|">>),
     Row(51, TRUE, <<":", "\"", "~", "<", ">", "?">>)}

\* Where a character stands: its row, and its place there.
Spots == UNION {{[row |-> row, at |-> i] : i \in DOMAIN row.characters} : row \in Rows}
CharacterAt(spot) == spot.row.characters[spot.at]
StrokeAt(spot) == [keycode |-> spot.row.first + spot.at - 1, shift |-> spot.row.shift]

Typeable == {CharacterAt(spot) : spot \in Spots}
SpotOf(c) == CHOOSE spot \in Spots : CharacterAt(spot) = c

KeyMap == [c \in Typeable |-> StrokeAt(SpotOf(c))]

UnmappedCharacters(text) == Range(text) \ Typeable

\* press() of a key, in one direction.
Key(keycode, direction) ==
    [kind |-> "key", keycode |-> keycode, direction |-> direction]

\* Fault: the shift is let go before the character that needs it.
StrokesUnshifted(c) ==
    LET stroke == KeyMap[c]
        press  == <<Key(stroke.keycode, "down"), Key(stroke.keycode, "up")>>
    IN  IF stroke.shift
        THEN <<Key(HidKeyShift, "down"), Key(HidKeyShift, "up")>> \o press
        ELSE press

\* The shift is held around the character that needs it.
Strokes(c) ==
    LET stroke == KeyMap[c]
        press  == <<Key(stroke.keycode, "down"), Key(stroke.keycode, "up")>>
    IN  IF stroke.shift
        THEN <<Key(HidKeyShift, "down")>> \o press \o <<Key(HidKeyShift, "up")>>
        ELSE press

KeyEvents(text) == FlattenSeq([i \in DOMAIN text |-> Strokes(text[i])])

(***************************************************************************)
(* The keyboard of the device, which gives a key down its meaning.          *)
(***************************************************************************)
NothingHeld == [held |-> {}, typed |-> <<>>]

CharacterOf(keycode, shift) ==
    CHOOSE c \in Typeable : KeyMap[c] = [keycode |-> keycode, shift |-> shift]

Press(keyboard, event) ==
    IF event.direction = "up"
    THEN [keyboard EXCEPT !.held = @ \ {event.keycode}]
    ELSE [held  |-> keyboard.held \cup {event.keycode},
          typed |-> IF event.keycode = HidKeyShift THEN keyboard.typed
                    ELSE Append(keyboard.typed,
                                CharacterOf(event.keycode, HidKeyShift \in keyboard.held))]
================================================================================
