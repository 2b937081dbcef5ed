----------------------------------- MODULE Wire -----------------------------------
(***************************************************************************)
(* What becomes of a message on its way between simgadget and the           *)
(* companion: it is encoded by one side (idb/generated/idb.ts; what the     *)
(* requests of idb/client.ts say in it), and read record by record by the   *)
(* other, whose schema may be an older or a newer one.                     *)
(*                                                                         *)
(* A record has the number of a field, how it is encoded, and what it       *)
(* holds: a scalar, or the records of a message.  Of the values of a scalar *)
(* only the default one matters to the encoding, and the one that does not  *)
(* fit a JavaScript number.  A field that may be undefined holds a sequence *)
(* of at most one value.                                                   *)
(***************************************************************************)
EXTENDS IdbMessages, Integers, SequencesExt

CONSTANTS
  MaxOddities,  \* bound on the records that the reader does not expect
  MaxDepth,     \* bound on how deep messages are nested
  Sendable,     \* for each depth, the messages that nest so deep, with their types
  Queries       \* what accessibilityInfo() is asked

VARIABLES
  sent,      \* the message that was encoded
  stack,     \* the calls of decode() in progress: innermost last
  oddities,  \* the records that the reader did not expect
  outcome

vars == <<sent, stack, oddities, outcome>>

Default == "default"
TooLarge == "beyond MAX_SAFE_INTEGER"

(***************************************************************************)
(* Encoding.                                                               *)
(***************************************************************************)
OfType(field, type) == IF field.kind = "itself" THEN type ELSE field.of
HoldsMessage(field) == field.kind \in {"message", "itself"}

\* createBase...(): what a message holds that has not been given anything.
CreateBase(type) ==
  [name \in {type[i].name : i \in DOMAIN type} |->
     IF \E i \in DOMAIN type : type[i].name = name /\ type[i].label = "singular"
     THEN Default ELSE <<>>]

Record(field, holds) ==
  [number |-> field.number, wire |-> field.wire, holds |-> holds,
   nested |-> HoldsMessage(field)]

\* The entries of a map, each with its key, in the order in which they are visited.
Entries(map) ==
  LET keys == SetToSeq(DOMAIN map)
  IN  [k \in DOMAIN keys |-> [key |-> keys[k], value |-> map[keys[k]]]]

\* What is written of a field, a record each.  Fault: a value is left out that is
\* absent or the default alike.
WrittenSparsely(field, value) ==
  CASE field.label = "singular" -> IF value = Default THEN <<>> ELSE <<value>>
    [] field.label = "packed"   -> <<value>>
    [] field.label = "map"      -> Entries(value)
    [] OTHER -> IF HoldsMessage(field) THEN value ELSE SelectSeq(value, LAMBDA v : v # Default)

Written(field, value) ==
  CASE field.label = "singular" -> IF value = Default THEN <<>> ELSE <<value>>
    [] field.label = "packed"   -> <<value>>
    [] field.label = "map"      -> Entries(value)
    [] OTHER -> value

\* All that is written of a message, field by field.
Pieces(type, message) ==
  FlattenSeq([i \in DOMAIN type |->
    LET written == Written(type[i], message[type[i].name])
    IN  [k \in DOMAIN written |-> [field |-> type[i], part |-> written[k]]]])

\* A message, with its type, that may be sent, alone or inside another.
UpTo(depth) == UNION {Sendable[d] : d \in 0 .. depth}
Everything == UpTo(MaxDepth)

\* The records of a message, given those of the messages inside.
Records(inside, m) ==
  LET pieces == Pieces(m[1], m[2])
      Holds(field, part) == IF HoldsMessage(field) THEN inside[<<OfType(field, m[1]), part>>] ELSE part
  IN  [j \in DOMAIN pieces |-> Record(pieces[j].field, Holds(pieces[j].field, pieces[j].part))]

Encode[m \in Everything] == Records(Encode, m)

(***************************************************************************)
(* What the client asks: IdbClient.accessibilityInfo.                       *)
(***************************************************************************)
MarkerDefaultDepth == "other"

\* A query by marker searches below the root.  Fault: only where its caller says so.
DepthAsAsked(query) == IF query.depth = <<>> THEN Default ELSE query.depth[1]
Depth(query) ==
  IF query.marker # <<>> /\ query.depth \in {<<>>, <<Default>>} THEN MarkerDefaultDepth
  ELSE IF query.depth = <<>> THEN Default ELSE query.depth[1]

OrDefault(optional) == IF optional = <<>> THEN Default ELSE optional[1]

\* fromPartial() of the query; the format is NESTED unless another is asked for.
InfoRequest(query) ==
  [CreateBase(AccessibilityInfoRequest) EXCEPT
     !.point = query.point, !.format = "other", !.marker = OrDefault(query.marker),
     !.depth = Depth(query), !.keys = query.keys]

(***************************************************************************)
(* What is sent: a message that fits its type, and is inside of nothing     *)
(* that is inside of it; of no type two fields have the same name or number. *)
(***************************************************************************)
IsList(s) == Len(s) \in Nat /\ s = [k \in 1 .. Len(s) |-> s[k]]
IsOptional(s) == IsList(s) /\ Len(s) <= 1
IsMap(f) == IsFiniteSet(DOMAIN f) /\ f = [k \in DOMAIN f |-> f[k]]

Unassigned == 99  \* a number that no field has

IsField(field) ==
  /\ field.number # Unassigned /\ field.wire # "end group"
  /\ HoldsMessage(field) => field.wire = "delimited" /\ field.label \in {"optional", "repeated", "map"}
  /\ field.label = "packed" => field.wire = "delimited"
  /\ field.label = "map" => HoldsMessage(field)
  /\ field.label \in {"singular", "optional", "repeated", "packed", "map"}

IsType(type) ==
  /\ IsList(type)
  /\ \A i \in DOMAIN type : IsField(type[i])
  /\ \A i, j \in DOMAIN type :
       type[i].number = type[j].number \/ type[i].name = type[j].name => i = j

Fits(field, value) ==
  CASE field.label = "singular" -> TRUE
    [] field.label = "optional" -> IsOptional(value)
    [] field.label = "map"      -> IsMap(value)
    [] OTHER -> IsList(value)

IsMessage(type, message) ==
  /\ message = [name \in {type[i].name : i \in DOMAIN type} |-> message[name]]
  /\ \A i \in DOMAIN type : Fits(type[i], message[type[i].name])

\* What a message that nests so deep is made of.
IsMadeOf(type, message, depth) ==
  \A i \in DOMAIN type :
    LET written == Written(type[i], message[type[i].name])
    IN  \A k \in DOMAIN written :
          IF HoldsMessage(type[i])
          THEN \E d \in 0 .. depth - 1 : <<OfType(type[i], type), written[k]>> \in Sendable[d]
          ELSE written[k] # TooLarge

ASSUME SendableAssumption ==
  /\ MaxDepth \in Nat
  /\ \A depth \in 0 .. MaxDepth : \A m \in Sendable[depth] :
       /\ m = <<m[1], m[2]>>
       /\ IsType(m[1]) /\ IsMessage(m[1], m[2]) /\ IsMadeOf(m[1], m[2], depth)

IsQuery(query) == IsOptional(query.marker) /\ IsOptional(query.depth)

ASSUME QueriesAssumption ==
  \A query \in Queries :
    IsQuery(query) /\ <<AccessibilityInfoRequest, InfoRequest(query)>> \in Everything

Exchanged == UNION {{Service[rpc].request, Service[rpc].response} : rpc \in DOMAIN Service}

Messages(type) ==
  IF type = AccessibilityInfoRequest THEN {InfoRequest(query) : query \in Queries}
  ELSE {m[2] : m \in {n \in Everything : n[1] = type}}

(***************************************************************************)
(* Reading: one turn of the loop of decode().                               *)
(***************************************************************************)
Frame(type, left, into) ==
  [type |-> type, left |-> left, read |-> CreateBase(type), into |-> into]

NoField == [name |-> ""]

Init ==
  \E type \in Exchanged :
    /\ sent \in Messages(type)
    /\ stack = <<Frame(type, Encode[<<type, sent>>], NoField)>>
    /\ oddities = <<>>
    /\ outcome = "reading"

Top == Last(stack)
Reading == outcome = "reading"

\* The fields that a record is read into: those of its number, if the encoding is
\* theirs; numbers may also come one by one.
Fields(type, record) ==
  {i \in DOMAIN type :
     /\ type[i].number = record.number
     /\ \/ type[i].wire = record.wire
        \/ type[i].label = "packed" /\ record.wire = "varint"}

FieldOf(type, record) == type[CHOOSE i \in Fields(type, record) : TRUE]

\* The last value of a field is the one that is kept, whole; those of a repeated
\* one are collected, and the entries of a map.
Store(field, message, value, wire) ==
  CASE field.label = "singular" -> [message EXCEPT ![field.name] = value]
    [] field.label = "optional" -> [message EXCEPT ![field.name] = <<value>>]
    [] field.label = "repeated" -> [message EXCEPT ![field.name] = Append(@, value)]
    [] field.label = "packed"   ->
         [message EXCEPT ![field.name] = IF wire = "delimited" THEN @ \o value ELSE Append(@, value)]
    [] field.label = "map"      ->
         [message EXCEPT ![field.name] =
            [key \in DOMAIN @ \cup {value.key} |-> IF key = value.key THEN value.value ELSE @[key]]]

\* Drops the record that is read, and updates what has been read.
After(read) == [stack EXCEPT ![Len(stack)].left = Tail(@), ![Len(stack)].read = read]

Expected(nested) ==
  /\ Reading /\ Top.left # <<>> /\ Fields(Top.type, Head(Top.left)) # {}
  /\ HoldsMessage(FieldOf(Top.type, Head(Top.left))) = nested

\* Fault: a number that does not fit is rounded.
ReadScalarRounding ==
  /\ Expected(FALSE) /\ ~Head(Top.left).nested
  /\ LET record == Head(Top.left)
         field  == FieldOf(Top.type, record)
     IN  stack' = After(Store(field, Top.read, IF record.holds = TooLarge THEN "other" ELSE record.holds,
                              record.wire))
  /\ UNCHANGED <<sent, oddities, outcome>>

ReadScalar ==
  /\ Expected(FALSE) /\ ~Head(Top.left).nested
  /\ LET record == Head(Top.left)
         field  == FieldOf(Top.type, record)
     IN  /\ record.holds # TooLarge
         /\ stack' = After(Store(field, Top.read, record.holds, record.wire))
  /\ UNCHANGED <<sent, oddities, outcome>>

\* longToNumber() throws.
RefuseNumber ==
  /\ Expected(FALSE) /\ ~Head(Top.left).nested
  /\ FieldOf(Top.type, Head(Top.left)).kind = "uint64" /\ Head(Top.left).holds = TooLarge
  /\ outcome' = "threw"
  /\ UNCHANGED <<sent, stack, oddities>>

EnterMessage ==
  /\ Expected(TRUE) /\ Head(Top.left).nested
  /\ LET record == Head(Top.left)
         field  == FieldOf(Top.type, record)
     IN  stack' = Append(After(Top.read),
                         Frame(OfType(field, Top.type), record.holds, field))
  /\ UNCHANGED <<sent, oddities, outcome>>

\* The bytes of a text are read as those of a message, or the other way around:
\* whatever comes of it.
Misread ==
  /\ \E nested \in BOOLEAN : Expected(nested) /\ Head(Top.left).nested # nested
  /\ outcome' = "garbled"
  /\ UNCHANGED <<sent, stack, oddities>>

\* decode() of an inner message returns, leaving what it did not read to the outer.
Leaves(unread) ==
  LET outer == Front(stack)
      into  == Last(outer)
  IN  /\ stack' = [outer EXCEPT ![Len(outer)] =
                     [into EXCEPT !.read = Store(Top.into, @, Top.read, "delimited"),
                                  !.left = unread \o @]]
      /\ UNCHANGED outcome

LeaveMessage ==
  /\ Reading /\ Len(stack) > 1 /\ Top.left = <<>>
  /\ Leaves(<<>>)
  /\ UNCHANGED <<sent, oddities>>

Finish ==
  /\ Reading /\ Len(stack) = 1 /\ Top.left = <<>>
  /\ outcome' = "read"
  /\ UNCHANGED <<sent, stack, oddities>>

\* The end of a group ends the message, wherever it is met.
StopAtGroup ==
  /\ Reading /\ Top.left # <<>> /\ Head(Top.left).wire = "end group"
  /\ IF Len(stack) > 1 THEN Leaves(Tail(Top.left)) ELSE outcome' = "read" /\ UNCHANGED stack
  /\ UNCHANGED <<sent, oddities>>

\* A record that is of no field, or encoded otherwise, is skipped.
Skip ==
  /\ Reading /\ Top.left # <<>> /\ Fields(Top.type, Head(Top.left)) = {}
  /\ Head(Top.left).wire # "end group"
  /\ stack' = After(Top.read)
  /\ UNCHANGED <<sent, oddities, outcome>>

(***************************************************************************)
(* The other side has another schema: a field more, a field of another      *)
(* encoding, a group; or sends what does not fit.                           *)
(***************************************************************************)
Odd(type) ==
  [number : {Unassigned}, wire : {"varint", "fixed64", "delimited", "end group"},
   holds : {"other"}, nested : {FALSE}]
    \cup {[number |-> type[i].number, holds |-> "other", nested |-> FALSE,
           wire |-> IF type[i].wire = "fixed64" THEN "varint" ELSE "fixed64"] : i \in DOMAIN type}
    \cup {Record(type[i], TooLarge) : i \in {j \in DOMAIN type : type[j].kind = "uint64"}}

OddRecord ==
  /\ Reading /\ Len(oddities) < MaxOddities
  /\ \E record \in Odd(Top.type) :
       /\ stack' = [stack EXCEPT ![Len(stack)].left = <<record>> \o @]
       /\ oddities' = Append(oddities, record)
  /\ UNCHANGED <<sent, outcome>>
--------------------------------------------------------------------------------
Next ==
  \/ ReadScalar \/ RefuseNumber \/ EnterMessage \/ Misread \/ LeaveMessage
  \/ Finish \/ StopAtGroup \/ Skip \/ OddRecord

Spec == Init /\ [][Next]_vars
--------------------------------------------------------------------------------
\* Whatever else a message holds that the reader does not know, what is read is what was
\* sent; and a number that does not fit is refused, whichever message holds it and
\* however deep, and nothing else is: decode() neither returns without having refused it
\* nor throws when there is none.  A group that the reader does not know is the
\* exception: it ends the message in which it is met (idb.ts:4239).
RoundTrip ==
  (\A k \in DOMAIN oddities : oddities[k].wire # "end group") =>
    /\ outcome = "read" => stack[1].read = sent /\ \A k \in DOMAIN oddities : oddities[k].holds # TooLarge
    /\ outcome = "threw" => \E k \in DOMAIN oddities : oddities[k].holds = TooLarge

\* A query by a marker that is not empty arrives as one, and never looks at the root
\* alone, where it would report a control of any app as missing.
MarkerQueriesSearch ==
  outcome = "read" /\ oddities = <<>> /\ stack[1].type = AccessibilityInfoRequest =>
    (stack[1].read.marker # Default => stack[1].read.depth # Default)
================================================================================
