--------------------------------- MODULE MCWire ---------------------------------
(***************************************************************************)
(* The messages of every RPC with one field given at a time, all the way    *)
(* down, and every combination of the options of accessibilityInfo().       *)
(***************************************************************************)
EXTENDS Wire, TLC

Scalars == {Default, "other"}

RECURSIVE Types(_), Samples(_), HowDeep(_, _)

\* A type and those of the messages inside.
Types(type) ==
  {type} \cup UNION {Types(type[i].of) : i \in {j \in DOMAIN type : type[j].kind = "message"}}

IsEntry(type) == {type[i].name : i \in DOMAIN type} = {"key", "value"}

Samples(type) ==
  {CreateBase(type)} \cup
  (IF IsEntry(type) THEN [key : Scalars, value : Scalars] ELSE {}) \cup
  UNION {
    LET field  == type[i]
        inside == IF field.kind = "itself" THEN {CreateBase(type)} ELSE Samples(field.of)
        values ==
          CASE field.label = "singular" -> {"other"}
            [] field.label = "map"      -> {(k :> v) : k, v \in Scalars}
            [] field.label = "optional" -> IF HoldsMessage(field) THEN {<<m>> : m \in inside}
                                           ELSE {<<v>> : v \in Scalars}
            [] OTHER -> IF HoldsMessage(field)
                        THEN {<<m>> : m \in inside} \cup {<<m, CreateBase(OfType(field, type))>> : m \in inside}
                        ELSE {<<v, w>> : v, w \in Scalars}
    IN  {[CreateBase(type) EXCEPT ![field.name] = value] : value \in values}
    : i \in DOMAIN type}

\* How deep a message nests.
HowDeep(type, message) ==
  LET pieces == Pieces(type, message)
      inside == {pieces[j] : j \in {k \in DOMAIN pieces : HoldsMessage(pieces[k].field)}}
      depths == {1 + HowDeep(OfType(piece.field, type), piece.part) : piece \in inside}
  IN  CHOOSE d \in depths \cup {0} : \A e \in depths : e <= d

MCQueries ==
  [point : {<<>>} \cup {<<m>> : m \in Samples(Point)}, marker : {<<>>, <<Default>>, <<"other">>},
   depth : {<<>>, <<Default>>, <<"other">>}, keys : {<<>>, <<"other">>}]

All ==
  UNION {{<<type, m>> : m \in Samples(type)} : type \in UNION {Types(t) : t \in Exchanged}}
    \cup {<<AccessibilityInfoRequest, InfoRequest(query)>> : query \in MCQueries}

Deep == 4
MCSendable ==
  LET all == All
  IN  [d \in 0 .. Deep |-> {m \in all : HowDeep(m[1], m[2]) = d}]

ASSUME NothingIsLeftOut == \A m \in All : HowDeep(m[1], m[2]) <= Deep
================================================================================
