------------------------------- MODULE WireProofs -------------------------------
(***************************************************************************)
(* What is read is what was sent, for messages of any types, of any depth,  *)
(* whatever records of another schema come between theirs.                  *)
(***************************************************************************)
EXTENDS Wire, FiniteSetTheorems, FunctionTheorems, SequenceTheorems, WellFoundedInduction, TLAPS

(***************************************************************************)
(* Induction over numbers, and what FlattenSeq computes.                    *)
(***************************************************************************)
LessOn == {r \in Nat \X Nat : r[1] < r[2]}

LEMMA LessIsWellFounded == IsWellFoundedOn(LessOn, Nat)
<1>1. OpToRel(<, Nat) = LessOn
  BY Zenon DEF OpToRel, LessOn
<1> QED
  BY <1>1, NatLessThanWellFounded

LEMMA LeastExists ==
  ASSUME NEW T \in SUBSET Nat, T # {}
  PROVE  \E x \in T : \A y \in T : x <= y
<1>1. \E x \in T : \A y \in T : <<y, x>> \notin LessOn
  BY LessIsWellFounded, WFMin
<1>2. \A x, y \in Nat : <<y, x>> \notin LessOn <=> x <= y
  BY DEF LessOn
<1> QED
  BY <1>1, <1>2

\* Induction, over a set of numbers.
LEMMA CountingUp ==
  ASSUME NEW n \in Nat, NEW T, 0 \in T, \A m \in 1 .. n : m - 1 \in T => m \in T
  PROVE  0 .. n \subseteq T
<1> DEFINE Rest == {m \in 0 .. n : m \notin T}
<1>1. ASSUME Rest # {} PROVE FALSE
  <2>1. PICK m \in Rest : \A k \in Rest : m <= k
    <3>1. Rest \in SUBSET Nat
      OBVIOUS
    <3> HIDE DEF Rest
    <3> QED
      BY <1>1, <3>1, LeastExists
  <2>2. m \in 1 .. n /\ m \notin T
    BY <2>1
  <2>3. m - 1 \in 0 .. n /\ m - 1 \notin Rest
    BY <2>1, <2>2
  <2> QED
    BY <2>2, <2>3
<1> QED
  BY <1>1

\* h tells what the first ones of some sequences make, put together.
Joins(seqs, n, h) ==
  /\ DOMAIN h = 0 .. n /\ h[0] = <<>>
  /\ \A i \in 1 .. n : h[i] = h[i - 1] \o seqs[i]

LEMMA JoinExists ==
  ASSUME NEW n \in Nat, NEW seqs
  PROVE  \E h : Joins(seqs, n, h)
<1> DEFINE T == {m \in 0 .. n : \E h : Joins(seqs, m, h)}
<1>1. 0 \in T
  <2>1. Joins(seqs, 0, [i \in 0 .. 0 |-> <<>>])
    BY DEF Joins
  <2> QED
    BY <2>1
<1>2. ASSUME NEW m \in 1 .. n, m - 1 \in T PROVE m \in T
  <2>1. PICK h : Joins(seqs, m - 1, h)
    BY <1>2
  <2> DEFINE more == [i \in 0 .. m |-> IF i = m THEN h[m - 1] \o seqs[m] ELSE h[i]]
  <2>2. Joins(seqs, m, more)
    <3>1. more[0] = <<>> /\ DOMAIN more = 0 .. m
      BY <2>1 DEF Joins
    <3>2. more[m] = more[m - 1] \o seqs[m]
      OBVIOUS
    <3>3. ASSUME NEW i \in 1 .. m - 1 PROVE more[i] = more[i - 1] \o seqs[i]
      <4>1. i \in 1 .. (m - 1) /\ i # m /\ i - 1 # m /\ i \in 0 .. m /\ i - 1 \in 0 .. m
        OBVIOUS
      <4>2. more[i] = h[i] /\ more[i - 1] = h[i - 1] /\ h[i] = h[i - 1] \o seqs[i]
        BY <2>1, <4>1 DEF Joins
      <4> QED
        BY <4>2
    <3>4. \A i \in 1 .. m : i = m \/ i \in 1 .. m - 1
      OBVIOUS
    <3> HIDE DEF more
    <3> QED
      BY <3>1, <3>2, <3>3, <3>4 DEF Joins
  <2> QED
    BY <2>2
<1> HIDE DEF T
<1>3. 0 .. n \subseteq T
  BY <1>1, <1>2, CountingUp
<1> QED
  BY <1>3 DEF T

LEMMA JoinIsFlattenSeq ==
  ASSUME NEW S, NEW n \in Nat, NEW seqs \in [1 .. n -> Seq(S)], NEW h, Joins(seqs, n, h)
  PROVE  /\ \A i \in 0 .. n : h[i] \in Seq(S)
         /\ FlattenSeq(seqs) = h[n]
<1>1. \A i \in 0 .. n : h[i] \in Seq(S)
  <2> DEFINE T == {m \in 0 .. n : h[m] \in Seq(S)}
  <2>1. 0 \in T
    <3>1. <<>> \in Seq(S) /\ h[0] = <<>>
      BY EmptySeq DEF Joins
    <3>2. 0 \in 0 .. n /\ h[0] \in Seq(S)
      BY ONLY <3>1, n \in Nat
    <3> QED
      BY ONLY <3>2 DEF T
  <2>2. ASSUME NEW m \in 1 .. n, m - 1 \in T PROVE m \in T
    <3>1. h[m - 1] \in Seq(S) /\ seqs[m] \in Seq(S) /\ h[m] = h[m - 1] \o seqs[m]
      BY <2>2 DEF Joins
    <3>2. h[m] \in Seq(S)
      BY <3>1, ConcatProperties
    <3> QED
      BY <3>2
  <2> HIDE DEF T
  <2>3. 0 .. n \subseteq T
    BY <2>1, <2>2, CountingUp
  <2> QED
    BY <2>3 DEF T
<1>2. CASE n = 0
  <2>1. Len(seqs) = 0 /\ seqs = <<>>
    BY <1>2
  <2>2. FlattenSeq(seqs) = seqs
    BY <2>1 DEF FlattenSeq
  <2> QED
    BY <1>1, <1>2, <2>1, <2>2 DEF Joins
<1>3. CASE n # 0
  <2> DEFINE Is(f) == f = [i \in 1 .. n |-> IF i = 1 THEN seqs[i] ELSE f[i - 1] \o seqs[i]]
             f == CHOOSE g : Is(g)
             part == [i \in 1 .. n |-> h[i]]
  <2>1. Len(seqs) = n
    OBVIOUS
  <2>2. FlattenSeq(seqs) = f[n]
    BY <1>3, <2>1 DEF FlattenSeq
  <2>3. Is(part)
    <3>1. h[1] = seqs[1]
      <4>0. 1 \in 1 .. n /\ 1 - 1 = 0
        BY <1>3
      <4>a. h[0] = <<>> /\ h[1] = h[1 - 1] \o seqs[1]
        BY <4>0 DEF Joins
      <4>1. h[1] = h[0] \o seqs[1] /\ h[0] = <<>> /\ seqs[1] \in Seq(S)
        BY <4>0, <4>a
      <4> QED
        BY <4>1, ConcatEmptySeq
    <3>2. ASSUME NEW i \in 1 .. n, i # 1 PROVE h[i] = part[i - 1] \o seqs[i]
      <4>0. h[i] = h[i - 1] \o seqs[i]
        BY DEF Joins
      <4>1. h[i] = h[i - 1] \o seqs[i] /\ i - 1 \in 1 .. n
        BY ONLY <4>0, <3>2, n \in Nat, i \in 1 .. n
      <4>2. part[i - 1] = h[i - 1]
        BY <4>1
      <4> QED
        BY <4>1, <4>2
    <3>3. \A i \in 1 .. n : h[i] = IF i = 1 THEN seqs[i] ELSE part[i - 1] \o seqs[i]
      <4> HIDE DEF part
      <4> QED
        BY <3>1, <3>2
    <3> QED
      BY <3>3
  <2>4. Is(f)
    <3> HIDE DEF Is, part
    <3> QED
      BY <2>3
  <2> HIDE DEF f
  <2>5. f[n] = h[n]
    <3> DEFINE T == {0} \cup {m \in 1 .. n : f[m] = h[m]}
    <3>1. 0 \in T
      OBVIOUS
    <3>2. ASSUME NEW m \in 1 .. n, m - 1 \in T PROVE m \in T
      <4>1. part[m] = h[m] /\ f[m] = (IF m = 1 THEN seqs[m] ELSE f[m - 1] \o seqs[m])
        BY <2>4
      <4>2. part[m] = (IF m = 1 THEN seqs[m] ELSE part[m - 1] \o seqs[m])
        BY <2>3
      <4>3. m # 1 => part[m - 1] = f[m - 1]
        BY <3>2
      <4> QED
        BY <4>1, <4>2, <4>3
    <3> HIDE DEF T
    <3>3. 0 .. n \subseteq T
      BY <3>1, <3>2, CountingUp
    <3> QED
      BY <1>3, <3>3 DEF T
  <2> QED
    BY <1>1, <2>2, <2>5
<1> QED
  BY <1>2, <1>3

--------------------------------------------------------------------------------
(***************************************************************************)
(* Lists: sequences whose elements need have nothing in common.             *)
(***************************************************************************)
LEMMA ListIsSeq ==
  ASSUME NEW s, IsList(s)
  PROVE  /\ s \in Seq({s[k] : k \in 1 .. Len(s)})
         /\ DOMAIN s = 1 .. Len(s) /\ Len(s) \in Nat
BY DEF IsList

LEMMA SeqIsList ==
  ASSUME NEW S, NEW s \in Seq(S)
  PROVE  IsList(s)
BY DEF IsList

LEMMA MakesList ==
  ASSUME NEW n \in Nat, NEW s, s = [k \in 1 .. n |-> s[k]]
  PROVE  IsList(s) /\ Len(s) = n
<1>1. s \in Seq({s[k] : k \in 1 .. n})
  OBVIOUS
<1> QED
  BY <1>1, SeqIsList

LEMMA EmptyList ==
  ASSUME NEW s, IsList(s)
  PROVE  s = <<>> <=> Len(s) = 0
BY ListIsSeq, EmptySeq

LEMMA NoList == IsList(<<>>) /\ Len(<<>>) = 0
<1>1. <<>> \in Seq({})
  OBVIOUS
<1> QED
  BY <1>1, SeqIsList

LEMMA ListsEqual ==
  ASSUME NEW s, NEW t, IsList(s), IsList(t), Len(s) = Len(t),
         \A k \in 1 .. Len(s) : s[k] = t[k]
  PROVE  s = t
BY DEF IsList

LEMMA TailOfList ==
  ASSUME NEW s, IsList(s), s # <<>>
  PROVE  /\ IsList(Tail(s)) /\ Len(Tail(s)) = Len(s) - 1
         /\ \A k \in 1 .. Len(s) - 1 : Tail(s)[k] = s[k + 1]
         /\ Head(s) = s[1]
<1> DEFINE S == {s[k] : k \in 1 .. Len(s)}
<1>1. s \in Seq(S)
  BY ListIsSeq
<1> HIDE DEF S
<1>2. /\ Tail(s) \in Seq(S) /\ Len(Tail(s)) = Len(s) - 1
      /\ \A k \in 1 .. Len(Tail(s)) : Tail(s)[k] = s[k + 1]
  BY <1>1, HeadTailProperties
<1>3. Head(s) = s[1]
  BY <1>1
<1> QED
  BY <1>2, <1>3, SeqIsList

LEMMA InFrontOfList ==
  ASSUME NEW s, NEW e, IsList(s)
  PROVE  /\ IsList(<<e>> \o s) /\ Len(<<e>> \o s) = Len(s) + 1
         /\ (<<e>> \o s)[1] = e
         /\ \A k \in 1 .. Len(s) : (<<e>> \o s)[k + 1] = s[k]
<1> DEFINE S == {s[k] : k \in 1 .. Len(s)} \cup {e}
<1>1. s \in Seq(S) /\ <<e>> \in Seq(S) /\ Len(<<e>>) = 1 /\ <<e>>[1] = e
  <2>1. s \in Seq({s[k] : k \in 1 .. Len(s)})
    BY ListIsSeq
  <2> QED
    BY <2>1, SeqMonotonic
<1> HIDE DEF S
<1>2. /\ <<e>> \o s \in Seq(S) /\ Len(<<e>> \o s) = 1 + Len(s)
      /\ \A k \in 1 .. 1 + Len(s) : (<<e>> \o s)[k] = IF k <= 1 THEN <<e>>[k] ELSE s[k - 1]
  BY <1>1, ConcatProperties
<1>3. Len(s) \in Nat
  BY DEF IsList
<1>4. \A k \in 1 .. Len(s) : (<<e>> \o s)[k + 1] = s[k]
  BY <1>2, <1>3
<1>5. (<<e>> \o s)[1] = e
  BY <1>1, <1>2, <1>3
<1>6. IsList(<<e>> \o s)
  BY <1>2, SeqIsList, Zenon
<1>7. Len(<<e>> \o s) = Len(s) + 1
  BY <1>2, <1>3
<1> QED
  BY <1>4, <1>5, <1>6, <1>7

LEMMA AppendToList ==
  ASSUME NEW s, NEW e, IsList(s)
  PROVE  /\ IsList(Append(s, e)) /\ Len(Append(s, e)) = Len(s) + 1
         /\ \A k \in 1 .. Len(s) : Append(s, e)[k] = s[k]
         /\ Append(s, e)[Len(s) + 1] = e
<1> DEFINE S == {s[k] : k \in 1 .. Len(s)} \cup {e}
<1>1. s \in Seq(S) /\ e \in S
  <2>1. s \in Seq({s[k] : k \in 1 .. Len(s)})
    BY ListIsSeq
  <2> QED
    BY <2>1, SeqMonotonic
<1> HIDE DEF S
<1>2. /\ Append(s, e) \in Seq(S) /\ Len(Append(s, e)) = Len(s) + 1
      /\ \A k \in 1 .. Len(s) : Append(s, e)[k] = s[k]
      /\ Append(s, e)[Len(s) + 1] = e
  BY <1>1
<1>3. IsList(Append(s, e))
  BY <1>2, SeqIsList
<1> QED
  BY <1>2, <1>3

--------------------------------------------------------------------------------
(***************************************************************************)
(* What is written of a message.                                           *)
(***************************************************************************)
\* An order of a finite set has each element once.
LEMMA OrderOfSet ==
  ASSUME NEW S, IsFiniteSet(S)
  PROVE  /\ SetToSeq(S) \in [1 .. Cardinality(S) -> S] /\ Cardinality(S) \in Nat
         /\ \A k, l \in 1 .. Cardinality(S) : SetToSeq(S)[k] = SetToSeq(S)[l] => k = l
         /\ \A e \in S : \E k \in 1 .. Cardinality(S) : SetToSeq(S)[k] = e
<1> DEFINE n == Cardinality(S)
           f == SetToSeq(S)
<1>1. n \in Nat /\ ExistsBijection(1 .. n, S)
  BY FS_CardinalityType
<1>2. PICK g \in Bijection(1 .. n, S) : TRUE
  BY <1>1, Fun_ExistsBij
<1>3. g \in [1 .. n -> S] /\ IsInjective(g)
  BY <1>2 DEF Bijection, Injection, IsInjective
<1>4. f \in [1 .. n -> S] /\ IsInjective(f)
  BY <1>3 DEF SetToSeq
<1>5. \A k, l \in 1 .. n : f[k] = f[l] => k = l
  BY <1>4 DEF IsInjective
<1>6. f \in Injection(1 .. n, S)
  BY <1>4, <1>5, Fun_IsInj
<1>7. Cardinality(1 .. n) = n
  BY <1>1, FS_Interval
<1>8. f \in Surjection(1 .. n, S)
  BY <1>6, <1>7, FS_Injection
<1>9. \A e \in S : \E k \in 1 .. n : f[k] = e
  BY <1>8 DEF Surjection
<1> QED
  BY <1>1, <1>4, <1>5, <1>9

\* What is written of the i-th field of a message.
Parts(t, m, i) == Written(t[i], m[t[i].name])

LEMMA EntriesAreListed ==
  ASSUME NEW f, IsMap(f)
  PROVE  /\ IsList(Entries(f)) /\ Len(Entries(f)) = Cardinality(DOMAIN f)
         /\ \A k \in 1 .. Len(Entries(f)) :
              Entries(f)[k] = [key |-> SetToSeq(DOMAIN f)[k], value |-> f[SetToSeq(DOMAIN f)[k]]]
<1> DEFINE keys == SetToSeq(DOMAIN f)
           n == Cardinality(DOMAIN f)
<1>1. DOMAIN keys = 1 .. n /\ n \in Nat
  BY OrderOfSet DEF IsMap
<1>2. Entries(f) = [k \in 1 .. n |-> [key |-> keys[k], value |-> f[keys[k]]]]
  BY <1>1 DEF Entries
<1> HIDE DEF keys, n
<1>3. Entries(f) = [k \in 1 .. n |-> Entries(f)[k]]
  BY <1>2
<1>4. IsList(Entries(f)) /\ Len(Entries(f)) = n
  BY <1>1, <1>3, MakesList
<1>5. \A k \in 1 .. n : Entries(f)[k] = [key |-> keys[k], value |-> f[keys[k]]]
  BY <1>2
<1> QED
  BY <1>4, <1>5 DEF keys, n

LEMMA SingletonList ==
  ASSUME NEW e
  PROVE  IsList(<<e>>) /\ Len(<<e>>) = 1 /\ <<e>>[1] = e
<1>1. <<e>> \in Seq({e}) /\ Len(<<e>>) = 1 /\ <<e>>[1] = e
  OBVIOUS
<1> QED
  BY <1>1, SeqIsList

LEMMA PartsAreListed ==
  ASSUME NEW t, NEW m, IsType(t), IsMessage(t, m), NEW i \in DOMAIN t
  PROVE  IsList(Parts(t, m, i)) /\ DOMAIN Parts(t, m, i) = 1 .. Len(Parts(t, m, i))
<1> DEFINE field == t[i]
           value == m[t[i].name]
<1>1. IsField(field) /\ Fits(field, value)
  BY DEF IsType, IsMessage
<1>2. Parts(t, m, i) = Written(field, value)
  BY DEF Parts
<1> HIDE DEF field, value
<1>3. IsList(Written(field, value))
  <2>1. CASE field.label = "singular"
    BY <2>1, NoList, SingletonList DEF Written
  <2>2. CASE field.label = "packed"
    BY <2>2, SingletonList DEF Written
  <2>3. CASE field.label = "map"
    BY <1>1, <2>3, EntriesAreListed DEF Written, Fits
  <2>4. CASE field.label \in {"optional", "repeated"}
    BY <1>1, <2>4 DEF Written, Fits, IsOptional
  <2> QED
    BY <1>1, <2>1, <2>2, <2>3, <2>4 DEF IsField
<1> QED
  BY <1>2, <1>3, ListIsSeq
\* All that is written is a part of some field.
IsPiece(t, m, piece) ==
  \E i \in DOMAIN t : \E k \in 1 .. Len(Parts(t, m, i)) :
    piece = [field |-> t[i], part |-> Parts(t, m, i)[k]]

PiecesOf(t, m) ==
  [i \in DOMAIN t |-> [k \in DOMAIN Parts(t, m, i) |-> [field |-> t[i], part |-> Parts(t, m, i)[k]]]]

LEMMA PiecesAreJoined ==
  ASSUME NEW t, NEW m, IsType(t), IsMessage(t, m),
         NEW h, Joins(PiecesOf(t, m), Len(t), h)
  PROVE  /\ Len(t) \in Nat /\ DOMAIN t = 1 .. Len(t)
         /\ \A i \in 0 .. Len(t) : IsList(h[i]) /\ \A j \in 1 .. Len(h[i]) : IsPiece(t, m, h[i][j])
         /\ Pieces(t, m) = h[Len(t)]
<1> DEFINE n == Len(t)
           S == {[field |-> t[i], part |-> Parts(t, m, i)[k]] :
                   i \in DOMAIN t, k \in UNION {1 .. Len(Parts(t, m, i)) : i \in DOMAIN t}}
           T == {piece \in S : IsPiece(t, m, piece)}
<1>1. n \in Nat /\ DOMAIN t = 1 .. n
  BY ListIsSeq DEF IsType
<1>2. \A i \in 1 .. n : /\ IsList(Parts(t, m, i)) /\ DOMAIN Parts(t, m, i) = 1 .. Len(Parts(t, m, i))
                        /\ Len(Parts(t, m, i)) \in Nat
  BY <1>1, PartsAreListed DEF IsList
<1>3. ASSUME NEW i \in 1 .. n, NEW k \in 1 .. Len(Parts(t, m, i))
      PROVE  [field |-> t[i], part |-> Parts(t, m, i)[k]] \in T
  <2>1. [field |-> t[i], part |-> Parts(t, m, i)[k]] \in S
    BY <1>1
  <2>2. IsPiece(t, m, [field |-> t[i], part |-> Parts(t, m, i)[k]])
    BY <1>1 DEF IsPiece
  <2> QED
    BY <2>1, <2>2
<1> HIDE DEF S
<1>4. \A piece \in T : IsPiece(t, m, piece)
  OBVIOUS
<1> HIDE DEF T
<1>5. ASSUME NEW i \in 1 .. n PROVE PiecesOf(t, m)[i] \in Seq(T)
  <2>1. PiecesOf(t, m)[i] =
          [k \in 1 .. Len(Parts(t, m, i)) |-> [field |-> t[i], part |-> Parts(t, m, i)[k]]]
    BY <1>1, <1>2 DEF PiecesOf
  <2> QED
    BY <1>2, <1>3, <2>1
<1>6. PiecesOf(t, m) \in [1 .. n -> Seq(T)]
  BY <1>1, <1>5 DEF PiecesOf
<1>7. (\A i \in 0 .. n : h[i] \in Seq(T)) /\ FlattenSeq(PiecesOf(t, m)) = h[n]
  BY <1>1, <1>6, JoinIsFlattenSeq
<1>8. Pieces(t, m) = FlattenSeq(PiecesOf(t, m))
  BY DEF Pieces, PiecesOf, Parts
<1>9. ASSUME NEW i \in 0 .. n
      PROVE  IsList(h[i]) /\ \A j \in 1 .. Len(h[i]) : IsPiece(t, m, h[i][j])
  BY <1>4, <1>7, SeqIsList, ElementOfSeq
<1> QED
  BY <1>1, <1>7, <1>8, <1>9

LEMMA PiecesAreListed ==
  ASSUME NEW t, NEW m, IsType(t), IsMessage(t, m)
  PROVE  /\ IsList(Pieces(t, m)) /\ DOMAIN Pieces(t, m) = 1 .. Len(Pieces(t, m))
         /\ Len(Pieces(t, m)) \in Nat
         /\ \A j \in 1 .. Len(Pieces(t, m)) : IsPiece(t, m, Pieces(t, m)[j])
<1>1. Len(t) \in Nat
  BY DEF IsType, IsList
<1>2. PICK h : Joins(PiecesOf(t, m), Len(t), h)
  BY <1>1, JoinExists
<1>3. IsList(Pieces(t, m)) /\ \A j \in 1 .. Len(Pieces(t, m)) : IsPiece(t, m, Pieces(t, m)[j])
  BY <1>1, <1>2, PiecesAreJoined
<1> QED
  BY <1>3, ListIsSeq

--------------------------------------------------------------------------------
(***************************************************************************)
(* Encode is what its definition says: there is such a function, as nothing *)
(* is inside of itself.                                                    *)
(***************************************************************************)
LEMMA Sent ==
  ASSUME NEW p \in Everything
  PROVE  /\ p = <<p[1], p[2]>> /\ IsType(p[1]) /\ IsMessage(p[1], p[2])
         /\ \E depth \in 0 .. MaxDepth : p \in Sendable[depth] /\ IsMadeOf(p[1], p[2], depth)
BY SendableAssumption DEF Everything, UpTo

LEMMA Insides ==
  ASSUME NEW depth \in 0 .. MaxDepth, NEW p \in Sendable[depth],
         NEW j \in DOMAIN Pieces(p[1], p[2])
  PROVE  LET piece == Pieces(p[1], p[2])[j]
         IN  /\ HoldsMessage(piece.field) =>
                  \E d \in 0 .. depth - 1 : <<OfType(piece.field, p[1]), piece.part>> \in Sendable[d]
             /\ ~HoldsMessage(piece.field) => piece.part # TooLarge
<1> DEFINE t == p[1]
           m == p[2]
           piece == Pieces(t, m)[j]
<1>1. IsType(t) /\ IsMessage(t, m) /\ IsMadeOf(t, m, depth)
  BY SendableAssumption
<1> HIDE DEF t, m
<1>2. PICK i \in DOMAIN t : \E k \in 1 .. Len(Parts(t, m, i)) :
        piece = [field |-> t[i], part |-> Parts(t, m, i)[k]]
  BY <1>1, PiecesAreListed DEF IsPiece, t, m
<1>3. PICK k \in DOMAIN Parts(t, m, i) : piece = [field |-> t[i], part |-> Parts(t, m, i)[k]]
  BY <1>1, <1>2, PartsAreListed
<1>4. IF HoldsMessage(t[i])
      THEN \E d \in 0 .. depth - 1 : <<OfType(t[i], t), Parts(t, m, i)[k]>> \in Sendable[d]
      ELSE Parts(t, m, i)[k] # TooLarge
  BY <1>1, <1>3 DEF IsMadeOf, Parts
<1>5. piece.field = t[i] /\ piece.part = Parts(t, m, i)[k]
  BY <1>3
<1> QED
  BY <1>4, <1>5 DEF t, m

\* Records looks at the messages inside only.
LEMMA SameInsides ==
  ASSUME NEW depth \in 0 .. MaxDepth, NEW p \in Sendable[depth], NEW f, NEW g,
         \A d \in 0 .. depth - 1 : \A q \in Sendable[d] : f[q] = g[q]
  PROVE  Records(f, p) = Records(g, p)
<1> DEFINE pieces == Pieces(p[1], p[2])
           Holds(a, j) == IF HoldsMessage(pieces[j].field)
                          THEN a[<<OfType(pieces[j].field, p[1]), pieces[j].part>>]
                          ELSE pieces[j].part
<1>1. \A j \in DOMAIN pieces : Holds(f, j) = Holds(g, j)
  BY Insides
<1>2. Records(f, p) = [j \in DOMAIN pieces |-> Record(pieces[j].field, Holds(f, j))]
  BY DEF Records
<1>3. Records(g, p) = [j \in DOMAIN pieces |-> Record(pieces[j].field, Holds(g, j))]
  BY DEF Records
<1> HIDE DEF pieces, Holds
<1> QED
  BY <1>1, <1>2, <1>3

LEMMA EncodeExists == \E f : f = [p \in Everything |-> Records(f, p)]
<1> DEFINE Upto(d) == UNION {Sendable[e] : e \in 0 .. d}
           T == {d \in 0 .. MaxDepth : \E f : f = [p \in Upto(d) |-> Records(f, p)]}
<1>0. MaxDepth \in Nat
  BY SendableAssumption
<1>1. 0 \in T
  <2> DEFINE f == [p \in Upto(0) |-> Records(<<>>, p)]
  <2>1. \A p \in Upto(0) : Records(f, p) = Records(<<>>, p)
    <3> SUFFICES ASSUME NEW p \in Upto(0) PROVE Records(f, p) = Records(<<>>, p)
      OBVIOUS
    <3> HIDE DEF f
    <3>1. p \in Sendable[0] /\ 0 \in 0 .. MaxDepth /\ 0 .. 0 - 1 = {}
      BY <1>0
    <3> QED
      BY <3>1, SameInsides
  <2>2. f = [p \in Upto(0) |-> Records(f, p)]
    BY <2>1
  <2> HIDE DEF f
  <2>3. \E e : e = [p \in Upto(0) |-> Records(e, p)]
    BY <2>2, Zenon
  <2> QED
    BY <1>0, <2>3
<1>2. ASSUME NEW d \in 1 .. MaxDepth, d - 1 \in T PROVE d \in T
  <2>1. PICK f : f = [p \in Upto(d - 1) |-> Records(f, p)]
    BY <1>2
  <2> DEFINE g == [p \in Upto(d) |-> Records(f, p)]
  <2>2. \A p \in Upto(d - 1) : f[p] = g[p]
    <3>1. Upto(d - 1) \subseteq Upto(d)
      OBVIOUS
    <3>2. \A p \in Upto(d - 1) : f[p] = Records(f, p)
      BY <2>1, Zenon
    <3> QED
      BY <3>1, <3>2
  <2>3. \A p \in Upto(d) : Records(g, p) = Records(f, p)
    <3> SUFFICES ASSUME NEW p \in Upto(d) PROVE Records(f, p) = Records(g, p)
      OBVIOUS
    <3> HIDE DEF g
    <3>1. PICK e \in 0 .. d : p \in Sendable[e]
      OBVIOUS
    <3>2. \A c \in 0 .. e - 1 : \A q \in Sendable[c] : f[q] = g[q]
      BY <2>2
    <3>3. e \in 0 .. MaxDepth
      BY <1>0
    <3> QED
      BY <3>1, <3>2, <3>3, SameInsides
  <2>4. g = [p \in Upto(d) |-> Records(g, p)]
    BY <2>3
  <2> HIDE DEF g
  <2>5. \E e : e = [p \in Upto(d) |-> Records(e, p)]
    BY <2>4, Zenon
  <2>6. d \in 0 .. MaxDepth
    BY <1>0
  <2> QED
    BY <2>5, <2>6
<1> HIDE DEF T
<1>3. 0 .. MaxDepth \subseteq T
  BY <1>0, <1>1, <1>2, CountingUp
<1>4. MaxDepth \in T
  BY <1>0, <1>3
<1> QED
  BY <1>4 DEF T, Everything, UpTo

LEMMA EncodeIsRecords ==
  ASSUME NEW p \in Everything
  PROVE  Encode[p] = Records(Encode, p)
<1> DEFINE Is(f) == f = [q \in Everything |-> Records(f, q)]
<1>1. Encode = CHOOSE f : Is(f)
  BY DEF Encode
<1>2. \E f : Is(f)
  BY EncodeExists
<1> HIDE DEF Is
<1>3. Is(Encode)
  BY <1>1, <1>2
<1> QED
  BY <1>3, Zenon DEF Is
LEMMA EncodedIsListed ==
  ASSUME NEW p \in Everything
  PROVE  /\ IsList(Encode[p]) /\ Len(Encode[p]) = Len(Pieces(p[1], p[2]))
         /\ \A j \in 1 .. Len(Encode[p]) :
              LET piece == Pieces(p[1], p[2])[j]
              IN  Encode[p][j] =
                    Record(piece.field, IF HoldsMessage(piece.field)
                                        THEN Encode[<<OfType(piece.field, p[1]), piece.part>>]
                                        ELSE piece.part)
<1> DEFINE pieces == Pieces(p[1], p[2])
           Holds(j) == IF HoldsMessage(pieces[j].field)
                       THEN Encode[<<OfType(pieces[j].field, p[1]), pieces[j].part>>]
                       ELSE pieces[j].part
           made == [j \in 1 .. Len(pieces) |-> Record(pieces[j].field, Holds(j))]
<1>1. DOMAIN pieces = 1 .. Len(pieces) /\ Len(pieces) \in Nat
  BY Sent, PiecesAreListed
<1>2. Encode[p] = made
  BY <1>1, EncodeIsRecords DEF Records
<1>3. \A j \in 1 .. Len(pieces) : made[j] = Record(pieces[j].field, Holds(j))
  OBVIOUS
<1>4. made = [j \in 1 .. Len(pieces) |-> made[j]]
  OBVIOUS
<1> HIDE DEF made
<1>5. IsList(made) /\ Len(made) = Len(pieces)
  BY <1>1, <1>4, MakesList
<1> HIDE DEF pieces, Holds
<1>6. \A j \in 1 .. Len(Encode[p]) : Encode[p][j] = Record(pieces[j].field, Holds(j))
  BY <1>2, <1>3, <1>5
<1>7. IsList(Encode[p]) /\ Len(Encode[p]) = Len(pieces)
  BY <1>2, <1>5
<1> QED
  BY <1>6, <1>7 DEF pieces, Holds

--------------------------------------------------------------------------------
(***************************************************************************)
(* Storing all that was written of a message gives the message.             *)
(***************************************************************************)
\* h tells what the first pieces make, stored one after the other.
Stores(t, pieces, n, h) ==
  /\ DOMAIN h = 0 .. n /\ h[0] = CreateBase(t)
  /\ \A j \in 1 .. n :
       h[j] = Store(pieces[j].field, h[j - 1], pieces[j].part, pieces[j].field.wire)

LEMMA StoresExists ==
  ASSUME NEW n \in Nat, NEW t, NEW pieces
  PROVE  \E h : Stores(t, pieces, n, h)
<1> DEFINE T == {m \in 0 .. n : \E h : Stores(t, pieces, m, h)}
           Put(was, j) == Store(pieces[j].field, was, pieces[j].part, pieces[j].field.wire)
<1>1. 0 \in T
  <2>1. Stores(t, pieces, 0, [i \in 0 .. 0 |-> CreateBase(t)])
    BY DEF Stores
  <2> QED
    BY <2>1
<1>2. ASSUME NEW m \in 1 .. n, m - 1 \in T PROVE m \in T
  <2>1. PICK h : Stores(t, pieces, m - 1, h)
    BY <1>2
  <2>2. \A i \in 1 .. m - 1 : h[i] = Put(h[i - 1], i)
    BY <2>1 DEF Stores
  <2>3. h[0] = CreateBase(t)
    BY <2>1 DEF Stores
  <2> HIDE DEF Put
  <2> DEFINE more == [i \in 0 .. m |-> IF i = m THEN Put(h[m - 1], m) ELSE h[i]]
  <2>4. more[0] = CreateBase(t) /\ DOMAIN more = 0 .. m
    BY <2>3
  <2>5. more[m] = Put(more[m - 1], m)
    OBVIOUS
  <2>6. ASSUME NEW i \in 1 .. m - 1 PROVE more[i] = Put(more[i - 1], i)
    <3>1. i \in 1 .. (m - 1) /\ i # m /\ i - 1 # m /\ i \in 0 .. m /\ i - 1 \in 0 .. m
      OBVIOUS
    <3>2. more[i] = h[i] /\ more[i - 1] = h[i - 1] /\ h[i] = Put(h[i - 1], i)
      BY <2>2, <3>1
    <3> QED
      BY <3>2
  <2>7. \A i \in 1 .. m : i = m \/ i \in 1 .. m - 1
    OBVIOUS
  <2> HIDE DEF more
  <2>8. \A i \in 1 .. m : more[i] = Put(more[i - 1], i)
    BY <2>5, <2>6, <2>7
  <2>9. Stores(t, pieces, m, more)
    BY <2>4, <2>8 DEF Stores, Put
  <2> QED
    BY <2>9
<1> HIDE DEF T
<1>3. 0 .. n \subseteq T
  BY <1>1, <1>2, CountingUp
<1> QED
  BY <1>3 DEF T

Base(field) == IF field.label = "singular" THEN Default ELSE <<>>

LEMMA CreateBaseIsBase ==
  ASSUME NEW t, IsType(t), NEW i \in DOMAIN t
  PROVE  CreateBase(t)[t[i].name] = Base(t[i])
BY DEF IsType, CreateBase, Base

\* What a field holds once the first k of what was written of it have been read.
Gathered(field, value, k) ==
  IF field.label = "map" THEN [x \in {SetToSeq(DOMAIN value)[l] : l \in 1 .. k} |-> value[x]]
  ELSE IF field.label = "repeated" THEN [l \in 1 .. k |-> value[l]]
  ELSE IF k = 0 THEN Base(field) ELSE value

LEMMA NothingGathered ==
  ASSUME NEW field, NEW value
  PROVE  Gathered(field, value, 0) = Base(field)
<1>1. 1 .. 0 = {}
  OBVIOUS
<1>2. <<>> = [l \in 1 .. 0 |-> value[l]]
  BY <1>1
<1>3. <<>> = [x \in {SetToSeq(DOMAIN value)[l] : l \in 1 .. 0} |-> value[x]]
  BY <1>1
<1> QED
  BY <1>2, <1>3 DEF Gathered, Base

LEMMA AllGathered ==
  ASSUME NEW field, NEW value, IsField(field), Fits(field, value)
  PROVE  Gathered(field, value, Len(Written(field, value))) = value
<1>1. CASE field.label = "map"
  <2>1. IsMap(value) /\ Written(field, value) = Entries(value)
    BY <1>1 DEF Fits, Written
  <2>2. Len(Entries(value)) = Cardinality(DOMAIN value)
    BY <2>1, EntriesAreListed
  <2>3. {SetToSeq(DOMAIN value)[l] : l \in 1 .. Cardinality(DOMAIN value)} = DOMAIN value
    <3> DEFINE keys == SetToSeq(DOMAIN value)
               n == Cardinality(DOMAIN value)
    <3>1. keys \in [1 .. n -> DOMAIN value] /\ \A e \in DOMAIN value : \E l \in 1 .. n : keys[l] = e
      BY <2>1, OrderOfSet DEF IsMap
    <3> HIDE DEF keys, n
    <3>2. {keys[l] : l \in 1 .. n} = DOMAIN value
      BY <3>1
    <3> QED
      BY <3>2 DEF keys, n
  <2>4. value = [x \in DOMAIN value |-> value[x]]
    BY <2>1 DEF IsMap
  <2> QED
    BY <1>1, <2>1, <2>2, <2>3, <2>4 DEF Gathered
<1>2. CASE field.label = "repeated"
  BY <1>2 DEF Fits, Written, Gathered, IsList
<1>3. CASE field.label = "packed"
  BY <1>3, SingletonList DEF Written, Gathered
<1>4. CASE field.label = "singular"
  BY <1>4, SingletonList, NoList DEF Written, Gathered, Base
<1>5. CASE field.label = "optional"
  <2>1. Written(field, value) = value /\ Len(value) \in Nat /\ IsList(value)
    BY <1>5 DEF Written, Fits, IsOptional, IsList
  <2>2. Len(value) = 0 => value = <<>>
    BY <2>1, EmptyList
  <2> QED
    BY <1>5, <2>1, <2>2 DEF Gathered, Base
<1> QED
  BY <1>1, <1>2, <1>3, <1>4, <1>5 DEF IsField

LEMMA StoreGathers ==
  ASSUME NEW field, NEW value, IsField(field), Fits(field, value),
         NEW k \in 1 .. Len(Written(field, value)),
         NEW read, field.name \in DOMAIN read,
         read = [name \in DOMAIN read |-> read[name]],
         read[field.name] = Gathered(field, value, k - 1)
  PROVE  LET next == Store(field, read, Written(field, value)[k], field.wire)
         IN  /\ next = [name \in DOMAIN read |-> next[name]]
             /\ next[field.name] = Gathered(field, value, k)
             /\ \A name \in DOMAIN read : name # field.name => next[name] = read[name]
<1> DEFINE part == Written(field, value)[k]
           next == Store(field, read, part, field.wire)
           Becomes(v) == next = [read EXCEPT ![field.name] = v]
<1>1. SUFFICES Becomes(Gathered(field, value, k))
  BY Zenon
<1>2. CASE field.label = "singular"
  <2>1. k = 1 /\ part = value
    BY <1>2, SingletonList, NoList DEF Written
  <2> QED
    BY <1>2, <2>1 DEF Store, Gathered
<1>3. CASE field.label = "optional"
  <2>1. IsList(value) /\ Len(value) <= 1 /\ part = value[k] /\ k \in 1 .. Len(value) /\ Len(value) \in Nat
    BY <1>3 DEF Written, Fits, IsOptional, IsList
  <2>2. k = 1 /\ Len(value) = 1
    <3> DEFINE n == Len(value)
    <3>1. n \in Nat /\ n <= 1 /\ k \in 1 .. n
      BY <2>1
    <3> HIDE DEF n
    <3>2. k = 1 /\ n = 1
      BY <3>1
    <3> QED
      BY <3>2 DEF n
  <2>3. <<part>> = value
    <3> HIDE DEF part
    <3>1. IsList(<<part>>) /\ Len(<<part>>) = 1 /\ <<part>>[1] = part
      BY SingletonList
    <3>2. \A l \in 1 .. 1 : l = 1
      OBVIOUS
    <3>3. \A l \in 1 .. Len(<<part>>) : <<part>>[l] = value[l]
      BY <2>1, <2>2, <3>1, <3>2
    <3> QED
      BY <2>1, <2>2, <3>1, <3>3, ListsEqual
  <2>4. Gathered(field, value, k) = value
    BY <1>3, <2>2 DEF Gathered
  <2> HIDE DEF part
  <2>5. Store(field, read, part, field.wire) = [read EXCEPT ![field.name] = <<part>>]
    BY <1>3 DEF Store
  <2> QED
    BY <2>3, <2>4, <2>5
<1>4. CASE field.label = "packed"
  <2>1. k = 1 /\ part = value /\ field.wire = "delimited" /\ IsList(value)
    <3>1. Written(field, value) = <<value>> /\ field.wire = "delimited" /\ IsList(value)
      BY <1>4 DEF Written, Fits, IsField
    <3>2. Len(<<value>>) = 1 /\ <<value>>[1] = value
      BY SingletonList
    <3> QED
      BY <3>1, <3>2
  <2>2. read[field.name] = <<>>
    BY <1>4, <2>1 DEF Gathered, Base
  <2>3. <<>> \o value = value
    BY <2>1, ListIsSeq, ConcatEmptySeq
  <2>4. Gathered(field, value, k) = value
    BY <1>4, <2>1 DEF Gathered
  <2> HIDE DEF part
  <2>5. Store(field, read, part, field.wire) = [read EXCEPT ![field.name] = @ \o part]
    BY <1>4, <2>1 DEF Store
  <2>6. read[field.name] \o part = value
    BY <2>1, <2>2, <2>3
  <2> QED
    BY <2>4, <2>5, <2>6
<1>5. CASE field.label = "repeated"
  <2>1. IsList(value) /\ part = value[k] /\ k \in 1 .. Len(value) /\ Len(value) \in Nat
    BY <1>5 DEF Written, Fits, IsList
  <2> DEFINE was == [l \in 1 .. k - 1 |-> value[l]]
             now == [l \in 1 .. k |-> value[l]]
  <2>2. read[field.name] = was /\ Gathered(field, value, k) = now
    BY <1>5 DEF Gathered
  <2>3. IsList(was) /\ Len(was) = k - 1 /\ IsList(now) /\ Len(now) = k
    <3>1. was = [l \in 1 .. k - 1 |-> was[l]] /\ now = [l \in 1 .. k |-> now[l]]
      OBVIOUS
    <3>2. k \in Nat /\ k - 1 \in Nat
      BY <2>1
    <3> HIDE DEF was, now
    <3> QED
      BY <3>1, <3>2, MakesList
  <2>4. Append(was, part) = now
    <3>1. /\ IsList(Append(was, part)) /\ Len(Append(was, part)) = k
          /\ \A l \in 1 .. k - 1 : Append(was, part)[l] = was[l]
          /\ Append(was, part)[k] = part
      <4> HIDE DEF was
      <4> QED
        BY <2>1, <2>3, AppendToList
    <3>2. \A l \in 1 .. k : l = k \/ l \in 1 .. k - 1
      BY <2>1
    <3>3. \A l \in 1 .. k : Append(was, part)[l] = now[l]
      BY <2>1, <3>1, <3>2
    <3> HIDE DEF was, now
    <3> QED
      BY <2>3, <3>1, <3>3, ListsEqual
  <2> HIDE DEF was, now
  <2> QED
    BY <1>5, <2>2, <2>4 DEF Store
<1>6. CASE field.label = "map"
  <2> DEFINE keys == SetToSeq(DOMAIN value)
             Had(n) == {keys[l] : l \in 1 .. n}
  <2>1. IsMap(value) /\ Written(field, value) = Entries(value)
    BY <1>6 DEF Fits, Written
  <2>2. part = [key |-> keys[k], value |-> value[keys[k]]]
    BY <2>1, EntriesAreListed
  <2>3. k \in Nat
    <3>1. Len(Entries(value)) \in Nat
      BY <2>1, EntriesAreListed DEF IsList
    <3> QED
      BY <2>1, <3>1
  <2>4. Had(k) = Had(k - 1) \cup {keys[k]}
    <3>1. \A l \in 1 .. k : l = k \/ l \in 1 .. k - 1
      BY <2>3
    <3>2. k \in 1 .. k /\ 1 .. k - 1 \subseteq 1 .. k
      BY <2>3
    <3> QED
      BY <3>1, <3>2
  <2>5. read[field.name] = [x \in Had(k - 1) |-> value[x]]
        /\ Gathered(field, value, k) = [x \in Had(k) |-> value[x]]
    BY <1>6 DEF Gathered
  <2> HIDE DEF keys, Had
  <2>6. [key \in DOMAIN read[field.name] \cup {part.key} |->
           IF key = part.key THEN part.value ELSE read[field.name][key]]
          = [x \in Had(k) |-> value[x]]
    BY <2>2, <2>4, <2>5
  <2> QED
    BY <1>6, <2>5, <2>6 DEF Store
<1> QED
  BY <1>2, <1>3, <1>4, <1>5, <1>6 DEF IsField
LEMMA JoinOfLists ==
  ASSUME NEW s, NEW u, IsList(s), IsList(u)
  PROVE  /\ Len(s \o u) = Len(s) + Len(u)
         /\ \A k \in 1 .. Len(s) : (s \o u)[k] = s[k]
         /\ \A k \in 1 .. Len(u) : (s \o u)[Len(s) + k] = u[k]
<1> DEFINE S == {s[k] : k \in 1 .. Len(s)} \cup {u[k] : k \in 1 .. Len(u)}
<1>1. s \in Seq(S) /\ u \in Seq(S)
  <2>1. s \in Seq({s[k] : k \in 1 .. Len(s)}) /\ u \in Seq({u[k] : k \in 1 .. Len(u)})
    BY ListIsSeq
  <2> QED
    BY <2>1, SeqMonotonic
<1> HIDE DEF S
<1>2. /\ Len(s \o u) = Len(s) + Len(u)
      /\ \A k \in 1 .. Len(s) + Len(u) : (s \o u)[k] = IF k <= Len(s) THEN s[k] ELSE u[k - Len(s)]
  BY <1>1, ConcatProperties
<1>3. Len(s) \in Nat /\ Len(u) \in Nat
  BY DEF IsList
<1> QED
  BY <1>2, <1>3

\* Where the pieces of a field are among all.
LEMMA PieceAt ==
  ASSUME NEW t, NEW m, IsType(t), IsMessage(t, m),
         NEW h, Joins(PiecesOf(t, m), Len(t), h), NEW i \in 1 .. Len(t)
  PROVE  /\ Len(h[i - 1]) \in Nat /\ Len(Parts(t, m, i)) \in Nat
         /\ Len(h[i]) = Len(h[i - 1]) + Len(Parts(t, m, i))
         /\ Len(h[i]) <= Len(Pieces(t, m))
         /\ \A k \in 1 .. Len(Parts(t, m, i)) :
              Pieces(t, m)[Len(h[i - 1]) + k] = [field |-> t[i], part |-> Parts(t, m, i)[k]]
<1> DEFINE n == Len(t)
           Own(f) == PiecesOf(t, m)[f]
<1>1. /\ n \in Nat /\ DOMAIN t = 1 .. n /\ \A f \in 0 .. n : IsList(h[f])
      /\ Pieces(t, m) = h[n]
  BY PiecesAreJoined
<1>2. \A f \in 0 .. n : Len(h[f]) \in Nat
  BY <1>1 DEF IsList
<1>3. ASSUME NEW f \in 1 .. n
      PROVE  /\ IsList(Own(f)) /\ Len(Own(f)) = Len(Parts(t, m, f)) /\ Len(Parts(t, m, f)) \in Nat
             /\ \A k \in 1 .. Len(Parts(t, m, f)) :
                  Own(f)[k] = [field |-> t[f], part |-> Parts(t, m, f)[k]]
  <2> DEFINE p == Len(Parts(t, m, f))
             own == [k \in 1 .. p |-> [field |-> t[f], part |-> Parts(t, m, f)[k]]]
  <2>1. p \in Nat /\ DOMAIN Parts(t, m, f) = 1 .. p
    BY <1>1, PartsAreListed DEF IsList
  <2>2. Own(f) = own
    BY <1>1, <2>1 DEF PiecesOf
  <2>3. own = [k \in 1 .. p |-> own[k]]
        /\ \A k \in 1 .. p : own[k] = [field |-> t[f], part |-> Parts(t, m, f)[k]]
    OBVIOUS
  <2> HIDE DEF own, Own, p
  <2>4. IsList(own) /\ Len(own) = p
    BY <2>1, <2>3, MakesList
  <2> QED
    BY <2>1, <2>2, <2>3, <2>4 DEF p
<1>4. \A f \in 1 .. n : h[f] = h[f - 1] \o Own(f)
  BY DEF Joins
<1> HIDE DEF Own
<1>5. ASSUME NEW f \in 1 .. n
      PROVE  /\ Len(h[f]) = Len(h[f - 1]) + Len(Own(f))
             /\ \A k \in 1 .. Len(h[f - 1]) : h[f][k] = h[f - 1][k]
             /\ \A k \in 1 .. Len(Own(f)) : h[f][Len(h[f - 1]) + k] = Own(f)[k]
  <2>1. f - 1 \in 0 .. n
    BY <1>1
  <2>2. IsList(h[f - 1]) /\ IsList(Own(f)) /\ h[f] = h[f - 1] \o Own(f)
    BY <1>1, <1>3, <1>4, <2>1
  <2>3. /\ Len(h[f - 1] \o Own(f)) = Len(h[f - 1]) + Len(Own(f))
        /\ \A k \in 1 .. Len(h[f - 1]) : (h[f - 1] \o Own(f))[k] = h[f - 1][k]
        /\ \A k \in 1 .. Len(Own(f)) : (h[f - 1] \o Own(f))[Len(h[f - 1]) + k] = Own(f)[k]
    <3> DEFINE s == h[f - 1]
               u == Own(f)
    <3>1. IsList(s) /\ IsList(u)
      BY <2>2
    <3> HIDE DEF s, u
    <3>2. /\ Len(s \o u) = Len(s) + Len(u)
          /\ \A k \in 1 .. Len(s) : (s \o u)[k] = s[k]
          /\ \A k \in 1 .. Len(u) : (s \o u)[Len(s) + k] = u[k]
      BY <3>1, JoinOfLists
    <3> QED
      BY <3>2 DEF s, u
  <2> QED
    BY <2>2, <2>3, Zenon
\* The first ones stay where they are.
<1>6. Len(h[i]) <= Len(h[n]) /\ \A k \in 1 .. Len(h[i]) : h[n][k] = h[i][k]
  <2> DEFINE T == {d \in 0 .. n - i : /\ Len(h[i]) <= Len(h[i + d])
                                      /\ \A k \in 1 .. Len(h[i]) : h[i + d][k] = h[i][k]}
  <2>0. n - i \in Nat /\ i \in 0 .. n /\ i \in Nat
    BY <1>1
  <2>1. 0 \in T
    BY <1>2, <2>0
  <2>2. ASSUME NEW d \in 1 .. n - i, d - 1 \in T PROVE d \in T
    <3> DEFINE f == i + d
    <3>1. f \in 1 .. n /\ f - 1 = i + (d - 1) /\ f - 1 \in 0 .. n
      BY <1>1, <2>0
    <3>2. Len(h[i]) <= Len(h[f - 1]) /\ \A k \in 1 .. Len(h[i]) : h[f - 1][k] = h[i][k]
      BY <2>2, <3>1
    <3> HIDE DEF f
    <3>3. Len(h[f - 1]) \in Nat /\ Len(h[i]) \in Nat /\ Len(Own(f)) \in Nat
      BY <1>2, <1>3, <2>0, <3>1
    <3>4. Len(h[i]) <= Len(h[f])
      BY <1>5, <3>1, <3>2, <3>3
    <3>5. \A k \in 1 .. Len(h[i]) : h[f][k] = h[i][k]
      BY <1>5, <3>1, <3>2, <3>3
    <3> QED
      BY <3>4, <3>5 DEF f
  <2> HIDE DEF T
  <2>3. 0 .. n - i \subseteq T
    BY <2>0, <2>1, <2>2, CountingUp
  <2>4. n - i \in T /\ i + (n - i) = n
    BY <2>0, <2>3, <1>1
  <2> QED
    BY <2>4 DEF T
<1>7. Len(h[i - 1]) \in Nat /\ Len(Own(i)) \in Nat /\ Len(h[i]) = Len(h[i - 1]) + Len(Own(i))
  BY <1>1, <1>2, <1>3, <1>5
<1>8. ASSUME NEW k \in 1 .. Len(Own(i)) PROVE h[n][Len(h[i - 1]) + k] = Own(i)[k]
  <2>1. Len(h[i - 1]) + k \in 1 .. Len(h[i])
    BY <1>7
  <2> QED
    BY <1>5, <1>6, <2>1
<1> QED
  BY <1>1, <1>3, <1>6, <1>7, <1>8

Names(t) == {t[i].name : i \in DOMAIN t}

\* r is what has been read of m once k pieces of the i-th field, and all before, have.
Partly(t, m, i, k, r) ==
  /\ DOMAIN r = Names(t) /\ r = [name \in DOMAIN r |-> r[name]]
  /\ \A f \in DOMAIN t :
       r[t[f].name] = IF f < i THEN m[t[f].name]
                      ELSE IF f = i THEN Gathered(t[f], m[t[f].name], k) ELSE Base(t[f])

LEMMA PartlyStores ==
  ASSUME NEW t, NEW m, IsType(t), IsMessage(t, m), NEW i \in DOMAIN t,
         NEW k \in 1 .. Len(Parts(t, m, i)), NEW r, Partly(t, m, i, k - 1, r)
  PROVE  Partly(t, m, i, k, Store(t[i], r, Parts(t, m, i)[k], t[i].wire))
<1> DEFINE field == t[i]
           value == m[t[i].name]
           next == Store(field, r, Written(field, value)[k], field.wire)
<1>1. IsField(field) /\ Fits(field, value)
  BY DEF IsType, IsMessage
<1>2. k \in 1 .. Len(Written(field, value))
  BY DEF Parts
<1>3. /\ field.name \in DOMAIN r /\ r = [name \in DOMAIN r |-> r[name]]
      /\ r[field.name] = Gathered(field, value, k - 1)
  <2>1. ~(i < i)
    BY DEF IsType, IsList
  <2> QED
    BY <2>1 DEF Partly, Names
<1>4. /\ next = [name \in DOMAIN r |-> next[name]]
      /\ next[field.name] = Gathered(field, value, k)
      /\ \A name \in DOMAIN r : name # field.name => next[name] = r[name]
  <2> HIDE DEF field, value
  <2> QED
    BY <1>1, <1>2, <1>3, StoreGathers
<1>5. next = Store(t[i], r, Parts(t, m, i)[k], t[i].wire)
  BY DEF Parts
<1> HIDE DEF next
<1>6. DOMAIN next = Names(t) /\ next = [name \in DOMAIN next |-> next[name]]
  <2>1. DOMAIN next = DOMAIN r
    BY <1>4
  <2> QED
    BY <1>4, <2>1 DEF Partly
<1>7. ASSUME NEW f \in DOMAIN t
      PROVE  next[t[f].name] = IF f < i THEN m[t[f].name]
                               ELSE IF f = i THEN Gathered(t[f], m[t[f].name], k) ELSE Base(t[f])
  <2>1. CASE f = i
    <3>1. ~(i < i)
      BY DEF IsType, IsList
    <3> QED
      BY <1>4, <2>1, <3>1
  <2>2. CASE f # i
    <3>1. t[f].name # t[i].name
      BY <2>2 DEF IsType
    <3>2. next[t[f].name] = r[t[f].name]
      BY <1>4, <3>1 DEF Partly, Names
    <3> QED
      BY <2>2, <3>2 DEF Partly
  <2> QED
    BY <2>1, <2>2
<1> QED
  BY <1>5, <1>6, <1>7 DEF Partly
LEMMA AllIsStored ==
  ASSUME NEW t, NEW m, IsType(t), IsMessage(t, m),
         NEW h, Stores(t, Pieces(t, m), Len(Pieces(t, m)), h)
  PROVE  h[Len(Pieces(t, m))] = m
<1> DEFINE n == Len(t)
           pieces == Pieces(t, m)
           p(i) == Len(Parts(t, m, i))
<1>1. n \in Nat /\ DOMAIN t = 1 .. n
  BY ListIsSeq DEF IsType
<1>2. PICK join : Joins(PiecesOf(t, m), n, join)
  BY <1>1, JoinExists
<1>3. \A i \in 1 .. n :
        /\ Len(join[i - 1]) \in Nat /\ p(i) \in Nat
        /\ Len(join[i]) = Len(join[i - 1]) + p(i) /\ Len(join[i]) <= Len(pieces)
        /\ \A k \in 1 .. p(i) : pieces[Len(join[i - 1]) + k] = [field |-> t[i], part |-> Parts(t, m, i)[k]]
  BY <1>2, PieceAt
<1>4. pieces = join[n] /\ join[0] = <<>>
  BY <1>2, PiecesAreJoined DEF Joins
<1> DEFINE at(i) == h[Len(join[i])]
           T == {i \in 0 .. n : Partly(t, m, i + 1, 0, at(i))}
<1>5. 0 \in T
  <2>1. at(0) = CreateBase(t)
    BY <1>4, NoList DEF Stores
  <2>2. DOMAIN CreateBase(t) = Names(t) /\ CreateBase(t) = [name \in DOMAIN CreateBase(t) |-> CreateBase(t)[name]]
    BY DEF CreateBase, Names
  <2>3. ASSUME NEW f \in DOMAIN t
        PROVE  /\ CreateBase(t)[t[f].name] = Base(t[f]) /\ ~(f < 0 + 1)
               /\ Gathered(t[f], m[t[f].name], 0) = Base(t[f])
    BY <1>1, CreateBaseIsBase, NothingGathered
  <2>4. Partly(t, m, 0 + 1, 0, CreateBase(t))
    BY <2>2, <2>3 DEF Partly
  <2> QED
    BY <1>1, <2>1, <2>4
<1>6. ASSUME NEW i \in 1 .. n, i - 1 \in T PROVE i \in T
  <2> DEFINE before == Len(join[i - 1])
             U == {k \in 0 .. p(i) : Partly(t, m, i, k, h[before + k])}
  <2>0. before \in Nat /\ p(i) \in Nat /\ before + p(i) = Len(join[i]) /\ Len(join[i]) <= Len(pieces)
        /\ Len(pieces) \in Nat /\ i \in DOMAIN t
    BY <1>1, <1>3, PiecesAreListed
  <2>1. 0 \in U
    <3>1. (i - 1) + 1 = i /\ before + 0 = before
      BY <2>0
    <3> QED
      BY <1>6, <2>0, <3>1
  <2>2. ASSUME NEW k \in 1 .. p(i), k - 1 \in U PROVE k \in U
    <3> DEFINE j == before + k
    <3>1. j \in 1 .. Len(pieces) /\ j - 1 = before + (k - 1)
      BY <2>0
    <3>2. Partly(t, m, i, k - 1, h[j - 1])
      BY <2>2, <3>1
    <3>3. pieces[j] = [field |-> t[i], part |-> Parts(t, m, i)[k]]
      BY <1>3
    <3>4. h[j] = Store(pieces[j].field, h[j - 1], pieces[j].part, pieces[j].field.wire)
      BY <3>1 DEF Stores
    <3>5. h[j] = Store(t[i], h[j - 1], Parts(t, m, i)[k], t[i].wire)
      BY <3>3, <3>4
    <3> HIDE DEF j
    <3>6. Partly(t, m, i, k, h[j])
      BY <2>0, <3>2, <3>5, PartlyStores
    <3> QED
      BY <3>6 DEF j
  <2> HIDE DEF U
  <2>3. 0 .. p(i) \subseteq U
    BY <2>0, <2>1, <2>2, CountingUp
  <2>4. Partly(t, m, i, p(i), at(i))
    <3>1. p(i) \in U
      BY <2>0, <2>3
    <3> QED
      BY <2>0, <3>1 DEF U
  <2>5. Partly(t, m, i + 1, 0, at(i))
    <3>1. ASSUME NEW f \in DOMAIN t
          PROVE  at(i)[t[f].name] = IF f < i + 1 THEN m[t[f].name]
                                    ELSE IF f = i + 1 THEN Gathered(t[f], m[t[f].name], 0) ELSE Base(t[f])
      <4>0. f \in Nat /\ i \in Nat
        BY <1>1
      <4>1. CASE f < i
        BY <2>4, <4>0, <4>1 DEF Partly
      <4>2. CASE f = i
        <5>1. IsField(t[i]) /\ Fits(t[i], m[t[i].name])
          BY <2>0 DEF IsType, IsMessage
        <5>2. Gathered(t[i], m[t[i].name], p(i)) = m[t[i].name]
          BY <5>1, AllGathered DEF Parts
        <5>3. at(i)[t[f].name] = Gathered(t[i], m[t[i].name], p(i))
          BY <2>4, <4>0, <4>2 DEF Partly
        <5> QED
          BY <4>0, <4>2, <5>2, <5>3
      <4>3. CASE i < f
        <5>1. at(i)[t[f].name] = Base(t[f])
          BY <2>4, <4>0, <4>3 DEF Partly
        <5>2. Gathered(t[f], m[t[f].name], 0) = Base(t[f])
          BY NothingGathered
        <5> QED
          BY <4>0, <4>3, <5>1, <5>2
      <4> QED
        BY <4>0, <4>1, <4>2, <4>3
    <3>2. DOMAIN at(i) = Names(t) /\ at(i) = [name \in DOMAIN at(i) |-> at(i)[name]]
      BY <2>4 DEF Partly
    <3> QED
      BY <3>1, <3>2 DEF Partly
  <2> QED
    BY <2>5
<1> HIDE DEF T
<1>7. 0 .. n \subseteq T
  BY <1>1, <1>5, <1>6, CountingUp
<1>8. Partly(t, m, n + 1, 0, at(n))
  <2>1. n \in T
    BY <1>1, <1>7
  <2> QED
    BY <2>1 DEF T
<1>9. at(n) = m
  <2>1. DOMAIN m = Names(t) /\ m = [name \in DOMAIN m |-> m[name]]
    BY DEF IsMessage, Names
  <2>2. ASSUME NEW f \in DOMAIN t PROVE at(n)[t[f].name] = m[t[f].name]
    <3>1. f < n + 1
      BY <1>1
    <3> QED
      BY <1>8, <3>1 DEF Partly
  <2>3. DOMAIN at(n) = Names(t) /\ at(n) = [name \in DOMAIN at(n) |-> at(n)[name]]
    BY <1>8 DEF Partly
  <2>4. \A name \in Names(t) : at(n)[name] = m[name]
    BY <2>2 DEF Names
  <2> HIDE DEF at
  <2> QED
    BY <2>1, <2>3, <2>4
<1> QED
  BY <1>4, <1>9
\* What has been read of m when j records of it have.
ReadAfter(t, m, j) ==
  (CHOOSE h : Stores(t, Pieces(t, m), Len(Pieces(t, m)), h))[j]

LEMMA ReadAfterIs ==
  ASSUME NEW t, NEW m, IsType(t), IsMessage(t, m)
  PROVE  /\ ReadAfter(t, m, 0) = CreateBase(t)
         /\ \A j \in 1 .. Len(Pieces(t, m)) :
              LET piece == Pieces(t, m)[j]
              IN  ReadAfter(t, m, j) =
                    Store(piece.field, ReadAfter(t, m, j - 1), piece.part, piece.field.wire)
         /\ ReadAfter(t, m, Len(Pieces(t, m))) = m
<1> DEFINE n == Len(Pieces(t, m))
           h == CHOOSE g : Stores(t, Pieces(t, m), n, g)
<1>1. n \in Nat
  BY PiecesAreListed
<1>2. Stores(t, Pieces(t, m), n, h)
  BY <1>1, StoresExists
<1>3. h[n] = m
  BY <1>2, AllIsStored
<1>4. \A j : ReadAfter(t, m, j) = h[j]
  BY DEF ReadAfter
<1> HIDE DEF h
<1> QED
  BY <1>2, <1>3, <1>4 DEF Stores

LEMMA NextRead ==
  ASSUME NEW t, NEW m, IsType(t), IsMessage(t, m), NEW j \in 1 .. Len(Pieces(t, m))
  PROVE  ReadAfter(t, m, j) = Store(Pieces(t, m)[j].field, ReadAfter(t, m, j - 1),
                                    Pieces(t, m)[j].part, Pieces(t, m)[j].field.wire)
BY ReadAfterIs

--------------------------------------------------------------------------------
(***************************************************************************)
(* What the reader makes of a record.                                       *)
(***************************************************************************)
LEMMA OwnRecord ==
  ASSUME NEW p \in Everything, NEW j \in 1 .. Len(Encode[p])
  PROVE  LET record == Encode[p][j]
             piece  == Pieces(p[1], p[2])[j]
         IN  /\ Fields(p[1], record) # {} /\ FieldOf(p[1], record) = piece.field
             /\ record.nested = HoldsMessage(piece.field) /\ record.wire = piece.field.wire
             /\ record.wire # "end group"
             /\ ~HoldsMessage(piece.field) => record.holds = piece.part /\ record.holds # TooLarge
             /\ HoldsMessage(piece.field) =>
                  /\ <<OfType(piece.field, p[1]), piece.part>> \in Everything
                  /\ record.holds = Encode[<<OfType(piece.field, p[1]), piece.part>>]
                  /\ piece.field.wire = "delimited"
<1> DEFINE t == p[1]
           m == p[2]
           piece == Pieces(t, m)[j]
           record == Encode[p][j]
           inner == <<OfType(piece.field, t), piece.part>>
<1>1. IsType(t) /\ IsMessage(t, m)
  BY Sent
<1>2. PICK depth \in 0 .. MaxDepth : p \in Sendable[depth]
  BY Sent
<1>3. j \in DOMAIN Pieces(t, m) /\ j \in 1 .. Len(Pieces(t, m))
  BY <1>1, EncodedIsListed, PiecesAreListed
<1>4. PICK i \in DOMAIN t : piece.field = t[i]
  <2>1. IsPiece(t, m, piece)
    BY <1>1, <1>3, PiecesAreListed
  <2> HIDE DEF piece, t, m
  <2> QED
    BY <2>1 DEF IsPiece
<1>5. record = Record(piece.field, IF HoldsMessage(piece.field) THEN Encode[inner] ELSE piece.part)
  BY EncodedIsListed
<1>6. HoldsMessage(piece.field) => inner \in Everything
  <2>1. HoldsMessage(piece.field) => \E d \in 0 .. depth - 1 : inner \in Sendable[d]
    BY <1>2, <1>3, Insides
  <2>2. depth \in 0 .. MaxDepth /\ MaxDepth \in Nat
    BY SendableAssumption
  <2> QED
    BY <2>1, <2>2 DEF Everything, UpTo
<1>7. ~HoldsMessage(piece.field) => piece.part # TooLarge
  BY <1>2, <1>3, Insides
<1> HIDE DEF piece, inner, record
<1>8. /\ record.nested = HoldsMessage(piece.field) /\ record.wire = piece.field.wire
      /\ record.number = piece.field.number
      /\ record.holds = IF HoldsMessage(piece.field) THEN Encode[inner] ELSE piece.part
  BY <1>5 DEF Record
<1>9. IsField(piece.field)
  BY <1>1, <1>4 DEF IsType
<1>10. Fields(t, record) = {i}
  <2>1. \A k \in DOMAIN t : t[k].number = t[i].number => k = i
    BY <1>1 DEF IsType
  <2> QED
    BY <1>4, <1>8, <2>1 DEF Fields
<1>11. Fields(t, record) # {} /\ FieldOf(t, record) = piece.field
  BY <1>4, <1>10 DEF FieldOf
<1> QED
  BY <1>6, <1>7, <1>8, <1>9, <1>11 DEF IsField, piece, inner, record

\* A record of a newer schema, or of a field that is encoded otherwise, is of no field;
\* a number that does not fit is of one, and is refused.
IsSkipped(t, record) == Fields(t, record) = {} /\ record.wire # "end group"
IsRefused(t, record) ==
  /\ Fields(t, record) # {} /\ record.nested = FALSE /\ record.wire # "end group"
  /\ FieldOf(t, record).kind = "uint64" /\ record.holds = TooLarge
IsOdd(t, record) == IsSkipped(t, record) \/ IsRefused(t, record)

LEMMA NumberIsNoMessage ==
  ASSUME NEW field, field.kind = "uint64"
  PROVE  HoldsMessage(field) = FALSE
BY DEF HoldsMessage

LEMMA OddRecordIsOdd ==
  ASSUME NEW t, IsType(t), NEW record \in Odd(t), record.wire # "end group"
  PROVE  IF record.holds = TooLarge THEN IsRefused(t, record) ELSE IsSkipped(t, record)
<1>1. CASE record \in [number : {Unassigned}, wire : {"varint", "fixed64", "delimited", "end group"},
                       holds : {"other"}, nested : {FALSE}]
  <2>1. record.number = Unassigned /\ record.holds = "other"
    BY <1>1
  <2>2. IsSkipped(t, record)
    BY <2>1 DEF IsSkipped, Fields, IsType, IsField
  <2> QED
    BY <2>1, <2>2 DEF TooLarge
<1>2. CASE \E i \in DOMAIN t :
             record = [number |-> t[i].number, holds |-> "other", nested |-> FALSE,
                       wire |-> IF t[i].wire = "fixed64" THEN "varint" ELSE "fixed64"]
  <2>1. PICK i \in DOMAIN t :
          /\ record.number = t[i].number /\ record.wire # t[i].wire /\ record.holds = "other"
          /\ t[i].wire # "fixed64" => record.wire # "varint"
    BY <1>2
  <2>2. IsField(t[i]) /\ \A k \in DOMAIN t : t[k].number = t[i].number => k = i
    BY DEF IsType
  <2>3. IsSkipped(t, record)
    BY <2>1, <2>2 DEF IsSkipped, Fields, IsField
  <2> QED
    BY <2>1, <2>3 DEF TooLarge
<1>3. CASE \E i \in DOMAIN t : t[i].kind = "uint64" /\ record = Record(t[i], TooLarge)
  <2>1. PICK i \in DOMAIN t : t[i].kind = "uint64" /\ record = Record(t[i], TooLarge)
    BY <1>3
  <2>2. /\ record.number = t[i].number /\ record.wire = t[i].wire /\ record.holds = TooLarge
        /\ record.nested = HoldsMessage(t[i])
    BY <2>1, Zenon DEF Record
  <2>3. HoldsMessage(t[i]) = FALSE
    BY <2>1, NumberIsNoMessage
  <2>4. \A k \in DOMAIN t : t[k].number = t[i].number => k = i
    BY DEF IsType
  <2>5. Fields(t, record) = {i}
    BY <2>2, <2>4 DEF Fields
  <2>6. FieldOf(t, record) = t[i]
    BY <2>5 DEF FieldOf
  <2> QED
    BY <2>1, <2>2, <2>3, <2>5, <2>6 DEF IsRefused
<1> QED
  BY <1>1, <1>2, <1>3 DEF Odd

--------------------------------------------------------------------------------
(***************************************************************************)
(* Where the reader is, while nothing has come that it cannot pass over.    *)
(***************************************************************************)
Clean == \A k \in DOMAIN oddities : oddities[k].wire # "end group"

\* A number that does not fit has been sent.
Overflows == \E k \in DOMAIN oddities : oddities[k].holds = TooLarge

IsFrame(frame) ==
  frame = [type |-> frame.type, left |-> frame.left, read |-> frame.read, into |-> frame.into]

\* A call of decode() has read the first j records of m.
HasRead(frame, m, j) ==
  /\ <<frame.type, m>> \in Everything
  /\ j \in 0 .. Len(Encode[<<frame.type, m>>])
  /\ frame.read = ReadAfter(frame.type, m, j)

\* It is left with what follows them, after d records that are not the message's.
IsLeft(frame, m, j, d) ==
  LET code == Encode[<<frame.type, m>>]
  IN  /\ IsList(frame.left) /\ Len(frame.left) = d + (Len(code) - j)
      /\ \A k \in 1 .. d : IsOdd(frame.type, frame.left[k])
      /\ \A k \in 1 .. Len(code) - j : frame.left[d + k] = code[j + k]

\* It awaits another call that reads the next one, which holds a message.
Awaits(frame, m, j, inner, innerM) ==
  LET piece == Pieces(frame.type, m)[j + 1]
  IN  /\ j + 1 \in 1 .. Len(Encode[<<frame.type, m>>])
      /\ IsLeft(frame, m, j + 1, 0)
      /\ HoldsMessage(piece.field)
      /\ inner.type = OfType(piece.field, frame.type)
      /\ inner.into = piece.field /\ innerM = piece.part

\* ms: what the calls read; js: how much of it they have.
Reads(calls, ms, js, d) ==
  /\ ms[1] = sent /\ d \in Nat
  /\ \A k \in 1 .. Len(calls) : HasRead(calls[k], ms[k], js[k])
  /\ \A k \in 1 .. Len(calls) - 1 : Awaits(calls[k], ms[k], js[k], calls[k + 1], ms[k + 1])
  /\ IsLeft(calls[Len(calls)], ms[Len(calls)], js[Len(calls)], d)

Shape ==
  /\ IsList(oddities) /\ IsList(stack) /\ Len(stack) >= 1
  /\ \A k \in 1 .. Len(stack) : IsFrame(stack[k])
  /\ stack[1].type \in Exchanged /\ sent \in Messages(stack[1].type)

\* The number that does not fit is still to come, in the innermost call.
Waits(d) == \E k \in 1 .. d : IsRefused(Top.type, Top.left[k])

IsRead ==
  Clean =>
    /\ \E ms, js, d : Reads(stack, ms, js, d) /\ (outcome = "reading" => (Overflows <=> Waits(d)))
    /\ outcome = "read" => stack[1].read = sent /\ ~Overflows
    /\ outcome = "threw" => Overflows

IInv == Shape /\ IsRead

LEMMA InitIInv == Init => IInv
<1> SUFFICES ASSUME Init PROVE IInv
  OBVIOUS
<1>1. PICK type \in Exchanged :
        /\ sent \in Messages(type)
        /\ stack = <<Frame(type, Encode[<<type, sent>>], NoField)>>
        /\ oddities = <<>> /\ outcome = "reading"
  BY DEF Init
<1> DEFINE frame == Frame(type, Encode[<<type, sent>>], NoField)
<1>2. /\ frame.type = type /\ frame.left = Encode[<<type, sent>>] /\ frame.read = CreateBase(type)
      /\ IsFrame(frame)
  BY DEF Frame, IsFrame
<1>3. stack = <<frame>>
  BY <1>1
<1> HIDE DEF frame
<1>4. IsList(stack) /\ Len(stack) = 1 /\ stack[1] = frame
  BY <1>3, SingletonList
<1>5. Shape
  BY <1>1, <1>2, <1>4, NoList DEF Shape
<1>6. <<type, sent>> \in Everything
  <2>1. CASE type = AccessibilityInfoRequest
    BY <1>1, <2>1, QueriesAssumption DEF Messages
  <2>2. CASE type # AccessibilityInfoRequest
    <3>1. PICK p \in Everything : p[1] = type /\ p[2] = sent
      BY <1>1, <2>2 DEF Messages
    <3> QED
      BY <3>1, Sent
  <2> QED
    BY <2>1, <2>2
<1>7. IsList(Encode[<<type, sent>>]) /\ Len(Encode[<<type, sent>>]) \in Nat
  BY <1>6, EncodedIsListed DEF IsList
<1>8. IsType(type) /\ IsMessage(type, sent)
  BY <1>6, Sent
<1>9. HasRead(frame, sent, 0)
  BY <1>2, <1>6, <1>7, <1>8, ReadAfterIs DEF HasRead
<1>10. IsLeft(frame, sent, 0, 0)
  BY <1>2, <1>7 DEF IsLeft
<1> DEFINE ms == <<sent>>
           js == <<0>>
<1>11. Reads(stack, ms, js, 0)
  <2>1. ms[1] = sent /\ js[1] = 0
    OBVIOUS
  <2>2. \A k \in 1 .. 1 : k = 1
    OBVIOUS
  <2> HIDE DEF ms, js
  <2> QED
    BY <1>4, <1>9, <1>10, <2>1, <2>2 DEF Reads
<1>12. ~Overflows /\ ~Waits(0)
  BY <1>1, NoList, ListIsSeq DEF Overflows, Waits
<1>13. IsRead
  BY <1>1, <1>11, <1>12, Zenon DEF IsRead
<1> QED
  BY <1>5, <1>13 DEF IInv
--------------------------------------------------------------------------------
(***************************************************************************)
(* What the steps make of the calls.                                        *)
(***************************************************************************)
With(frame, left, read) ==
  [type |-> frame.type, left |-> left, read |-> read, into |-> frame.into]

LEMMA WithFields ==
  ASSUME NEW frame, NEW left, NEW read
  PROVE  /\ IsFrame(With(frame, left, read))
         /\ With(frame, left, read).type = frame.type /\ With(frame, left, read).left = left
         /\ With(frame, left, read).read = read /\ With(frame, left, read).into = frame.into
<1>1. /\ With(frame, left, read).type = frame.type /\ With(frame, left, read).left = left
      /\ With(frame, left, read).read = read /\ With(frame, left, read).into = frame.into
  BY DEF With
<1>2. IsFrame(With(frame, left, read))
  BY <1>1, Zenon DEF IsFrame, With
<1> QED
  BY <1>1, <1>2

LEMMA FrameIsWith ==
  ASSUME NEW frame, IsFrame(frame), NEW left, NEW read
  PROVE  /\ [frame EXCEPT !.left = left] = With(frame, left, frame.read)
         /\ [frame EXCEPT !.read = read] = With(frame, frame.left, read)
<1> DEFINE same == [type |-> frame.type, left |-> frame.left, read |-> frame.read, into |-> frame.into]
<1>0. frame = same
  BY DEF IsFrame
<1>1. [frame EXCEPT !.left = left] = With(frame, left, frame.read)
  <2>1. [same EXCEPT !.left = left] = With(frame, left, frame.read)
    BY DEF With
  <2> HIDE DEF same
  <2> QED
    BY <1>0, <2>1, Zenon
<1>2. [frame EXCEPT !.read = read] = With(frame, frame.left, read)
  <2>1. [same EXCEPT !.read = read] = With(frame, frame.left, read)
    BY DEF With
  <2> HIDE DEF same
  <2> QED
    BY <1>0, <2>1, Zenon
<1> QED
  BY <1>1, <1>2

LEMMA TopIsLast ==
  ASSUME Shape
  PROVE  Top = stack[Len(stack)] /\ Len(stack) \in Nat \ {0} /\ DOMAIN stack = 1 .. Len(stack)
<1>1. Len(stack) \in Nat /\ Len(stack) >= 1
  BY DEF Shape, IsList
<1> QED
  BY <1>1, ListIsSeq DEF Shape, Top, Last

\* calls differ from the stack in the k-th only.
Replaces(calls, k, frame) ==
  /\ IsList(calls) /\ Len(calls) = Len(stack)
  /\ calls[k] = frame
  /\ \A l \in 1 .. Len(stack) : l # k => calls[l] = stack[l]

LEMMA AfterIs ==
  ASSUME Shape, NEW read
  PROVE  Replaces(After(read), Len(stack), With(Top, Tail(Top.left), read))
<1> DEFINE n == Len(stack)
           top == stack[n]
           one == [stack EXCEPT ![n].left = Tail(@)]
           two == [one EXCEPT ![n].read = read]
<1>1. n \in 1 .. n /\ DOMAIN stack = 1 .. n /\ Top = top /\ n \in Nat
  BY TopIsLast
<1>2. stack = [k \in 1 .. n |-> stack[k]] /\ IsFrame(top)
  BY <1>1 DEF Shape, IsList
<1> DEFINE shorter == Tail(top.left)
<1>d. one = [stack EXCEPT ![n] = [top EXCEPT !.left = shorter]]
  BY <1>1
<1>e. [top EXCEPT !.left = shorter] = With(top, shorter, top.read)
  <2> HIDE DEF shorter
  <2> QED
    BY <1>2, FrameIsWith
<1>a. one = [k \in 1 .. n |-> IF k = n THEN With(top, shorter, top.read) ELSE stack[k]]
  <2> HIDE DEF shorter, one
  <2> QED
    BY <1>1, <1>2, <1>d, <1>e
<1>b. After(read) = [one EXCEPT ![n] = [one[n] EXCEPT !.read = read]]
  BY <1>1 DEF After
<1>c. [one[n] EXCEPT !.read = read] = With(top, shorter, read)
  <2> HIDE DEF shorter
  <2> DEFINE cut == With(top, shorter, top.read)
  <2>1. one[n] = cut
    BY <1>1, <1>a
  <2>2. IsFrame(cut) /\ cut.left = shorter /\ cut.type = top.type /\ cut.into = top.into
    BY WithFields
  <2> HIDE DEF cut, one
  <2>3. [cut EXCEPT !.read = read] = With(cut, cut.left, read)
    BY <2>2, FrameIsWith
  <2>4. With(cut, cut.left, read) = With(top, shorter, read)
    BY <2>2 DEF With
  <2> QED
    BY <2>1, <2>3, <2>4
<1> HIDE DEF one
<1>3. After(read) = [k \in 1 .. n |-> IF k = n THEN With(top, Tail(top.left), read) ELSE stack[k]]
  BY <1>1, <1>a, <1>b, <1>c
<1>4. /\ After(read) = [k \in 1 .. n |-> After(read)[k]]
      /\ After(read)[n] = With(top, Tail(top.left), read)
      /\ \A l \in 1 .. n : l # n => After(read)[l] = stack[l]
  BY <1>1, <1>3
<1>5. IsList(After(read)) /\ Len(After(read)) = n
  BY <1>1, <1>4, MakesList
<1> QED
  BY <1>1, <1>4, <1>5 DEF Replaces

LEMMA OddIs ==
  ASSUME Shape, NEW record
  PROVE  Replaces([stack EXCEPT ![Len(stack)].left = <<record>> \o @], Len(stack),
                  With(Top, <<record>> \o Top.left, Top.read))
<1> DEFINE n == Len(stack)
           top == stack[n]
           next == [stack EXCEPT ![n].left = <<record>> \o @]
<1>1. n \in 1 .. n /\ DOMAIN stack = 1 .. n /\ Top = top /\ n \in Nat
  BY TopIsLast
<1>2. stack = [k \in 1 .. n |-> stack[k]] /\ IsFrame(top)
  BY <1>1 DEF Shape, IsList
<1> DEFINE longer == <<record>> \o top.left
<1>a. next = [stack EXCEPT ![n] = [top EXCEPT !.left = longer]]
  BY <1>1
<1>b. [top EXCEPT !.left = longer] = With(top, longer, top.read)
  <2> HIDE DEF longer
  <2> QED
    BY <1>2, FrameIsWith
<1>3. next = [k \in 1 .. n |-> IF k = n THEN With(top, longer, top.read) ELSE stack[k]]
  <2> HIDE DEF longer, next
  <2> QED
    BY <1>1, <1>2, <1>a, <1>b
<1>4. /\ next = [k \in 1 .. n |-> next[k]]
      /\ next[n] = With(top, <<record>> \o top.left, top.read)
      /\ \A l \in 1 .. n : l # n => next[l] = stack[l]
  BY <1>1, <1>3
<1> HIDE DEF next
<1>5. IsList(next) /\ Len(next) = n
  BY <1>1, <1>4, MakesList
<1> QED
  BY <1>1, <1>4, <1>5 DEF Replaces, next

\* What the innermost call leaves, when it returns, is the stack without it.
LEMMA LeavesIs ==
  ASSUME Shape, Len(stack) > 1, NEW unread, Leaves(unread)
  PROVE  LET outer == stack[Len(stack) - 1]
         IN  /\ IsList(stack') /\ Len(stack') = Len(stack) - 1
             /\ stack'[Len(stack) - 1] =
                  With(outer, unread \o outer.left, Store(Top.into, outer.read, Top.read, "delimited"))
             /\ \A l \in 1 .. Len(stack) - 2 : stack'[l] = stack[l]
<1> DEFINE n == Len(stack)
           front == Front(stack)
           into == stack[n - 1]
           stored == Store(Top.into, into.read, Top.read, "delimited")
<1>1. DOMAIN stack = 1 .. n /\ n \in Nat /\ n > 1 /\ n - 1 \in 1 .. n
  BY TopIsLast
<1>2. IsFrame(into)
  BY <1>1 DEF Shape
<1>3. front = [k \in 1 .. n - 1 |-> stack[k]]
  <2>1. SubSeq(stack, 1, n - 1) = [k \in 1 .. n - 1 |-> stack[k]]
    BY <1>1
  <2> QED
    BY <2>1 DEF Front
<1>4. IsList(front) /\ Len(front) = n - 1
  <2>1. front = [k \in 1 .. n - 1 |-> front[k]] /\ n - 1 \in Nat
    BY <1>1, <1>3
  <2> HIDE DEF front
  <2> QED
    BY <2>1, MakesList
<1>5. Last(front) = into
  BY <1>1, <1>3, <1>4 DEF Last
<1>6. stack' = [front EXCEPT ![n - 1] = [into EXCEPT !.read = stored, !.left = unread \o @]]
  BY <1>4, <1>5 DEF Leaves
<1>7. [into EXCEPT !.read = stored, !.left = unread \o @] = With(into, unread \o into.left, stored)
  <2> DEFINE longer == unread \o into.left
             kept == With(into, into.left, stored)
  <2>1. [into EXCEPT !.read = stored] = kept /\ IsFrame(kept) /\ kept.left = into.left
        /\ kept.type = into.type /\ kept.into = into.into /\ kept.read = stored
    <3> HIDE DEF stored, into
    <3>1. [into EXCEPT !.read = stored] = kept
      BY <1>2, FrameIsWith
    <3>2. /\ IsFrame(kept) /\ kept.left = into.left
          /\ kept.type = into.type /\ kept.into = into.into /\ kept.read = stored
      BY WithFields
    <3> QED
      BY <3>1, <3>2
  <2>2. [kept EXCEPT !.left = longer] = With(kept, longer, stored)
    <3> HIDE DEF kept, longer, stored
    <3>1. [kept EXCEPT !.left = longer] = With(kept, longer, kept.read)
      BY <2>1, FrameIsWith
    <3> QED
      BY <2>1, <3>1
  <2>3. With(kept, longer, stored) = With(into, longer, stored)
    <3> HIDE DEF kept, longer, stored
    <3> QED
      BY <2>1 DEF With
  <2> HIDE DEF kept, stored, into
  <2> QED
    BY <2>1, <2>2, <2>3
<1>8. stack' = [k \in 1 .. n - 1 |-> IF k = n - 1 THEN With(into, unread \o into.left, stored) ELSE stack[k]]
  BY <1>1, <1>3, <1>6, <1>7
<1>9. /\ stack' = [k \in 1 .. n - 1 |-> stack'[k]] /\ n - 1 \in Nat
      /\ stack'[n - 1] = With(into, unread \o into.left, stored)
      /\ \A l \in 1 .. n - 2 : stack'[l] = stack[l]
  <2> DEFINE new == With(into, unread \o into.left, stored)
  <2>1. stack' = [k \in 1 .. n - 1 |-> IF k = n - 1 THEN new ELSE stack[k]]
    BY <1>8
  <2> HIDE DEF new, n
  <2>a. n - 1 \in 1 .. n - 1 /\ \A l \in 1 .. n - 2 : l # n - 1 /\ l \in 1 .. n - 1
    BY <1>1
  <2>2. /\ stack' = [k \in 1 .. n - 1 |-> stack'[k]] /\ n - 1 \in Nat
        /\ stack'[n - 1] = new /\ \A l \in 1 .. n - 2 : stack'[l] = stack[l]
    BY <1>1, <2>1, <2>a
  <2> QED
    BY <2>2 DEF new
<1>10. IsList(stack') /\ Len(stack') = n - 1
  BY <1>9, MakesList
<1> QED
  BY <1>9, <1>10
--------------------------------------------------------------------------------
(***************************************************************************)
(* The steps.                                                              *)
(***************************************************************************)
LEMMA ReplacesShape ==
  ASSUME Shape, NEW calls, NEW left, NEW read,
         Replaces(calls, Len(stack), With(Top, left, read))
  PROVE  /\ IsList(calls) /\ Len(calls) = Len(stack) /\ Len(calls) >= 1
         /\ \A k \in 1 .. Len(calls) : IsFrame(calls[k])
         /\ calls[1].type = stack[1].type
<1> DEFINE n == Len(stack)
<1>1. n \in Nat \ {0} /\ Top = stack[n]
  BY TopIsLast
<1>2. IsFrame(With(Top, left, read)) /\ With(Top, left, read).type = Top.type
  BY WithFields
<1>3. \A k \in 1 .. n : IsFrame(stack[k])
  BY DEF Shape
<1>4. /\ IsList(calls) /\ Len(calls) = n /\ calls[n] = With(Top, left, read)
      /\ \A l \in 1 .. n : l # n => calls[l] = stack[l]
  BY DEF Replaces
<1> HIDE DEF n
<1>5. \A k \in 1 .. n : IsFrame(calls[k])
  BY <1>2, <1>3, <1>4
<1>6. calls[1].type = stack[1].type
  <2>1. CASE n = 1
    BY <1>1, <1>2, <1>4, <2>1
  <2>2. CASE n # 1
    <3>1. calls[1] = stack[1]
      BY <1>1, <1>4, <2>2
    <3> QED
      BY <3>1
  <2> QED
    BY <2>1, <2>2
<1>7. n >= 1
  BY <1>1
<1> QED
  BY <1>4, <1>5, <1>6, <1>7 DEF n

LEMMA EnterShape ==
  ASSUME Shape, NEW calls, NEW left, NEW read, Replaces(calls, Len(stack), With(Top, left, read)),
         NEW frame, IsFrame(frame)
  PROVE  LET more == Append(calls, frame)
         IN  /\ IsList(more) /\ Len(more) = Len(stack) + 1
             /\ \A k \in 1 .. Len(more) : IsFrame(more[k])
             /\ more[1].type = stack[1].type
             /\ \A k \in 1 .. Len(stack) : more[k] = calls[k]
             /\ more[Len(stack) + 1] = frame
<1> DEFINE n == Len(stack)
           more == Append(calls, frame)
<1>1. /\ IsList(calls) /\ Len(calls) = n
      /\ \A k \in 1 .. n : IsFrame(calls[k])
      /\ calls[1].type = stack[1].type
  BY ReplacesShape
<1>2. n \in Nat \ {0}
  BY TopIsLast
<1>3. /\ IsList(more) /\ Len(more) = n + 1
      /\ \A k \in 1 .. n : more[k] = calls[k]
      /\ more[n + 1] = frame
  BY <1>1, AppendToList
<1> HIDE DEF more, n
<1>4. \A k \in 1 .. n + 1 : k \in 1 .. n \/ k = n + 1
  BY <1>2
<1>5. \A k \in 1 .. n + 1 : IsFrame(more[k])
  BY <1>1, <1>3, <1>4
<1>6. more[1].type = stack[1].type
  BY <1>1, <1>2, <1>3
<1> QED
  BY <1>3, <1>5, <1>6 DEF more, n

LEMMA StepShape == Shape /\ [Next]_vars => Shape'
<1> SUFFICES ASSUME Shape, [Next]_vars PROVE Shape'
  OBVIOUS
<1> DEFINE n == Len(stack)
<1>1. n \in Nat \ {0} /\ Top = stack[n]
  BY TopIsLast
<1>2. SUFFICES /\ UNCHANGED sent /\ IsList(oddities')
               /\ IsList(stack') /\ Len(stack') >= 1
               /\ \A k \in 1 .. Len(stack') : IsFrame(stack'[k])
               /\ stack'[1].type = stack[1].type
  BY DEF Shape
<1>3. CASE UNCHANGED vars \/ RefuseNumber \/ Misread \/ Finish
  BY <1>3 DEF Shape, vars, RefuseNumber, Misread, Finish
<1>4. CASE ReadScalar \/ Skip
  <2>1. UNCHANGED <<sent, oddities>> /\ \E read : stack' = After(read)
    BY <1>4 DEF ReadScalar, Skip
  <2>2. PICK read : stack' = After(read)
    BY <2>1
  <2>3. Replaces(stack', n, With(Top, Tail(Top.left), read))
    BY <2>2, AfterIs
  <2>4. IsList(oddities)
    BY DEF Shape
  <2> QED
    BY <2>1, <2>3, <2>4, ReplacesShape
<1>5. CASE OddRecord
  <2>1. PICK record : /\ stack' = [stack EXCEPT ![n].left = <<record>> \o @]
                      /\ oddities' = Append(oddities, record)
    BY <1>5 DEF OddRecord
  <2>2. Replaces(stack', n, With(Top, <<record>> \o Top.left, Top.read))
    BY <2>1, OddIs
  <2>3. IsList(oddities')
    BY <2>1, AppendToList DEF Shape
  <2>4. UNCHANGED sent
    BY <1>5 DEF OddRecord
  <2>5. /\ IsList(stack') /\ Len(stack') >= 1
        /\ \A k \in 1 .. Len(stack') : IsFrame(stack'[k])
        /\ stack'[1].type = stack[1].type
    BY <2>2, ReplacesShape
  <2> QED
    BY <2>3, <2>4, <2>5
<1>6. CASE EnterMessage
  <2>1. PICK type, left, into : stack' = Append(After(Top.read), Frame(type, left, into))
    BY <1>6 DEF EnterMessage
  <2>2. Replaces(After(Top.read), n, With(Top, Tail(Top.left), Top.read))
    BY AfterIs
  <2>3. IsFrame(Frame(type, left, into))
    BY DEF Frame, IsFrame
  <2>4. /\ IsList(stack') /\ Len(stack') = n + 1
        /\ \A k \in 1 .. Len(stack') : IsFrame(stack'[k])
        /\ stack'[1].type = stack[1].type
    BY <2>1, <2>2, <2>3, EnterShape
  <2>5. UNCHANGED <<sent, oddities>>
    BY <1>6 DEF EnterMessage
  <2>6. IsList(oddities)
    BY DEF Shape
  <2> QED
    BY <1>1, <2>4, <2>5, <2>6
<1>7. CASE LeaveMessage \/ (StopAtGroup /\ n > 1)
  <2>1. n > 1 /\ UNCHANGED <<sent, oddities>> /\ \E unread : Leaves(unread)
    BY <1>7 DEF LeaveMessage, StopAtGroup
  <2>2. PICK unread : Leaves(unread)
    BY <2>1
  <2> DEFINE outer == stack[n - 1]
             kept == With(outer, unread \o outer.left, Store(Top.into, outer.read, Top.read, "delimited"))
  <2>3. /\ IsList(stack') /\ Len(stack') = n - 1
        /\ stack'[n - 1] = kept
        /\ \A l \in 1 .. n - 2 : stack'[l] = stack[l]
    BY <2>1, <2>2, LeavesIs
  <2>4. IsFrame(kept) /\ kept.type = outer.type
    BY WithFields
  <2>5. \A k \in 1 .. n : IsFrame(stack[k])
    BY DEF Shape
  <2>6. IsList(oddities)
    BY DEF Shape
  <2> HIDE DEF kept, n
  <2>7. \A k \in 1 .. n - 1 : k = n - 1 \/ (k \in 1 .. n - 2 /\ k \in 1 .. n)
    BY <1>1
  <2>8. \A k \in 1 .. n - 1 : IsFrame(stack'[k])
    BY <2>3, <2>4, <2>5, <2>7
  <2>9. stack'[1].type = stack[1].type
    <3>1. 1 \in 1 .. n - 1
      BY <1>1, <2>1
    <3>2. CASE n - 1 = 1
      BY <2>3, <2>4, <3>2
    <3>3. CASE n - 1 # 1
      <4>1. stack'[1] = stack[1]
        BY <2>3, <2>7, <3>1, <3>3
      <4> QED
        BY <4>1
    <3> QED
      BY <3>2, <3>3
  <2>10. n - 1 >= 1
    BY <1>1, <2>1
  <2> QED
    BY <2>1, <2>3, <2>6, <2>8, <2>9, <2>10
<1>8. CASE StopAtGroup /\ ~(n > 1)
  BY <1>8 DEF StopAtGroup, Shape
<1> QED
  BY <1>3, <1>4, <1>5, <1>6, <1>7, <1>8 DEF Next
--------------------------------------------------------------------------------
(***************************************************************************)
(* What the steps make of what has been read.                               *)
(***************************************************************************)
LEMMA NextTop ==
  ASSUME Shape, NEW frame, Replaces(stack', Len(stack), frame)
  PROVE  Top' = frame
<1>1. Len(stack) \in Nat \ {0} /\ IsList(stack') /\ Len(stack') = Len(stack)
  BY TopIsLast DEF Replaces
<1> QED
  BY <1>1 DEF Replaces, Top, Last

\* What comes next is a record to skip, or the next one of the message.
LEMMA HeadIs ==
  ASSUME Shape, NEW ms, NEW js, NEW d, Reads(stack, ms, js, d), Top.left # <<>>, NEW read
  PROVE  LET n    == Len(stack)
             code == Encode[<<Top.type, ms[n]>>]
             next == With(Top, Tail(Top.left), read)
         IN  \/ /\ d - 1 \in Nat /\ IsOdd(Top.type, Head(Top.left))
                /\ IsLeft(next, ms[n], js[n], d - 1)
                /\ Head(Top.left) = Top.left[1]
                /\ \A k \in 1 .. d - 1 : next.left[k] = Top.left[k + 1]
             \/ /\ d = 0 /\ js[n] + 1 \in 1 .. Len(code) /\ Head(Top.left) = code[js[n] + 1]
                /\ IsLeft(next, ms[n], js[n] + 1, 0)
<1> DEFINE n == Len(stack)
           m == ms[n]
           j == js[n]
           code == Encode[<<Top.type, m>>]
           left == Top.left
           rest == Tail(left)
           next == With(Top, rest, read)
           z == Len(code)
<1>1. n \in Nat \ {0} /\ Top = stack[n]
  BY TopIsLast
<1>2. HasRead(Top, m, j) /\ IsLeft(Top, m, j, d) /\ d \in Nat
  BY <1>1 DEF Reads
<1>3. <<Top.type, m>> \in Everything /\ j \in 0 .. z
  BY <1>2 DEF HasRead
<1>4. z \in Nat
  BY <1>3, EncodedIsListed DEF IsList
<1>5. /\ IsList(left) /\ Len(left) = d + (z - j)
      /\ \A k \in 1 .. d : IsOdd(Top.type, left[k])
      /\ \A k \in 1 .. z - j : left[d + k] = code[j + k]
  BY <1>2 DEF IsLeft
<1>6. left # <<>>
  OBVIOUS
<1>7. next.type = Top.type /\ next.left = rest
  BY WithFields
<1> HIDE DEF left, next, code, m, j, n
<1>8. /\ IsList(rest) /\ Len(rest) = Len(left) - 1 /\ Head(left) = left[1]
      /\ \A k \in 1 .. Len(left) - 1 : rest[k] = left[k + 1]
  BY <1>5, <1>6, TailOfList
<1>9. Len(left) # 0
  BY <1>5, <1>6, EmptyList
<1> HIDE DEF rest, z
<1>10. CASE d > 0
  <2>1. d - 1 \in Nat /\ 1 \in 1 .. d
    BY <1>2, <1>10
  <2>a. \A k \in 1 .. d - 1 : rest[k] = left[k + 1] /\ k + 1 \in 1 .. d
    <3> TAKE k \in 1 .. d - 1
    <3>1. k + 1 \in 1 .. d /\ k \in 1 .. Len(left) - 1
      BY <1>2, <1>3, <1>4, <1>5
    <3> QED
      BY <1>8, <3>1
  <2>2. \A k \in 1 .. d - 1 : IsOdd(Top.type, rest[k])
    BY <1>5, <2>a
  <2>3. \A k \in 1 .. z - j : rest[d - 1 + k] = code[j + k]
    <3> TAKE k \in 1 .. z - j
    <3>1. d - 1 + k \in 1 .. Len(left) - 1 /\ d - 1 + k + 1 = d + k
      BY <1>2, <1>3, <1>4, <1>5, <1>10
    <3> QED
      BY <1>5, <1>8, <3>1
  <2>4. Len(rest) = d - 1 + (z - j)
    BY <1>2, <1>3, <1>4, <1>5, <1>8
  <2>5. IsLeft(next, m, j, d - 1)
    BY <1>7, <1>8, <2>2, <2>3, <2>4 DEF IsLeft, code, z
  <2>6. IsOdd(Top.type, Head(left))
    BY <1>5, <1>8, <2>1
  <2> QED
    BY <1>7, <1>8, <2>1, <2>a, <2>5, <2>6 DEF n, m, j, left, next, rest
<1>11. CASE d = 0
  <2>1. j + 1 \in 1 .. z /\ 1 \in 1 .. z - j
    BY <1>3, <1>4, <1>5, <1>9, <1>11
  <2>2. Head(left) = code[j + 1]
    <3>1. left[d + 1] = code[j + 1]
      BY <1>5, <2>1
    <3> QED
      BY <1>8, <1>11, <3>1
  <2>3. Len(rest) = 0 + (z - (j + 1))
    BY <1>3, <1>4, <1>5, <1>8, <1>11
  <2>4. \A k \in 1 .. z - (j + 1) : rest[0 + k] = code[(j + 1) + k]
    <3> TAKE k \in 1 .. z - (j + 1)
    <3>1. k \in 1 .. Len(left) - 1 /\ k + 1 \in 1 .. z - j /\ d + (k + 1) = k + 1
          /\ 0 + k = k /\ j + (k + 1) = (j + 1) + k
      BY <1>3, <1>4, <1>5, <1>11
    <3>2. left[d + (k + 1)] = code[j + (k + 1)]
      BY <1>5, <3>1
    <3> QED
      BY <1>8, <3>1, <3>2
  <2>5. \A k \in 1 .. 0 : FALSE
    OBVIOUS
  <2>6. IsLeft(next, m, j + 1, 0)
    BY <1>7, <1>8, <2>3, <2>4, <2>5 DEF IsLeft, code, z
  <2> QED
    BY <1>11, <2>1, <2>2, <2>6 DEF n, m, j, left, next, rest, code, z
<1> QED
  BY <1>2, <1>10, <1>11

\* A call that has nothing left has read the whole message.
LEMMA NothingIsLeft ==
  ASSUME NEW frame, NEW m, NEW j, NEW d \in Nat, HasRead(frame, m, j), IsLeft(frame, m, j, d),
         frame.left = <<>>
  PROVE  frame.read = m /\ d = 0
<1> DEFINE p == <<frame.type, m>>
           z == Len(Encode[p])
<1>1. p \in Everything /\ j \in 0 .. z /\ frame.read = ReadAfter(frame.type, m, j)
  BY DEF HasRead
<1>2. z \in Nat /\ z = Len(Pieces(frame.type, m))
  BY <1>1, EncodedIsListed DEF IsList
<1>3. Len(frame.left) = d + (z - j)
  BY DEF IsLeft
<1>4. j = z /\ d = 0
  BY <1>1, <1>2, <1>3, NoList
<1>5. IsType(frame.type) /\ IsMessage(frame.type, m)
  BY <1>1, Sent
<1> QED
  BY <1>1, <1>2, <1>4, <1>5, ReadAfterIs

\* Only the innermost call reads.
LEMMA KeepsReading ==
  ASSUME Shape, NEW ms, NEW js, NEW d, Reads(stack, ms, js, d),
         NEW calls, NEW left, NEW read, Replaces(calls, Len(stack), With(Top, left, read)),
         NEW j2, NEW d2 \in Nat,
         HasRead(With(Top, left, read), ms[Len(stack)], j2),
         IsLeft(With(Top, left, read), ms[Len(stack)], j2, d2)
  PROVE  \E js2 : Reads(calls, ms, js2, d2)
<1> DEFINE n == Len(stack)
           top == With(Top, left, read)
           js2 == [k \in 1 .. n |-> IF k = n THEN j2 ELSE js[k]]
<1>1. n \in Nat \ {0} /\ Top = stack[n] /\ n \in 1 .. n
  BY TopIsLast
<1>2. Len(calls) = n /\ calls[n] = top /\ \A k \in 1 .. n : k # n => calls[k] = stack[k]
  BY DEF Replaces
<1>3. top.type = Top.type /\ top.into = Top.into
  BY WithFields
<1>4. js2[n] = j2 /\ \A k \in 1 .. n : k # n => js2[k] = js[k]
  BY <1>1
<1>5. /\ ms[1] = sent
      /\ \A k \in 1 .. n : HasRead(stack[k], ms[k], js[k])
      /\ \A k \in 1 .. n - 1 : Awaits(stack[k], ms[k], js[k], stack[k + 1], ms[k + 1])
  BY DEF Reads
<1> HIDE DEF top, js2, n
<1>6. \A k \in 1 .. n : HasRead(calls[k], ms[k], js2[k])
  <2> TAKE k \in 1 .. n
  <2>1. CASE k = n
    BY <1>2, <1>4, <2>1 DEF top, n
  <2>2. CASE k # n
    BY <1>2, <1>4, <1>5, <2>2
  <2> QED
    BY <2>1, <2>2
<1>7. \A k \in 1 .. n - 1 : Awaits(calls[k], ms[k], js2[k], calls[k + 1], ms[k + 1])
  <2> TAKE k \in 1 .. n - 1
  <2>1. k \in 1 .. n /\ k # n /\ k + 1 \in 1 .. n
    BY <1>1
  <2>2. calls[k] = stack[k] /\ js2[k] = js[k]
    BY <1>2, <1>4, <2>1
  <2>3. calls[k + 1].type = stack[k + 1].type /\ calls[k + 1].into = stack[k + 1].into
    <3>1. CASE k + 1 = n
      BY <1>1, <1>2, <1>3, <3>1
    <3>2. CASE k + 1 # n
      BY <1>2, <2>1, <3>2
    <3> QED
      BY <3>1, <3>2
  <2>4. Awaits(stack[k], ms[k], js[k], stack[k + 1], ms[k + 1])
    BY <1>5
  <2> QED
    BY <2>2, <2>3, <2>4 DEF Awaits
<1>8. IsLeft(calls[n], ms[n], js2[n], d2)
  BY <1>2, <1>4 DEF top, n
<1>9. Reads(calls, ms, js2, d2)
  BY <1>2, <1>5, <1>6, <1>7, <1>8 DEF Reads
<1> QED
  BY <1>9
\* A call that begins to read what a record holds.
LEMMA BeginsReading ==
  ASSUME Shape, NEW ms, NEW js, NEW d, Reads(stack, ms, js, d),
         NEW left, NEW calls, Replaces(calls, Len(stack), With(Top, left, Top.read)),
         NEW frame, NEW m, HasRead(frame, m, 0), IsLeft(frame, m, 0, 0), IsFrame(frame),
         Awaits(With(Top, left, Top.read), ms[Len(stack)], js[Len(stack)], frame, m)
  PROVE  \E ms2, js2 : Reads(Append(calls, frame), ms2, js2, 0)
<1> DEFINE n == Len(stack)
           top == With(Top, left, Top.read)
           more == Append(calls, frame)
           ms2 == [k \in 1 .. n + 1 |-> IF k = n + 1 THEN m ELSE ms[k]]
           js2 == [k \in 1 .. n + 1 |-> IF k = n + 1 THEN 0 ELSE js[k]]
<1>1. n \in Nat \ {0} /\ Top = stack[n] /\ n \in 1 .. n
  BY TopIsLast
<1>2. /\ Len(more) = n + 1 /\ more[n + 1] = frame
      /\ \A k \in 1 .. n : more[k] = calls[k]
  BY EnterShape
<1>3. calls[n] = top /\ \A k \in 1 .. n : k # n => calls[k] = stack[k]
  BY DEF Replaces
<1>4. top.type = Top.type /\ top.into = Top.into /\ top.read = Top.read
  BY WithFields
<1>5. /\ ms2[n + 1] = m /\ js2[n + 1] = 0
      /\ \A k \in 1 .. n : ms2[k] = ms[k] /\ js2[k] = js[k]
  BY <1>1
<1>6. /\ ms[1] = sent
      /\ \A k \in 1 .. n : HasRead(stack[k], ms[k], js[k])
      /\ \A k \in 1 .. n - 1 : Awaits(stack[k], ms[k], js[k], stack[k + 1], ms[k + 1])
  BY DEF Reads
<1>7. Awaits(top, ms[n], js[n], frame, m)
  OBVIOUS
<1> HIDE DEF top, ms2, js2, more, n
<1>8. \A k \in 1 .. n + 1 : k = n + 1 \/ k \in 1 .. n
  BY <1>1
<1>9. \A k \in 1 .. n : HasRead(more[k], ms2[k], js2[k])
  <2> TAKE k \in 1 .. n
  <2>1. CASE k = n
    <3>1. HasRead(Top, ms[n], js[n])
      BY <1>1, <1>6
    <3>2. HasRead(top, ms[n], js[n])
      BY <1>4, <3>1 DEF HasRead
    <3> QED
      BY <1>1, <1>2, <1>3, <1>5, <2>1, <3>2
  <2>2. CASE k # n
    BY <1>2, <1>3, <1>5, <1>6, <2>2
  <2> QED
    BY <2>1, <2>2
<1>10. \A k \in 1 .. n + 1 : HasRead(more[k], ms2[k], js2[k])
  BY <1>2, <1>5, <1>8, <1>9
<1>11. \A k \in 1 .. n : Awaits(more[k], ms2[k], js2[k], more[k + 1], ms2[k + 1])
  <2> TAKE k \in 1 .. n
  <2>1. CASE k = n
    BY <1>1, <1>2, <1>3, <1>5, <1>7, <2>1
  <2>2. CASE k # n
    <3>1. k \in 1 .. n - 1 /\ k + 1 \in 1 .. n
      BY <1>1, <2>2
    <3>2. more[k] = stack[k] /\ ms2[k] = ms[k] /\ js2[k] = js[k] /\ ms2[k + 1] = ms[k + 1]
      BY <1>2, <1>3, <1>5, <2>2, <3>1
    <3>3. more[k + 1].type = stack[k + 1].type /\ more[k + 1].into = stack[k + 1].into
      <4>1. CASE k + 1 = n
        BY <1>1, <1>2, <1>3, <1>4, <4>1
      <4>2. CASE k + 1 # n
        BY <1>2, <1>3, <3>1, <4>2
      <4> QED
        BY <4>1, <4>2
    <3>4. Awaits(stack[k], ms[k], js[k], stack[k + 1], ms[k + 1])
      BY <1>6, <3>1
    <3> QED
      BY <3>2, <3>3, <3>4 DEF Awaits
  <2> QED
    BY <2>1, <2>2
<1>12. ms2[1] = sent
  BY <1>1, <1>5, <1>6
<1>13. IsLeft(more[n + 1], ms2[n + 1], js2[n + 1], 0)
  BY <1>2, <1>5
<1>14. Len(more) = n + 1 /\ Len(more) - 1 = n
  BY <1>1, <1>2
<1>15. Reads(more, ms2, js2, 0)
  <2>1. \A k \in 1 .. Len(more) : HasRead(more[k], ms2[k], js2[k])
    BY <1>10, <1>14
  <2>2. \A k \in 1 .. Len(more) - 1 : Awaits(more[k], ms2[k], js2[k], more[k + 1], ms2[k + 1])
    BY <1>11, <1>14
  <2>3. IsLeft(more[Len(more)], ms2[Len(more)], js2[Len(more)], 0)
    BY <1>13, <1>14
  <2> QED
    BY <1>12, <2>1, <2>2, <2>3 DEF Reads
<1> QED
  BY <1>15 DEF more

LEMMA ReturnedIsStored ==
  ASSUME NEW outer, NEW m, NEW j, HasRead(outer, m, j),
         NEW inner, NEW innerM, Awaits(outer, m, j, inner, innerM)
  PROVE  ReadAfter(outer.type, m, j + 1) = Store(inner.into, outer.read, innerM, "delimited")
<1> DEFINE t == outer.type
           p == <<t, m>>
           piece == Pieces(t, m)[j + 1]
<1>1. p \in Everything /\ j \in 0 .. Len(Encode[p]) /\ outer.read = ReadAfter(t, m, j)
  BY DEF HasRead
<1>2. j + 1 \in 1 .. Len(Encode[p]) /\ HoldsMessage(piece.field)
      /\ inner.into = piece.field /\ innerM = piece.part
  BY DEF Awaits
<1>3. p[1] = t /\ p[2] = m
  OBVIOUS
<1> HIDE DEF p, t
<1>4. HoldsMessage(Pieces(p[1], p[2])[j + 1].field)
  BY <1>2, <1>3
<1>5. Pieces(p[1], p[2])[j + 1].field.wire = "delimited"
  BY <1>1, <1>2, <1>4, OwnRecord
<1>6. piece.field.wire = "delimited"
  <2>1. piece = Pieces(p[1], p[2])[j + 1]
    BY <1>3, Zenon
  <2> QED
    BY <1>5, <2>1, Zenon
<1>7. IsType(t) /\ IsMessage(t, m) /\ Len(Encode[p]) = Len(Pieces(t, m)) /\ Len(Encode[p]) \in Nat
  BY <1>1, <1>3, Sent, EncodedIsListed DEF IsList
<1>8. ReadAfter(t, m, j + 1) = Store(piece.field, ReadAfter(t, m, (j + 1) - 1), piece.part, piece.field.wire)
  <2>1. j + 1 \in 1 .. Len(Pieces(t, m))
    BY <1>2, <1>7
  <2> QED
    BY <1>7, <2>1, NextRead
<1>9. (j + 1) - 1 = j
  BY <1>1, <1>7
<1> HIDE DEF piece
<1>10. ReadAfter(t, m, j + 1) = Store(inner.into, outer.read, innerM, "delimited")
  BY <1>1, <1>2, <1>6, <1>8, <1>9
<1> QED
  BY <1>10 DEF t

\* A call that returns what its record held to the call that awaits it.
LEMMA ReturnsRead ==
  ASSUME Shape, NEW ms, NEW js, NEW d, Reads(stack, ms, js, d), Len(stack) > 1,
         Top.left = <<>>, Leaves(<<>>)
  PROVE  \E js2 : Reads(stack', ms, js2, 0)
<1> DEFINE n == Len(stack)
           o == n - 1
           outer == stack[o]
           kept == With(outer, <<>> \o outer.left, Store(Top.into, outer.read, Top.read, "delimited"))
           js2 == [k \in 1 .. o |-> IF k = o THEN js[o] + 1 ELSE js[k]]
           p == <<outer.type, ms[o]>>
           piece == Pieces(outer.type, ms[o])[js[o] + 1]
<1>1. /\ n \in Nat \ {0} /\ Top = stack[n] /\ n \in 1 .. n /\ o \in 1 .. n /\ o \in 1 .. o /\ o \in Nat
      /\ o + 1 = n
  BY TopIsLast
<1>2. /\ IsList(stack') /\ Len(stack') = o /\ stack'[o] = kept
      /\ \A k \in 1 .. n - 2 : stack'[k] = stack[k]
  BY LeavesIs
<1>3. /\ ms[1] = sent /\ d \in Nat
      /\ \A k \in 1 .. n : HasRead(stack[k], ms[k], js[k])
      /\ \A k \in 1 .. n - 1 : Awaits(stack[k], ms[k], js[k], stack[k + 1], ms[k + 1])
      /\ IsLeft(Top, ms[n], js[n], d)
  BY <1>1 DEF Reads
<1>4. Top.read = ms[n]
  BY <1>1, <1>3, NothingIsLeft
<1>5. Awaits(outer, ms[o], js[o], Top, ms[n]) /\ HasRead(outer, ms[o], js[o])
  BY <1>1, <1>3
<1>6. /\ js[o] + 1 \in 1 .. Len(Encode[p]) /\ IsLeft(outer, ms[o], js[o] + 1, 0)
      /\ HoldsMessage(piece.field) /\ Top.into = piece.field /\ ms[n] = piece.part
  BY <1>5 DEF Awaits
<1>7. p \in Everything /\ js[o] \in 0 .. Len(Encode[p]) /\ outer.read = ReadAfter(outer.type, ms[o], js[o])
  BY <1>5 DEF HasRead
<1>9. Len(Encode[p]) \in Nat /\ Len(Encode[p]) = Len(Pieces(outer.type, ms[o]))
      /\ IsType(outer.type) /\ IsMessage(outer.type, ms[o])
  BY <1>7, EncodedIsListed, Sent DEF IsList
<1>10. ReadAfter(outer.type, ms[o], js[o] + 1) = Store(Top.into, outer.read, Top.read, "delimited")
  BY <1>4, <1>5, ReturnedIsStored
<1>11. <<>> \o outer.left = outer.left
  <2>1. IsList(outer.left)
    BY <1>6 DEF IsLeft
  <2>2. outer.left \in Seq({outer.left[k] : k \in 1 .. Len(outer.left)})
    BY <2>1, ListIsSeq
  <2> HIDE DEF outer
  <2> QED
    BY <2>2, ConcatEmptySeq
<1>12. /\ kept.type = outer.type /\ kept.into = outer.into /\ kept.left = outer.left
       /\ kept.read = ReadAfter(outer.type, ms[o], js[o] + 1)
  <2>1. /\ kept.type = outer.type /\ kept.into = outer.into /\ kept.left = <<>> \o outer.left
        /\ kept.read = Store(Top.into, outer.read, Top.read, "delimited")
    BY WithFields
  <2> HIDE DEF kept, outer
  <2> QED
    BY <1>10, <1>11, <2>1
<1>13. HasRead(kept, ms[o], js[o] + 1)
  <2>1. js[o] + 1 \in 0 .. Len(Encode[p])
    BY <1>6, <1>9
  <2> HIDE DEF kept, outer
  <2> QED
    BY <1>7, <1>12, <2>1 DEF HasRead
<1>14. IsLeft(kept, ms[o], js[o] + 1, 0)
  <2> HIDE DEF kept, outer
  <2> QED
    BY <1>6, <1>12 DEF IsLeft
<1>15. js2[o] = js[o] + 1 /\ \A k \in 1 .. o : k # o => js2[k] = js[k]
  <2> HIDE DEF o
  <2> QED
    BY <1>1
<1> HIDE DEF kept, js2, p, piece, n
<1>16. \A k \in 1 .. o : k = o \/ (k \in 1 .. n - 2 /\ k \in 1 .. n - 1 /\ k \in 1 .. n)
  BY <1>1
<1>17. \A k \in 1 .. o : HasRead(stack'[k], ms[k], js2[k])
  <2> TAKE k \in 1 .. o
  <2> HIDE DEF o
  <2>1. CASE k = o
    BY <1>2, <1>13, <1>15, <2>1
  <2>2. CASE k # o
    BY <1>2, <1>3, <1>15, <1>16, <2>2
  <2> QED
    BY <2>1, <2>2
<1>18. \A k \in 1 .. o - 1 : Awaits(stack'[k], ms[k], js2[k], stack'[k + 1], ms[k + 1])
  <2> TAKE k \in 1 .. o - 1
  <2>1. k \in 1 .. o /\ k # o /\ k + 1 \in 1 .. o
    BY <1>1
  <2>2. stack'[k] = stack[k] /\ js2[k] = js[k]
    BY <1>2, <1>15, <1>16, <2>1
  <2>3. stack'[k + 1].type = stack[k + 1].type /\ stack'[k + 1].into = stack[k + 1].into
    <3>1. CASE k + 1 = o
      BY <1>2, <1>12, <3>1
    <3>2. CASE k + 1 # o
      BY <1>2, <1>16, <2>1, <3>2
    <3> QED
      BY <3>1, <3>2
  <2>4. Awaits(stack[k], ms[k], js[k], stack[k + 1], ms[k + 1])
    BY <1>3, <1>16, <2>1
  <2> QED
    BY <2>2, <2>3, <2>4 DEF Awaits
<1>19. IsLeft(stack'[o], ms[o], js2[o], 0)
  BY <1>2, <1>14, <1>15
<1> HIDE DEF o
<1>20. Reads(stack', ms, js2, 0)
  BY <1>2, <1>3, <1>17, <1>18, <1>19 DEF Reads
<1> QED
  BY <1>20
\* The next record of what a call reads: of a field of its own, stored as it was sent.
IsNext(frame, m, j, record) ==
  LET field == FieldOf(frame.type, record)
      part  == Pieces(frame.type, m)[j + 1].part
  IN  /\ Fields(frame.type, record) # {} /\ field = Pieces(frame.type, m)[j + 1].field
      /\ record.wire # "end group" /\ record.nested = HoldsMessage(field)
      /\ ~HoldsMessage(field) =>
           /\ record.holds # TooLarge
           /\ ReadAfter(frame.type, m, j + 1) = Store(field, frame.read, record.holds, record.wire)
      /\ HoldsMessage(field) =>
           /\ <<OfType(field, frame.type), part>> \in Everything
           /\ record.holds = Encode[<<OfType(field, frame.type), part>>]

LEMMA NextRecord ==
  ASSUME NEW frame, NEW m, NEW j, HasRead(frame, m, j),
         j + 1 \in 1 .. Len(Encode[<<frame.type, m>>]),
         NEW record, record = Encode[<<frame.type, m>>][j + 1]
  PROVE  IsNext(frame, m, j, record)
<1> DEFINE t == frame.type
           p == <<t, m>>
           field == FieldOf(t, record)
           piece == Pieces(t, m)[j + 1]
<1>1. p \in Everything /\ j \in 0 .. Len(Encode[p]) /\ frame.read = ReadAfter(t, m, j)
  BY DEF HasRead
<1>2. p[1] = t /\ p[2] = m /\ j + 1 \in 1 .. Len(Encode[p]) /\ record = Encode[p][j + 1]
  OBVIOUS
<1> HIDE DEF p, t, piece
<1>3. Pieces(p[1], p[2])[j + 1] = piece
  BY <1>2, Zenon DEF piece
<1>4. /\ Fields(t, record) # {} /\ field = piece.field
      /\ record.nested = HoldsMessage(piece.field) /\ record.wire = piece.field.wire
      /\ record.wire # "end group"
      /\ ~HoldsMessage(piece.field) => record.holds = piece.part /\ record.holds # TooLarge
      /\ HoldsMessage(piece.field) =>
           /\ <<OfType(piece.field, t), piece.part>> \in Everything
           /\ record.holds = Encode[<<OfType(piece.field, t), piece.part>>]
  <2> DEFINE k == j + 1
  <2>0. p \in Everything /\ k \in 1 .. Len(Encode[p]) /\ record = Encode[p][k]
        /\ Pieces(p[1], p[2])[k] = piece
    BY <1>1, <1>2, <1>3
  <2> HIDE DEF k
  <2>1. LET theirs == Encode[p][k]
            own    == Pieces(p[1], p[2])[k]
        IN  /\ Fields(p[1], theirs) # {} /\ FieldOf(p[1], theirs) = own.field
            /\ theirs.nested = HoldsMessage(own.field) /\ theirs.wire = own.field.wire
            /\ theirs.wire # "end group"
            /\ ~HoldsMessage(own.field) => theirs.holds = own.part /\ theirs.holds # TooLarge
            /\ HoldsMessage(own.field) =>
                 /\ <<OfType(own.field, p[1]), own.part>> \in Everything
                 /\ theirs.holds = Encode[<<OfType(own.field, p[1]), own.part>>]
                 /\ own.field.wire = "delimited"
    BY <2>0, OwnRecord, Zenon
  <2> QED
    BY <1>2, <2>0, <2>1, Zenon
<1>5. IsType(t) /\ IsMessage(t, m) /\ Len(Encode[p]) = Len(Pieces(t, m)) /\ Len(Encode[p]) \in Nat
  BY <1>1, <1>2, Sent, EncodedIsListed DEF IsList
<1>6. ReadAfter(t, m, j + 1) = Store(piece.field, ReadAfter(t, m, (j + 1) - 1), piece.part, piece.field.wire)
  <2>1. j + 1 \in 1 .. Len(Pieces(t, m))
    BY <1>2, <1>5
  <2> QED
    BY <1>5, <2>1, NextRead, Zenon DEF piece
<1>7. (j + 1) - 1 = j
  BY <1>1, <1>5
<1> HIDE DEF field
<1>8. ~HoldsMessage(field) => ReadAfter(t, m, j + 1) = Store(field, frame.read, record.holds, record.wire)
  BY <1>1, <1>4, <1>6, <1>7
<1> QED
  BY <1>4, <1>8, Zenon DEF field, t, piece, IsNext

\* What is given to another call is the message of that record.
LEMMA InnerBegins ==
  ASSUME NEW type, NEW m, <<type, m>> \in Everything, NEW into
  PROVE  LET frame == Frame(type, Encode[<<type, m>>], into)
         IN  /\ HasRead(frame, m, 0) /\ IsLeft(frame, m, 0, 0) /\ IsFrame(frame)
             /\ frame.type = type /\ frame.into = into
<1> DEFINE frame == Frame(type, Encode[<<type, m>>], into)
<1>1. /\ frame.type = type /\ frame.left = Encode[<<type, m>>] /\ frame.read = CreateBase(type)
      /\ frame.into = into /\ IsFrame(frame)
  BY DEF Frame, IsFrame
<1>2. IsList(Encode[<<type, m>>]) /\ Len(Encode[<<type, m>>]) \in Nat
  BY EncodedIsListed DEF IsList
<1>3. IsType(type) /\ IsMessage(type, m)
  BY Sent
<1> HIDE DEF frame
<1>4. HasRead(frame, m, 0)
  BY <1>1, <1>2, <1>3, ReadAfterIs DEF HasRead
<1>5. IsLeft(frame, m, 0, 0)
  BY <1>1, <1>2 DEF IsLeft
<1> QED
  BY <1>1, <1>4, <1>5 DEF frame

LEMMA StepIsRead == IInv /\ [Next]_vars => IsRead'
<1> SUFFICES ASSUME IInv, [Next]_vars PROVE IsRead'
  OBVIOUS
<1> DEFINE n == Len(stack)
           record == Head(Top.left)
           field == FieldOf(Top.type, record)
           rest == Tail(Top.left)
<1>1. Shape /\ IsRead
  BY DEF IInv
<1>2. n \in Nat \ {0} /\ Top = stack[n] /\ n \in 1 .. n
  BY <1>1, TopIsLast
<1>3. sent' = sent /\ (Clean' => Clean)
  <2>1. CASE OddRecord
    <3>1. sent' = sent /\ \E r : oddities' = Append(oddities, r)
      BY <2>1 DEF OddRecord
    <3>2. IsList(oddities)
      BY <1>1 DEF Shape
    <3>3. PICK r : oddities' = Append(oddities, r)
      BY <3>1
    <3>4. /\ IsList(oddities') /\ Len(oddities') = Len(oddities) + 1
          /\ \A k \in 1 .. Len(oddities) : oddities'[k] = oddities[k]
      BY <3>2, <3>3, AppendToList
    <3>5. /\ DOMAIN oddities = 1 .. Len(oddities) /\ DOMAIN oddities' = 1 .. Len(oddities')
          /\ Len(oddities) \in Nat
      BY <3>2, <3>4, ListIsSeq
    <3>6. \A k \in 1 .. Len(oddities) : k \in 1 .. Len(oddities')
      BY <3>4, <3>5
    <3> QED
      BY <3>1, <3>4, <3>5, <3>6 DEF Clean
  <2>2. CASE ~OddRecord
    BY <2>2 DEF Next, vars, ReadScalar, RefuseNumber, EnterMessage, Misread, LeaveMessage, Finish,
         StopAtGroup, Skip, Clean
  <2> QED
    BY <2>1, <2>2
<1>4. SUFFICES ASSUME Clean'
               PROVE  /\ \E ms, js, d : /\ Reads(stack', ms, js, d)
                                        /\ outcome' = "reading" => (Overflows' <=> Waits(d)')
                      /\ outcome' = "read" => stack'[1].read = sent /\ ~Overflows'
                      /\ outcome' = "threw" => Overflows'
  BY <1>3 DEF IsRead, Reads
<1>5. Clean /\ (outcome = "read" => stack[1].read = sent /\ ~Overflows)
      /\ (outcome = "threw" => Overflows)
  BY <1>1, <1>3, <1>4 DEF IsRead
<1>6. PICK ms, js, d : Reads(stack, ms, js, d) /\ (outcome = "reading" => (Overflows <=> Waits(d)))
  BY <1>1, <1>5 DEF IsRead
\* With nothing odd in front, no number is to come that does not fit.
<1>a. ~Waits(0)' /\ (d = 0 => ~Waits(d))
  BY DEF Waits
<1>b. oddities' = oddities => (Overflows' <=> Overflows)
  BY DEF Overflows
<1>7. HasRead(Top, ms[n], js[n]) /\ IsLeft(Top, ms[n], js[n], d) /\ d \in Nat
  BY <1>2, <1>6 DEF Reads
\* What comes next, if anything does: a record to skip, or the message's own.
<1> DEFINE Strange(read) == /\ d - 1 \in Nat /\ IsOdd(Top.type, record)
                            /\ IsLeft(With(Top, rest, read), ms[n], js[n], d - 1)
                            /\ record = Top.left[1]
                            /\ \A k \in 1 .. d - 1 : With(Top, rest, read).left[k] = Top.left[k + 1]
           Own(read) == /\ d = 0 /\ js[n] + 1 \in 1 .. Len(Encode[<<Top.type, ms[n]>>])
                        /\ record = Encode[<<Top.type, ms[n]>>][js[n] + 1]
                        /\ IsLeft(With(Top, rest, read), ms[n], js[n] + 1, 0)
<1>8. Top.left # <<>> => \A read : Strange(read) \/ Own(read)
  BY <1>1, <1>6, HeadIs
<1>9. ASSUME NEW read, Own(read)
      PROVE  IsNext(Top, ms[n], js[n], record)
  BY <1>7, <1>9, NextRecord
<1>10. ASSUME NEW read, Strange(read)
       PROVE  IsOdd(Top.type, record) /\ record.wire # "end group"
  BY <1>10 DEF IsOdd, IsSkipped, IsRefused
<1>11. CASE UNCHANGED vars
  BY <1>5, <1>6, <1>11 DEF vars, Overflows, Waits, Top
<1>12. CASE ReadScalar
  <2> DEFINE read == Store(field, Top.read, record.holds, record.wire)
             next == With(Top, rest, read)
  <2>1. /\ Top.left # <<>> /\ Fields(Top.type, record) # {} /\ ~HoldsMessage(field)
        /\ stack' = After(read) /\ outcome' = outcome /\ outcome = "reading"
        /\ oddities' = oddities /\ record.holds # TooLarge
    BY <1>12 DEF ReadScalar, Expected, Reading
  <2> HIDE DEF read
  <2>2. Own(read)
    BY <1>8, <1>10, <2>1 DEF IsOdd, IsSkipped, IsRefused
  <2>3. ReadAfter(Top.type, ms[n], js[n] + 1) = read
    BY <1>9, <2>1, <2>2 DEF read, IsNext
  <2>4. Replaces(stack', n, next)
    BY <1>1, <2>1, AfterIs
  <2>5. HasRead(next, ms[n], js[n] + 1) /\ IsLeft(next, ms[n], js[n] + 1, 0)
    <3>1. next.type = Top.type /\ next.read = read
      BY WithFields
    <3>2. js[n] + 1 \in 0 .. Len(Encode[<<Top.type, ms[n]>>])
      BY <2>2
    <3>3. IsLeft(next, ms[n], js[n] + 1, 0)
      BY <2>2
    <3> HIDE DEF next, n
    <3>4. <<Top.type, ms[n]>> \in Everything
      BY <1>7 DEF HasRead
    <3> QED
      BY <2>3, <3>1, <3>2, <3>3, <3>4 DEF HasRead
  <2>6. \E js2 : Reads(stack', ms, js2, 0)
    BY <1>1, <1>6, <2>4, <2>5, KeepsReading
  <2>7. ~Overflows'
    BY <1>6, <1>a, <1>b, <2>1, <2>2
  <2> QED
    BY <1>a, <2>1, <2>6, <2>7
<1>13. CASE EnterMessage
  <2> DEFINE m   == Pieces(Top.type, ms[n])[js[n] + 1].part
             top == With(Top, rest, Top.read)
             frame == Frame(OfType(field, Top.type), record.holds, field)
  <2>1. /\ Top.left # <<>> /\ Fields(Top.type, record) # {} /\ HoldsMessage(field)
        /\ stack' = Append(After(Top.read), frame) /\ outcome' = outcome /\ outcome = "reading"
        /\ oddities' = oddities /\ record.nested
    BY <1>13 DEF EnterMessage, Expected, Reading
  <2>2. Own(Top.read)
    BY <1>8, <1>10, <2>1 DEF IsOdd, IsSkipped, IsRefused
  <2>3. /\ <<OfType(field, Top.type), m>> \in Everything
        /\ record.holds = Encode[<<OfType(field, Top.type), m>>]
        /\ field = Pieces(Top.type, ms[n])[js[n] + 1].field
    BY <1>9, <2>1, <2>2 DEF IsNext
  <2>4. /\ HasRead(frame, m, 0) /\ IsLeft(frame, m, 0, 0) /\ IsFrame(frame)
        /\ frame.type = OfType(field, Top.type) /\ frame.into = field
    <3> DEFINE type == OfType(field, Top.type)
               into == field
    <3>1. <<type, m>> \in Everything /\ frame = Frame(type, Encode[<<type, m>>], into)
      BY <2>3
    <3>2. LET begun == Frame(type, Encode[<<type, m>>], into)
          IN  /\ HasRead(begun, m, 0) /\ IsLeft(begun, m, 0, 0) /\ IsFrame(begun)
              /\ begun.type = type /\ begun.into = into
      <4> HIDE DEF type, into, m
      <4> QED
        BY <3>1, InnerBegins
    <3> HIDE DEF frame
    <3> QED
      BY <3>1, <3>2, Zenon
  <2>5. Replaces(After(Top.read), n, top)
    BY <1>1, AfterIs
  <2>6. /\ top.type = Top.type /\ IsLeft(top, ms[n], js[n] + 1, 0)
        /\ js[n] + 1 \in 1 .. Len(Encode[<<Top.type, ms[n]>>])
    BY <2>2, WithFields
  <2> HIDE DEF frame, top
  <2>7. Awaits(top, ms[n], js[n], frame, m)
    <3> HIDE DEF n, field
    <3> QED
      BY <2>1, <2>3, <2>4, <2>6 DEF Awaits
  <2> HIDE DEF m
  <2>8. \E ms2, js2 : Reads(Append(After(Top.read), frame), ms2, js2, 0)
    BY <1>1, <1>6, <2>4, <2>5, <2>7, BeginsReading DEF top
  <2>9. ~Overflows'
    BY <1>6, <1>a, <1>b, <2>1, <2>2
  <2> QED
    BY <1>a, <2>1, <2>8, <2>9
<1>14. CASE LeaveMessage
  <2>1. n > 1 /\ Top.left = <<>> /\ Leaves(<<>>) /\ outcome = "reading" /\ oddities' = oddities
    BY <1>14 DEF LeaveMessage, Reading
  <2>2. outcome' = outcome
    BY <2>1 DEF Leaves
  <2>3. \E js2 : Reads(stack', ms, js2, 0)
    BY <1>1, <1>6, <2>1, ReturnsRead
  <2>4. d = 0
    BY <1>7, <2>1, NothingIsLeft
  <2>5. ~Overflows'
    BY <1>6, <1>a, <1>b, <2>1, <2>4
  <2> QED
    BY <1>a, <2>1, <2>2, <2>3, <2>5
<1>15. CASE Finish
  <2>1. n = 1 /\ Top.left = <<>> /\ stack' = stack /\ outcome' = "read" /\ oddities' = oddities
        /\ outcome = "reading"
    BY <1>15 DEF Finish, Reading
  <2>2. Top.read = ms[n] /\ d = 0
    BY <1>7, <2>1, NothingIsLeft
  <2>4. ~Overflows'
    BY <1>6, <1>a, <1>b, <2>1, <2>2
  <2>3. stack[1].read = sent
    BY <1>2, <1>6, <2>1, <2>2 DEF Reads
  <2> QED
    BY <1>6, <2>1, <2>3, <2>4
<1>16. CASE Skip
  <2> DEFINE next == With(Top, rest, Top.read)
  <2>1. /\ Top.left # <<>> /\ Fields(Top.type, record) = {}
        /\ stack' = After(Top.read) /\ outcome' = outcome /\ outcome = "reading"
        /\ oddities' = oddities
    BY <1>16 DEF Skip, Reading
  <2>2. Strange(Top.read)
    BY <1>8, <1>9, <2>1 DEF IsNext
  <2>3. Replaces(stack', n, next)
    BY <1>1, <2>1, AfterIs
  <2>4. next.type = Top.type /\ next.read = Top.read
    BY WithFields
  <2>5. d - 1 \in Nat /\ IsLeft(next, ms[n], js[n], d - 1)
        /\ record = Top.left[1] /\ \A k \in 1 .. d - 1 : next.left[k] = Top.left[k + 1]
    BY <2>2
  <2> HIDE DEF next
  <2>6. HasRead(next, ms[n], js[n])
    BY <1>7, <2>4 DEF HasRead
  <2>7. \E js2 : Reads(stack', ms, js2, d - 1)
    BY <1>1, <1>6, <2>3, <2>5, <2>6, KeepsReading DEF next
  <2>8. Top' = next
    BY <1>1, <2>3, NextTop
  <2>9. Waits(d - 1)' <=> Waits(d)
    <3>1. Waits(d - 1)' <=> \E k \in 1 .. d - 1 : IsRefused(Top.type, Top.left[k + 1])
      <4>1. Waits(d - 1)' <=> \E k \in 1 .. d - 1 : IsRefused(Top'.type, Top'.left[k])
        BY DEF Waits
      <4> QED
        BY <2>4, <2>5, <2>8, <4>1
    <3>2. ~IsRefused(Top.type, Top.left[1])
      BY <2>1, <2>5 DEF IsRefused
    <3>3. \A k \in 1 .. d : k = 1 \/ (k - 1 \in 1 .. d - 1 /\ (k - 1) + 1 = k)
      BY <1>7
    <3>4. \A k \in 1 .. d - 1 : k + 1 \in 1 .. d
      BY <1>7
    <3> QED
      BY <3>1, <3>2, <3>3, <3>4 DEF Waits
  <2> QED
    BY <1>6, <1>b, <2>1, <2>7, <2>9
<1>17. CASE OddRecord
  <2>1. PICK odd \in Odd(Top.type) :
          /\ stack' = [stack EXCEPT ![n].left = <<odd>> \o @]
          /\ oddities' = Append(oddities, odd)
    BY <1>17 DEF OddRecord
  <2>2. outcome' = outcome /\ outcome = "reading"
    BY <1>17 DEF OddRecord, Reading
  <2>3. /\ odd.wire # "end group"
        /\ Overflows' <=> Overflows \/ odd.holds = TooLarge
    <3>1. IsList(oddities)
      BY <1>1 DEF Shape
    <3>2. /\ IsList(oddities') /\ Len(oddities') = Len(oddities) + 1
          /\ oddities'[Len(oddities) + 1] = odd
          /\ \A k \in 1 .. Len(oddities) : oddities'[k] = oddities[k]
      BY <2>1, <3>1, AppendToList
    <3>3. /\ DOMAIN oddities = 1 .. Len(oddities) /\ DOMAIN oddities' = 1 .. Len(oddities')
          /\ Len(oddities) \in Nat
      BY <3>1, <3>2, ListIsSeq
    <3>4. odd.wire # "end group"
      <4>1. Len(oddities) + 1 \in DOMAIN oddities'
        BY <3>2, <3>3
      <4>2. oddities'[Len(oddities) + 1].wire # "end group"
        BY <1>4, <4>1 DEF Clean
      <4> QED
        BY <3>2, <4>2
    <3>5. \A k \in 1 .. Len(oddities') : k = Len(oddities) + 1 \/ k \in 1 .. Len(oddities)
      BY <3>2, <3>3
    <3>6. \A k \in 1 .. Len(oddities) : k \in 1 .. Len(oddities')
      BY <3>2, <3>3
    <3>7. Len(oddities) + 1 \in 1 .. Len(oddities')
      BY <3>2, <3>3
    <3> QED
      BY <3>2, <3>3, <3>4, <3>5, <3>6, <3>7 DEF Overflows
  <2>4. IsOdd(Top.type, odd) /\ (IsRefused(Top.type, odd) <=> odd.holds = TooLarge)
    <3>1. IsType(Top.type)
      <4>1. <<Top.type, ms[n]>> \in Everything
        BY <1>7 DEF HasRead
      <4> QED
        BY <4>1, Sent
    <3>2. IF odd.holds = TooLarge THEN IsRefused(Top.type, odd) ELSE IsSkipped(Top.type, odd)
      BY <2>3, <3>1, OddRecordIsOdd
    <3> QED
      BY <3>2 DEF IsOdd, IsRefused
  <2> DEFINE left == <<odd>> \o Top.left
             next == With(Top, left, Top.read)
             m == ms[n]
             z == Len(Encode[<<Top.type, m>>])
  <2>5. Replaces(stack', n, next)
    BY <1>1, <2>1, OddIs
  <2>6. next.type = Top.type /\ next.read = Top.read /\ next.left = left
    <3> HIDE DEF left
    <3> QED
      BY WithFields
  <2>7. /\ IsList(Top.left) /\ Len(Top.left) = d + (z - js[n])
        /\ \A k \in 1 .. d : IsOdd(Top.type, Top.left[k])
        /\ \A k \in 1 .. z - js[n] : Top.left[d + k] = Encode[<<Top.type, m>>][js[n] + k]
    BY <1>7 DEF IsLeft
  <2>8. js[n] \in 0 .. z /\ z \in Nat
    BY <1>7, EncodedIsListed DEF HasRead, IsList
  <2>9. /\ IsList(left) /\ Len(left) = Len(Top.left) + 1 /\ left[1] = odd
        /\ \A k \in 1 .. Len(Top.left) : left[k + 1] = Top.left[k]
    BY <2>7, InFrontOfList
  <2> HIDE DEF left, next, m
  <2>10. HasRead(next, m, js[n])
    BY <1>7, <2>6 DEF HasRead, m
  <2>a. \A k \in 1 .. d + 1 : k # 1 => k - 1 \in 1 .. d /\ left[k] = Top.left[k - 1]
    <3> TAKE k \in 1 .. d + 1
    <3> HAVE k # 1
    <3>1. k - 1 \in 1 .. d /\ k - 1 \in 1 .. Len(Top.left) /\ (k - 1) + 1 = k
      <4> HIDE DEF z, n
      <4> QED
        BY <1>7, <2>7, <2>8
    <3> QED
      BY <2>9, <3>1
  <2>11. \A k \in 1 .. d + 1 : IsOdd(Top.type, left[k])
    BY <2>4, <2>7, <2>9, <2>a
  <2>12. \A k \in 1 .. z - js[n] : left[(d + 1) + k] = Encode[<<Top.type, m>>][js[n] + k]
    <3> TAKE k \in 1 .. z - js[n]
    <3> HIDE DEF z
    <3>1. d + k \in 1 .. Len(Top.left) /\ (d + k) + 1 = (d + 1) + k
      BY <1>7, <2>7, <2>8
    <3> QED
      BY <2>7, <2>9, <3>1
  <2>13. Len(left) = (d + 1) + (z - js[n]) /\ d + 1 \in Nat
    <3>1. /\ Len(left) = Len(Top.left) + 1 /\ Len(Top.left) = d + (z - js[n])
          /\ js[n] \in 0 .. z /\ z \in Nat /\ d \in Nat
      BY <1>7, <2>7, <2>8, <2>9
    <3> HIDE DEF z, n
    <3> QED
      BY <3>1
  <2>14. IsLeft(next, m, js[n], d + 1)
    BY <2>6, <2>9, <2>11, <2>12, <2>13 DEF IsLeft
  <2>15. \E js2 : Reads(stack', ms, js2, d + 1)
    BY <1>1, <1>6, <2>5, <2>10, <2>13, <2>14, KeepsReading DEF next, m
  <2>16. Top' = next
    BY <1>1, <2>5, NextTop
  <2>17. Waits(d + 1)' <=> Waits(d) \/ odd.holds = TooLarge
    <3>1. Waits(d + 1)' <=> \E k \in 1 .. d + 1 : IsRefused(Top.type, left[k])
      <4>1. Waits(d + 1)' <=> \E k \in 1 .. d + 1 : IsRefused(Top'.type, Top'.left[k])
        BY DEF Waits
      <4> QED
        BY <2>6, <2>16, <4>1
    <3>2. 1 \in 1 .. d + 1 /\ left[1] = odd
      BY <1>7, <2>9
    <3>3. \A k \in 1 .. d : k + 1 \in 1 .. d + 1 /\ k + 1 # 1 /\ (k + 1) - 1 = k
      BY <1>7
    <3>4. \A k \in 1 .. d : left[k + 1] = Top.left[k]
      BY <2>a, <3>3
    <3> QED
      BY <2>4, <2>a, <3>1, <3>2, <3>3, <3>4 DEF Waits
  <2> QED
    BY <1>6, <2>2, <2>3, <2>15, <2>17
\* Of what is not the message's own only the number that does not fit is refused.
<1>18. CASE RefuseNumber \/ Misread \/ StopAtGroup
  <2>1. Top.left # <<>> /\ outcome = "reading"
    BY <1>18 DEF RefuseNumber, Misread, StopAtGroup, Expected, Reading
  <2>2. Strange(Top.read) \/ Own(Top.read)
    BY <1>8, <2>1
  <2>3. ~StopAtGroup
    BY <1>9, <1>10, <2>2 DEF IsNext, StopAtGroup
  <2>4. ~Misread
    <3>1. CASE Own(Top.read)
      BY <1>9, <3>1 DEF IsNext, Misread, Expected
    <3>2. CASE Strange(Top.read)
      <4>1. CASE IsSkipped(Top.type, record)
        BY <4>1 DEF IsSkipped, Misread, Expected
      <4>2. CASE IsRefused(Top.type, record)
        <5>1. record.nested = FALSE /\ field.kind = "uint64"
          BY <4>2 DEF IsRefused
        <5>2. HoldsMessage(field) = FALSE
          BY <5>1 DEF HoldsMessage
        <5> QED
          BY <5>1, <5>2 DEF Misread, Expected
      <4> QED
        BY <3>2, <4>1, <4>2 DEF IsOdd
    <3> QED
      BY <2>2, <3>1, <3>2
  <2>5. /\ Fields(Top.type, record) # {} /\ record.holds = TooLarge /\ ~HoldsMessage(field)
        /\ outcome' = "threw" /\ UNCHANGED <<stack, oddities>>
    BY <1>18, <2>3, <2>4 DEF RefuseNumber, Expected
  <2>6. Strange(Top.read)
    BY <1>9, <2>2, <2>5 DEF IsNext
  <2>7. 1 \in 1 .. d /\ IsRefused(Top.type, Top.left[1])
    <3>1. d - 1 \in Nat /\ IsOdd(Top.type, record) /\ record = Top.left[1]
      BY <2>6
    <3>2. 1 \in 1 .. d
      BY <1>7, <3>1
    <3>3. IsRefused(Top.type, record)
      BY <2>5, <3>1 DEF IsOdd, IsSkipped
    <3> QED
      BY <3>1, <3>2, <3>3
  <2>8. Overflows'
    BY <1>6, <1>b, <2>1, <2>5, <2>7 DEF Waits
  <2> QED
    BY <1>6, <2>5, <2>8
<1> QED
  BY <1>11, <1>12, <1>13, <1>14, <1>15, <1>16, <1>17, <1>18 DEF Next
--------------------------------------------------------------------------------
LEMMA StepIInv == IInv /\ [Next]_vars => IInv'
  BY StepShape, StepIsRead DEF IInv

LEMMA AlwaysIInv == Spec => []IInv
<1>1. Init => IInv
  BY InitIInv
<1>2. IInv /\ [Next]_vars => IInv'
  BY StepIInv
<1> QED
  BY <1>1, <1>2, PTL DEF Spec

\* Whatever the reader's schema: however many records it does not know stand between
\* those it knows, and however deep messages hold messages, decode() gives back what
\* encode() was given; and it throws if a number comes that it cannot represent, never
\* otherwise.
THEOREM ReadingGivesBackWhatWasSent == Spec => []RoundTrip
<1>1. IInv => RoundTrip
  BY DEF IInv, IsRead, RoundTrip, Clean, Overflows
<1> QED
  BY <1>1, AlwaysIInv, PTL

\* accessibilityInfo() by a marker reaches the companion with a depth that looks below
\* the root, whatever depth its caller asks for or leaves out.
THEOREM MarkerQueriesAreSearches == Spec => []MarkerQueriesSearch
<1>1. ASSUME IInv PROVE MarkerQueriesSearch
  <2> SUFFICES ASSUME outcome = "read", oddities = <<>>, stack[1].type = AccessibilityInfoRequest,
                      stack[1].read.marker # Default
               PROVE  stack[1].read.depth # Default
    BY DEF MarkerQueriesSearch
  <2>1. Clean
    <3>1. DOMAIN oddities = 1 .. 0
      BY NoList, ListIsSeq
    <3>2. \A k \in 1 .. 0 : FALSE
      OBVIOUS
    <3> QED
      BY <3>1, <3>2, Zenon DEF Clean
  <2>2. stack[1].read = sent /\ sent \in Messages(AccessibilityInfoRequest)
    BY <1>1, <2>1 DEF IInv, IsRead, Shape
  <2>3. PICK query \in Queries : sent = InfoRequest(query)
    BY <2>2 DEF Messages
  <2> DEFINE base == CreateBase(AccessibilityInfoRequest)
             full == [base EXCEPT !.point = query.point, !.format = "other",
                                  !.marker = OrDefault(query.marker), !.depth = Depth(query),
                                  !.keys = query.keys]
  <2>4. {"marker", "depth"} \subseteq DOMAIN base
    <3> DEFINE type == AccessibilityInfoRequest
    <3>1. DOMAIN type = 1 .. 9 /\ type[3] = Text(4, "marker") /\ type[5] = Uint32(6, "depth")
      BY DEF AccessibilityInfoRequest
    <3>2. type[3].name = "marker" /\ type[5].name = "depth"
      BY <3>1 DEF Text, Uint32, Plain, Field
    <3> HIDE DEF type
    <3>3. DOMAIN CreateBase(type) = {type[i].name : i \in DOMAIN type}
      BY DEF CreateBase
    <3> QED
      BY <3>1, <3>2, <3>3 DEF type
  <2>5. sent.marker = OrDefault(query.marker) /\ sent.depth = Depth(query)
    <3> HIDE DEF base
    <3>1. full.marker = OrDefault(query.marker) /\ full.depth = Depth(query)
      BY <2>4
    <3> QED
      BY <2>3, <3>1 DEF InfoRequest, base
  <2>6. query.marker # <<>>
    BY <2>2, <2>5 DEF OrDefault
  <2>7. IsList(query.depth) /\ Len(query.depth) <= 1
    BY QueriesAssumption DEF IsQuery, IsOptional
  <2>8. Depth(query) # Default
    <3>1. CASE query.depth \in {<<>>, <<Default>>}
      BY <2>6, <3>1 DEF Depth, MarkerDefaultDepth, Default
    <3>2. CASE query.depth \notin {<<>>, <<Default>>}
      <4>1. Len(query.depth) = 1
        <5>1. Len(query.depth) # 0
          BY <2>7, <3>2, EmptyList
        <5>2. Len(query.depth) \in Nat
          BY <2>7, ListIsSeq, Zenon
        <5> DEFINE length == Len(query.depth)
        <5>3. length \in Nat /\ length # 0 /\ length <= 1
          BY <2>7, <5>1, <5>2
        <5> HIDE DEF length
        <5>4. length = 1
          BY <5>3
        <5> QED
          BY <5>4 DEF length
      <4>2. query.depth = <<query.depth[1]>>
        <5> DEFINE one == <<query.depth[1]>>
        <5>1. IsList(one) /\ Len(one) = 1 /\ one[1] = query.depth[1]
          BY SingletonList
        <5> HIDE DEF one
        <5>2. \A k \in 1 .. 1 : query.depth[k] = one[k]
          BY <5>1
        <5>3. query.depth = one
          BY <2>7, <4>1, <5>1, <5>2, ListsEqual
        <5> QED
          BY <5>3 DEF one
      <4>3. query.depth[1] # Default
        BY <3>2, <4>2
      <4> QED
        BY <3>2, <4>3 DEF Depth
    <3> QED
      BY <3>1, <3>2
  <2> QED
    BY <2>2, <2>5, <2>8
<1> QED
  BY <1>1, AlwaysIInv, PTL
================================================================================
