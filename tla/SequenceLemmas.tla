--------------------------- MODULE SequenceLemmas ---------------------------
(***************************************************************************)
(* Lemmas about sequences that the proofs about the parser, the relay and  *)
(* the startup share: counting, joining and cutting, what FlattenSeq makes *)
(* of a sequence of sequences, and where in a sequence another one lies.   *)
(***************************************************************************)
EXTENDS Integers, SequencesExt, SequenceTheorems, WellFoundedInduction, TLAPS

-----------------------------------------------------------------------------
(* Counting *)

LEMMA SetInduction ==
  ASSUME NEW S, 0 \in S, \A n \in Nat : n \in S => n + 1 \in S
  PROVE  Nat \subseteq S
<1> DEFINE R == OpToRel(<, Nat)
<1>1. IsWellFoundedOn(R, Nat)
  BY NatLessThanWellFounded
<1>2. \A x, y \in Nat : <<y, x>> \in R <=> y < x
  BY DEF OpToRel
<1> HIDE DEF R
<1>3. SUFFICES ASSUME Nat \ S # {} PROVE FALSE
  OBVIOUS
<1>4. PICK x \in Nat \ S : \A y \in Nat \ S : ~(<<y, x>> \in R)
  BY <1>1, <1>3, WFMin
<1>5. x # 0 /\ x - 1 \in Nat
  OBVIOUS
<1>6. x - 1 \notin S
  BY <1>5
<1>7. x \in Nat /\ x - 1 < x
  BY <1>5
<1>8. <<x - 1, x>> \in R
  BY <1>2, <1>5, <1>7
<1>9. x - 1 \in Nat \ S
  BY <1>5, <1>6
<1> QED BY <1>4, <1>8, <1>9

\* A set of numbers has a least one.
LEMMA LeastExists ==
  ASSUME NEW T \in SUBSET Nat, T # {}
  PROVE  Min(T) \in T /\ \A y \in T : Min(T) <= y
<1> DEFINE R == OpToRel(<, Nat)
<1>1. IsWellFoundedOn(R, Nat)
  BY NatLessThanWellFounded
<1>2. \A x, y \in Nat : <<y, x>> \in R <=> y < x
  BY DEF OpToRel
<1> HIDE DEF R
<1>3. PICK x \in T : \A y \in T : ~(<<y, x>> \in R)
  BY <1>1, WFMin
<1>4. ASSUME NEW y \in T PROVE x <= y
  <2>1. x \in Nat /\ y \in Nat /\ ~(y < x)
    BY <1>2, <1>3
  <2> QED BY <2>1
<1> QED BY <1>3, <1>4 DEF Min

-----------------------------------------------------------------------------
(* Joining and cutting *)

\* Two sequences one after the other.
LEMMA Joined ==
  ASSUME NEW S, NEW s \in Seq(S), NEW t \in Seq(S)
  PROVE  /\ s \o t \in Seq(S) /\ Len(s \o t) = Len(s) + Len(t)
         /\ Len(s) \in Nat /\ Len(t) \in Nat
         /\ \A i \in 1..Len(s) : (s \o t)[i] = s[i]
         /\ \A j \in 1..Len(t) : (s \o t)[Len(s) + j] = t[j]
<1>1. s \o t \in Seq(S) /\ Len(s \o t) = Len(s) + Len(t)
      /\ Len(s) \in Nat /\ Len(t) \in Nat
  OBVIOUS
<1>2. \A i \in 1..(Len(s) + Len(t)) :
        (s \o t)[i] = IF i <= Len(s) THEN s[i] ELSE t[i - Len(s)]
  OBVIOUS
<1>3. ASSUME NEW i \in 1..Len(s) PROVE (s \o t)[i] = s[i]
  <2>1. i \in 1..(Len(s) + Len(t)) /\ i <= Len(s)
    BY <1>1
  <2> QED BY <1>2, <2>1
<1>4. ASSUME NEW j \in 1..Len(t) PROVE (s \o t)[Len(s) + j] = t[j]
  <2>1. Len(s) + j \in 1..(Len(s) + Len(t)) /\ ~(Len(s) + j <= Len(s))
        /\ (Len(s) + j) - Len(s) = j
    BY <1>1
  <2>2. (s \o t)[Len(s) + j] = t[(Len(s) + j) - Len(s)]
    BY <1>2, <2>1
  <2> QED BY <2>1, <2>2
<1> QED BY <1>1, <1>3, <1>4

\* Three of them, in either order.
Assoc(s, t, u) == (s \o t) \o u = s \o (t \o u)

LEMMA Associated == \A S : \A s, t, u \in Seq(S) : Assoc(s, t, u)
BY ConcatAssociative DEF Assoc

\* What a short send() takes and what it leaves.
LEMMA Cut ==
  ASSUME NEW S, NEW w \in Seq(S), NEW n \in 0..Len(w)
  PROVE  /\ SubSeq(w, 1, n) \in Seq(S) /\ SubSeq(w, n + 1, Len(w)) \in Seq(S)
         /\ Len(SubSeq(w, 1, n)) = n /\ Len(SubSeq(w, n + 1, Len(w))) = Len(w) - n
         /\ SubSeq(w, 1, n) \o SubSeq(w, n + 1, Len(w)) = w
<1> DEFINE x == SubSeq(w, 1, n)
           y == SubSeq(w, n + 1, Len(w))
<1>1. x \in Seq(S) /\ Len(x) = n /\ \A i \in 1..n : x[i] = w[i]
  OBVIOUS
<1>2. y \in Seq(S) /\ Len(y) = Len(w) - n /\ \A j \in 1..(Len(w) - n) : y[j] = w[n + j]
  OBVIOUS
<1> HIDE DEF x, y
<1>3. x \o y \in Seq(S) /\ Len(x \o y) = Len(w)
  BY <1>1, <1>2, Joined
<1>4. ASSUME NEW i \in 1..Len(w) PROVE (x \o y)[i] = w[i]
  <2>1. CASE i \in 1..n
    BY <1>1, <1>2, <2>1, Joined
  <2>2. CASE i \notin 1..n
    <3>1. i - n \in 1..Len(y) /\ n + (i - n) = i
      BY <1>2, <2>2
    <3>2. (x \o y)[Len(x) + (i - n)] = y[i - n]
      BY <1>1, <1>2, <3>1, Joined
    <3> QED BY <1>1, <1>2, <3>1, <3>2
  <2> QED BY <2>1, <2>2
<1>5. x \o y = w
  BY <1>3, <1>4, SeqEqual
<1> QED BY <1>1, <1>2, <1>5 DEF x, y

LEMMA ThreeJoined ==
  \A S : \A s, t \in Seq(S) : s \o t \in Seq(S)
BY ConcatProperties

-----------------------------------------------------------------------------
(* FlattenSeq *)

\* The function FlattenSeq(s) is the last value of.
IsFlat(s, f) == f = [i \in 1..Len(s) |-> IF i = 1 THEN s[i] ELSE f[i - 1] \o s[i]]

LEMMA FlattenIs ==
  ASSUME NEW s, Len(s) # 0
  PROVE  FlattenSeq(s) = (CHOOSE f : IsFlat(s, f))[Len(s)]
BY Zenon DEF FlattenSeq, IsFlat

\* Part of it, as far as n.
FlatRec(s, n, f) ==
  \A i \in 1..n : f[i] = IF i = 1 THEN s[i] ELSE f[i - 1] \o s[i]
FlatTo(s, n, f, S) == f \in [1..n -> Seq(S)] /\ FlatRec(s, n, f)

LEMMA FlatExists ==
  ASSUME NEW S, NEW s \in Seq(Seq(S))
  PROVE  \E f : FlatTo(s, Len(s), f, S)
<1> DEFINE T == {n \in Nat : n <= Len(s) => \E f : FlatTo(s, n, f, S)}
<1>1. 0 \in T
  <2>1. FlatTo(s, 0, <<>>, S)
    <3>1. <<>> \in [1..0 -> Seq(S)]
      <4>1. 1..0 = {}
        OBVIOUS
      <4>2. <<>> = [i \in 1..0 |-> <<>>]
        BY <4>1
      <4> QED BY <4>1, <4>2
    <3> QED BY <3>1 DEF FlatTo, FlatRec
  <2> QED BY <2>1
<1>2. ASSUME NEW n \in Nat, n \in T PROVE n + 1 \in T
  <2> SUFFICES ASSUME n + 1 <= Len(s) PROVE \E f : FlatTo(s, n + 1, f, S)
    OBVIOUS
  <2>1. n <= Len(s) /\ n + 1 \in 1..Len(s) /\ Len(s) \in Nat
    OBVIOUS
  <2>2. PICK f : FlatTo(s, n, f, S)
    BY <1>2, <2>1
  <2>3. s[n + 1] \in Seq(S)
    BY <2>1, ElementOfSeq
  <2> DEFINE v == IF n + 1 = 1 THEN s[n + 1] ELSE f[n] \o s[n + 1]
             g == [i \in 1..(n + 1) |-> IF i <= n THEN f[i] ELSE v]
  <2>4. v \in Seq(S)
    <3>1. CASE n = 0
      BY <2>3, <3>1
    <3>2. CASE n # 0
      <4>1. f[n] \in Seq(S) /\ n + 1 # 1
        BY <2>2, <3>2 DEF FlatTo
      <4>2. f[n] \o s[n + 1] \in Seq(S)
        BY <2>3, <4>1, ConcatProperties
      <4> QED BY <4>1, <4>2
    <3> QED BY <3>1, <3>2
  <2>5. ASSUME NEW i \in 1..(n + 1)
        PROVE  /\ g[i] \in Seq(S)
               /\ g[i] = IF i = 1 THEN s[i] ELSE g[i - 1] \o s[i]
    <3>1. CASE i <= n
      <4>1. i \in 1..n /\ (i # 1 => i - 1 \in 1..n /\ i - 1 \in 1..(n + 1) /\ i - 1 <= n)
        BY <3>1
      <4>2. g[i] = f[i] /\ (i # 1 => g[i - 1] = f[i - 1])
        BY <4>1
      <4>3. f[i] \in Seq(S) /\ f[i] = IF i = 1 THEN s[i] ELSE f[i - 1] \o s[i]
        BY <2>2, <4>1 DEF FlatTo, FlatRec
      <4> HIDE DEF g
      <4> QED BY <4>2, <4>3
    <3>2. CASE i = n + 1
      <4>1. g[i] = v /\ ~(i <= n)
        BY <3>2
      <4>2. i # 1 => i - 1 = n /\ n \in 1..(n + 1) /\ n <= n
        BY <3>2
      <4>3. i # 1 => g[i - 1] = f[n]
        BY <4>2
      <4> HIDE DEF g
      <4>4. v = IF i = 1 THEN s[i] ELSE g[i - 1] \o s[i]
        BY <3>2, <4>3
      <4> QED BY <2>4, <4>1, <4>4
    <3> QED BY <3>1, <3>2
  <2>6. FlatTo(s, n + 1, g, S)
    <3>1. g \in [1..(n + 1) -> Seq(S)]
      <4>1. \A i \in 1..(n + 1) : (IF i <= n THEN f[i] ELSE v) \in Seq(S)
        BY <2>5
      <4> QED BY <4>1
    <3> HIDE DEF g
    <3> QED BY <2>5, <3>1 DEF FlatTo, FlatRec
  <2> QED BY <2>6
<1> HIDE DEF T
<1>3. Nat \subseteq T
  BY <1>1, <1>2, SetInduction
<1> QED BY <1>3 DEF T

\* It is the only one.
Agree(s, t, m) == \A i \in 1..m : s[i] = t[i]

LEMMA FlatUnique ==
  \A s, t, f, g : \A m, n \in Nat :
    m <= n /\ FlatRec(s, m, f) /\ FlatRec(t, n, g) /\ Agree(s, t, m) => Agree(f, g, m)
<1> SUFFICES ASSUME NEW s, NEW t, NEW f, NEW g, NEW m \in Nat, NEW n \in Nat,
                    m <= n, FlatRec(s, m, f), FlatRec(t, n, g), Agree(s, t, m)
             PROVE  \A i \in 1..m : f[i] = g[i]
  BY DEF Agree
<1> DEFINE T == {i \in Nat : i \in 1..m => f[i] = g[i]}
<1>1. 0 \in T
  OBVIOUS
<1>2. ASSUME NEW i \in Nat, i \in T PROVE i + 1 \in T
  <2> SUFFICES ASSUME i + 1 \in 1..m PROVE f[i + 1] = g[i + 1]
    OBVIOUS
  <2>1. i + 1 \in 1..n /\ s[i + 1] = t[i + 1]
    BY DEF Agree
  <2>2. /\ f[i + 1] = IF i + 1 = 1 THEN s[i + 1] ELSE f[(i + 1) - 1] \o s[i + 1]
        /\ g[i + 1] = IF i + 1 = 1 THEN t[i + 1] ELSE g[(i + 1) - 1] \o t[i + 1]
    BY <2>1 DEF FlatRec
  <2>3. CASE i = 0
    BY <2>1, <2>2, <2>3
  <2>4. CASE i # 0
    <3>1. i \in 1..m /\ (i + 1) - 1 = i /\ i + 1 # 1
      BY <2>4
    <3>2. f[i] = g[i]
      BY <1>2, <3>1
    <3> QED BY <2>1, <2>2, <3>1, <3>2
  <2> QED BY <2>3, <2>4
<1> HIDE DEF T
<1>3. Nat \subseteq T
  BY <1>1, <1>2, SetInduction
<1> QED BY <1>3 DEF T

LEMMA FlattenLast ==
  ASSUME NEW S, NEW s \in Seq(Seq(S)), Len(s) # 0
  PROVE  \E f : FlatTo(s, Len(s), f, S) /\ FlattenSeq(s) = f[Len(s)]
<1> DEFINE h == CHOOSE f : IsFlat(s, f)
<1>1. PICK f : FlatTo(s, Len(s), f, S)
  BY FlatExists
<1>2. IsFlat(s, f)
  <2>1. f = [i \in 1..Len(s) |-> f[i]]
    BY <1>1 DEF FlatTo
  <2>2. \A i \in 1..Len(s) : f[i] = IF i = 1 THEN s[i] ELSE f[i - 1] \o s[i]
    BY <1>1 DEF FlatTo, FlatRec
  <2>3. [i \in 1..Len(s) |-> f[i]] =
          [i \in 1..Len(s) |-> IF i = 1 THEN s[i] ELSE f[i - 1] \o s[i]]
    BY <2>2
  <2> QED BY <2>1, <2>3 DEF IsFlat
<1>3. IsFlat(s, h)
  BY <1>2
<1> HIDE DEF h
<1>4. FlatRec(s, Len(s), h)
  BY <1>3 DEF IsFlat, FlatRec
<1>5. FlattenSeq(s) = h[Len(s)]
  BY FlattenIs DEF h
<1>6. Len(s) \in Nat /\ Len(s) \in 1..Len(s)
  OBVIOUS
<1>7. FlatRec(s, Len(s), f)
  BY <1>1 DEF FlatTo
<1>8. Agree(s, s, Len(s)) /\ Len(s) <= Len(s)
  BY <1>6 DEF Agree
<1>9. Agree(h, f, Len(s))
  BY <1>4, <1>6, <1>7, <1>8, FlatUnique
<1> QED BY <1>1, <1>5, <1>6, <1>9 DEF Agree

LEMMA FlattenTyped ==
  \A S : \A s \in Seq(Seq(S)) : FlattenSeq(s) \in Seq(S)
<1> SUFFICES ASSUME NEW S, NEW s \in Seq(Seq(S)) PROVE FlattenSeq(s) \in Seq(S)
  OBVIOUS
<1>1. CASE Len(s) = 0
  <2>1. FlattenSeq(s) = s /\ s = <<>>
    BY <1>1, EmptySeq DEF FlattenSeq
  <2> QED BY <2>1, EmptySeq
<1>2. CASE Len(s) # 0
  <2>1. PICK f : FlatTo(s, Len(s), f, S) /\ FlattenSeq(s) = f[Len(s)]
    BY <1>2, FlattenLast
  <2>2. Len(s) \in 1..Len(s)
    BY <1>2
  <2> QED BY <2>1, <2>2 DEF FlatTo
<1> QED BY <1>1, <1>2

\* The first n of the sequences, one after the other.
Firsts(s, n) == [k \in 1..n |-> s[k]]

FirstsOf(f, s, n, S) ==
  f \in Seq(Seq(S)) /\ Len(f) = n /\ \A k \in 1..n : f[k] = s[k]

LEMMA FirstsAre ==
  \A S : \A s : \A n \in Nat :
    (\A k \in 1..n : s[k] \in Seq(S)) => FirstsOf(Firsts(s, n), s, n, S)
<1> SUFFICES ASSUME NEW S, NEW s, NEW n \in Nat, \A k \in 1..n : s[k] \in Seq(S)
             PROVE  FirstsOf(Firsts(s, n), s, n, S)
  OBVIOUS
<1> DEFINE f == [k \in 1..n |-> s[k]]
           T == Seq(S)
<1>1. \A k \in 1..n : s[k] \in T
  OBVIOUS
<1> HIDE DEF T
<1>2. f \in Seq(T) /\ Len(f) = n
  BY <1>1
<1>3. \A k \in 1..n : f[k] = s[k]
  OBVIOUS
<1> HIDE DEF f
<1>4. Firsts(s, n) = f
  BY DEF Firsts, f
<1>5. f \in Seq(Seq(S))
  BY <1>2 DEF T
<1> QED BY <1>2, <1>3, <1>4, <1>5 DEF FirstsOf

LEMMA FlattenGrows ==
  ASSUME NEW S, NEW s \in Seq(Seq(S)), NEW n \in Nat, n + 1 <= Len(s)
  PROVE  FlattenSeq(Firsts(s, n + 1)) = FlattenSeq(Firsts(s, n)) \o s[n + 1]
<1> DEFINE t == Firsts(s, n + 1)
           u == Firsts(s, n)
<1>1. \A k \in 1..(n + 1) : s[k] \in Seq(S)
  BY ElementOfSeq
<1>2. t \in Seq(Seq(S)) /\ Len(t) = n + 1 /\ \A k \in 1..(n + 1) : t[k] = s[k]
  <2>1. FirstsOf(t, s, n + 1, S)
    <3>1. n + 1 \in Nat
      OBVIOUS
    <3> QED BY <1>1, <3>1, FirstsAre
  <2> QED BY <2>1 DEF FirstsOf
<1>3. u \in Seq(Seq(S)) /\ Len(u) = n /\ \A k \in 1..n : u[k] = s[k]
  <2>1. \A k \in 1..n : s[k] \in Seq(S)
    BY <1>1
  <2>2. FirstsOf(u, s, n, S)
    BY <2>1, FirstsAre
  <2> QED BY <2>2 DEF FirstsOf
<1> HIDE DEF t, u
<1>4. PICK g : FlatTo(t, n + 1, g, S) /\ FlattenSeq(t) = g[n + 1]
  <2>1. t \in Seq(Seq(S)) /\ Len(t) # 0
    BY <1>2
  <2>2. \E g : FlatTo(t, Len(t), g, S) /\ FlattenSeq(t) = g[Len(t)]
    BY <2>1, FlattenLast
  <2>3. Len(t) = n + 1
    BY <1>2
  <2> QED BY <2>2, <2>3
<1>5. g[n + 1] = IF n + 1 = 1 THEN t[n + 1] ELSE g[(n + 1) - 1] \o t[n + 1]
  <2>1. FlatRec(t, n + 1, g) /\ n + 1 \in 1..(n + 1)
    BY <1>4 DEF FlatTo
  <2> QED BY <2>1 DEF FlatRec
<1>6. CASE n = 0
  <2>1. FlattenSeq(u) = <<>>
    BY <1>3, <1>6, EmptySeq DEF FlattenSeq
  <2>2. g[n + 1] = s[n + 1]
    BY <1>2, <1>5, <1>6
  <2>3. <<>> \o s[n + 1] = s[n + 1]
    <3>1. s[n + 1] \in Seq(S)
      BY <1>1
    <3> QED BY <3>1, ConcatEmptySeq
  <2> QED BY <1>4, <2>1, <2>2, <2>3 DEF t, u
<1>7. CASE n # 0
  <2>1. PICK f : FlatTo(u, n, f, S) /\ FlattenSeq(u) = f[n]
    <3>1. u \in Seq(Seq(S)) /\ Len(u) # 0
      BY <1>3, <1>7
    <3>2. \E f : FlatTo(u, Len(u), f, S) /\ FlattenSeq(u) = f[Len(u)]
      BY <3>1, FlattenLast
    <3>3. Len(u) = n
      BY <1>3
    <3> QED BY <3>2, <3>3
  <2>2. FlatRec(u, n, f) /\ FlatRec(t, n + 1, g)
    BY <1>4, <2>1 DEF FlatTo
  <2>3. Agree(u, t, n)
    <3>1. \A i \in 1..n : i \in 1..(n + 1)
      OBVIOUS
    <3> QED BY <1>2, <1>3, <3>1 DEF Agree
  <2>4. Agree(f, g, n)
    <3>1. n + 1 \in Nat /\ n <= n + 1
      OBVIOUS
    <3> QED BY <2>2, <2>3, <3>1, FlatUnique
  <2>5. n \in 1..n /\ (n + 1) - 1 = n /\ n + 1 # 1
    BY <1>7
  <2>6. g[n + 1] = f[n] \o t[n + 1]
    BY <1>5, <2>4, <2>5 DEF Agree
  <2>7. t[n + 1] = s[n + 1]
    BY <1>2
  <2>8. FlattenSeq(t) = FlattenSeq(u) \o s[n + 1]
    BY <1>4, <2>1, <2>6, <2>7
  <2> QED BY <2>8 DEF t, u
<1> QED BY <1>6, <1>7

\* The more of them, the longer.
LEMMA FlattenLonger ==
  ASSUME NEW S, NEW s \in Seq(Seq(S)), NEW m \in Nat, NEW n \in Nat,
         m <= n, n <= Len(s)
  PROVE  Len(FlattenSeq(Firsts(s, m))) <= Len(FlattenSeq(Firsts(s, n)))
<1> DEFINE l(k) == Len(FlattenSeq(Firsts(s, k)))
           T == {k \in Nat : m + k <= Len(s) => l(m) <= l(m + k)}
<1>1. ASSUME NEW k \in Nat, k <= Len(s) PROVE l(k) \in Nat /\ FlattenSeq(Firsts(s, k)) \in Seq(S)
  <2>1. \A i \in 1..k : s[i] \in Seq(S)
    BY <1>1, ElementOfSeq
  <2>2. Firsts(s, k) \in Seq(Seq(S))
    BY <2>1 DEF Firsts
  <2>3. FlattenSeq(Firsts(s, k)) \in Seq(S)
    BY <2>2, FlattenTyped
  <2> QED BY <2>3
<1>2. ASSUME NEW k \in Nat, k + 1 <= Len(s) PROVE l(k) <= l(k + 1)
  <2>1. FlattenSeq(Firsts(s, k + 1)) = FlattenSeq(Firsts(s, k)) \o s[k + 1]
    BY <1>2, FlattenGrows
  <2>2. s[k + 1] \in Seq(S) /\ k <= Len(s)
    BY <1>2, ElementOfSeq
  <2>3. FlattenSeq(Firsts(s, k)) \in Seq(S)
    BY <1>1, <2>2
  <2> DEFINE x == FlattenSeq(Firsts(s, k))
             y == s[k + 1]
  <2>4. x \in Seq(S) /\ y \in Seq(S)
    BY <2>2, <2>3
  <2> HIDE DEF x, y
  <2>5. Len(x) <= Len(x \o y)
    BY <2>4
  <2> QED BY <2>1, <2>5 DEF x, y
<1> HIDE DEF l
<1>3. 0 \in T
  <2>1. m + 0 = m /\ m <= Len(s) /\ Len(s) \in Nat
    OBVIOUS
  <2>2. l(m) \in Nat
    BY <1>1, <2>1
  <2> QED BY <2>1, <2>2
<1>4. ASSUME NEW k \in Nat, k \in T PROVE k + 1 \in T
  <2> SUFFICES ASSUME m + (k + 1) <= Len(s) PROVE l(m) <= l(m + (k + 1))
    OBVIOUS
  <2>1. m + k \in Nat /\ m + k <= Len(s) /\ m + (k + 1) = (m + k) + 1 /\ m <= Len(s)
        /\ (m + k) + 1 \in Nat /\ (m + k) + 1 <= Len(s)
    OBVIOUS
  <2>2. l(m) <= l(m + k)
    BY <1>4, <2>1
  <2>3. l(m + k) <= l((m + k) + 1)
    BY <1>2, <2>1
  <2>4. l(m) \in Nat /\ l(m + k) \in Nat /\ l((m + k) + 1) \in Nat
    BY <1>1, <2>1
  <2> QED BY <2>1, <2>2, <2>3, <2>4
<1>5. n - m \in Nat /\ m + (n - m) = n
  OBVIOUS
<1> HIDE DEF T
<1>6. Nat \subseteq T
  BY <1>3, <1>4, SetInduction
<1>7. n - m \in T
  BY <1>5, <1>6
<1> QED BY <1>5, <1>7 DEF T, l

\* Of no sequences and of one.
LEMMA FlattenFew ==
  \A S : /\ FlattenSeq(<<>>) = <<>>
         /\ \A x \in Seq(S) : FlattenSeq(<<x>>) = x
<1> SUFFICES ASSUME NEW S
             PROVE  /\ FlattenSeq(<<>>) = <<>>
                    /\ \A x \in Seq(S) : FlattenSeq(<<x>>) = x
  OBVIOUS
<1>1. FlattenSeq(<<>>) = <<>>
  BY EmptySeq DEF FlattenSeq
<1>2. ASSUME NEW x \in Seq(S) PROVE FlattenSeq(<<x>>) = x
  <2> DEFINE s == <<x>>
  <2>1. s \in Seq(Seq(S)) /\ Len(s) = 1 /\ s[1] = x
    OBVIOUS
  <2> HIDE DEF s
  <2>2. PICK f : FlatTo(s, Len(s), f, S) /\ FlattenSeq(s) = f[Len(s)]
    <3>1. s \in Seq(Seq(S)) /\ Len(s) # 0
      BY <2>1
    <3> QED BY <3>1, FlattenLast
  <2>3. FlatRec(s, 1, f) /\ 1 \in 1..1
    BY <2>1, <2>2 DEF FlatTo
  <2>4. f[1] = s[1]
    BY <2>3 DEF FlatRec
  <2>5. FlattenSeq(s) = x
    BY <2>1, <2>2, <2>4
  <2> QED BY <2>5 DEF s
<1> QED BY <1>1, <1>2

\* All of them, and none.
LEMMA FirstsAll ==
  ASSUME NEW S, NEW s \in Seq(Seq(S))
  PROVE  Firsts(s, Len(s)) = s /\ Firsts(s, 0) = <<>>
<1> DEFINE l == Len(s)
<1>1. \A k \in 1..l : s[k] \in Seq(S)
  BY ElementOfSeq
<1>2. l \in Nat /\ Len(s) = l
  OBVIOUS
<1> HIDE DEF l
<1>3. Firsts(s, l) \in Seq(Seq(S)) /\ Len(Firsts(s, l)) = l
      /\ \A k \in 1..l : Firsts(s, l)[k] = s[k]
  <2>1. FirstsOf(Firsts(s, l), s, l, S)
    BY <1>1, <1>2, FirstsAre
  <2> QED BY <2>1 DEF FirstsOf
<1>4. Firsts(s, l) = s
  BY <1>2, <1>3, SeqEqual
<1>5. Firsts(s, 0) = <<>>
  <2>1. Firsts(s, 0) \in Seq(Seq(S)) /\ Len(Firsts(s, 0)) = 0
    <3>1. \A k \in 1..0 : s[k] \in Seq(S)
      OBVIOUS
    <3> QED BY <3>1, FirstsAre DEF FirstsOf
  <2> QED BY <2>1, EmptySeq
<1> QED BY <1>2, <1>4, <1>5

\* Of two sequences of sequences one after the other.
LEMMA FlattenJoined ==
  \A S : \A s, t \in Seq(Seq(S)) :
    FlattenSeq(s \o t) = FlattenSeq(s) \o FlattenSeq(t)
<1> SUFFICES ASSUME NEW S, NEW s \in Seq(Seq(S)), NEW t \in Seq(Seq(S))
             PROVE  FlattenSeq(s \o t) = FlattenSeq(s) \o FlattenSeq(t)
  OBVIOUS
<1> DEFINE w == s \o t
           l == Len(s)
           F(k) == FlattenSeq(Firsts(w, l + k))
           G(k) == FlattenSeq(Firsts(t, k))
           T == {k \in Nat : k <= Len(t) => F(k) = FlattenSeq(s) \o G(k)}
<1>1. /\ w \in Seq(Seq(S)) /\ Len(w) = l + Len(t) /\ l \in Nat /\ Len(t) \in Nat
      /\ \A i \in 1..l : w[i] = s[i]
      /\ \A j \in 1..Len(t) : w[l + j] = t[j]
      /\ Len(s) = l
  BY Joined
<1>2. FlattenSeq(s) \in Seq(S)
  BY FlattenTyped
<1> HIDE DEF w, l
<1>3. 0 \in T
  <2>1. Firsts(w, l + 0) = s
    <3>1. \A k \in 1..l : w[k] \in Seq(S)
      BY <1>1, ElementOfSeq
    <3>2. Firsts(w, l) \in Seq(Seq(S)) /\ Len(Firsts(w, l)) = l
          /\ \A k \in 1..l : Firsts(w, l)[k] = w[k]
      <4>1. l \in Nat
        BY <1>1
      <4>2. FirstsOf(Firsts(w, l), w, l, S)
        BY <3>1, <4>1, FirstsAre
      <4> QED BY <4>2 DEF FirstsOf
    <3>3. Firsts(w, l) = s
      BY <1>1, <3>2, SeqEqual
    <3>4. l + 0 = l
      BY <1>1
    <3> QED BY <3>3, <3>4
  <2>2. G(0) = <<>>
    <3>1. Firsts(t, 0) = <<>>
      BY FirstsAll
    <3> QED BY <3>1, FlattenFew
  <2>3. FlattenSeq(s) \o <<>> = FlattenSeq(s)
    BY <1>2, ConcatEmptySeq
  <2> QED BY <2>1, <2>2, <2>3
<1>4. ASSUME NEW k \in Nat, k \in T PROVE k + 1 \in T
  <2> SUFFICES ASSUME k + 1 <= Len(t) PROVE F(k + 1) = FlattenSeq(s) \o G(k + 1)
    OBVIOUS
  <2>1. k + 1 \in 1..Len(t) /\ k <= Len(t) /\ l + k \in Nat /\ (l + k) + 1 <= Len(w)
        /\ l + (k + 1) = (l + k) + 1
    <3> DEFINE n == Len(t)
    <3>1. n \in Nat /\ l \in Nat /\ Len(w) = l + n /\ k + 1 <= n
      BY <1>1
    <3> HIDE DEF n
    <3>2. k + 1 \in 1..n /\ k <= n /\ l + k \in Nat /\ (l + k) + 1 <= l + n
          /\ l + (k + 1) = (l + k) + 1
      BY <3>1
    <3> QED BY <3>1, <3>2 DEF n
  <2>2. F(k) = FlattenSeq(s) \o G(k)
    BY <1>4, <2>1
  <2>3. FlattenSeq(Firsts(w, (l + k) + 1)) = FlattenSeq(Firsts(w, l + k)) \o w[(l + k) + 1]
    <3> DEFINE n == l + k
    <3>1. w \in Seq(Seq(S)) /\ n \in Nat /\ n + 1 <= Len(w)
      BY <1>1, <2>1
    <3> HIDE DEF n
    <3>2. FlattenSeq(Firsts(w, n + 1)) = FlattenSeq(Firsts(w, n)) \o w[n + 1]
      BY <3>1, FlattenGrows
    <3> QED BY <3>2 DEF n
  <2>4. FlattenSeq(Firsts(t, k + 1)) = FlattenSeq(Firsts(t, k)) \o t[k + 1]
    BY FlattenGrows
  <2>5. w[(l + k) + 1] = t[k + 1]
    BY <1>1, <2>1
  <2>6. t[k + 1] \in Seq(S)
    BY <2>1, ElementOfSeq
  <2>7. G(k) \in Seq(S)
    <3>1. \A i \in 1..k : t[i] \in Seq(S)
      BY <2>1, ElementOfSeq
    <3>2. Firsts(t, k) \in Seq(Seq(S))
      BY <3>1, FirstsAre DEF FirstsOf
    <3> QED BY <3>2, FlattenTyped
  <2>8. Assoc(FlattenSeq(s), G(k), t[k + 1])
    BY <1>2, <2>6, <2>7, Associated
  <2>9. F(k + 1) = F(k) \o t[k + 1]
    BY <2>1, <2>3, <2>5
  <2>10. G(k + 1) = G(k) \o t[k + 1]
    BY <2>4
  <2> HIDE DEF F, G
  <2> QED BY <2>2, <2>8, <2>9, <2>10 DEF Assoc
<1> HIDE DEF T
<1>5. Nat \subseteq T
  BY <1>3, <1>4, SetInduction
<1>6. F(Len(t)) = FlattenSeq(s) \o G(Len(t))
  <2>1. Len(t) \in T /\ Len(t) <= Len(t)
    BY <1>1, <1>5
  <2> QED BY <2>1 DEF T
<1>7. Firsts(w, l + Len(t)) = w /\ Firsts(t, Len(t)) = t
  <2>1. Firsts(w, Len(w)) = w /\ Firsts(t, Len(t)) = t
    BY <1>1, FirstsAll
  <2> QED BY <1>1, <2>1
<1> QED BY <1>6, <1>7 DEF w

-----------------------------------------------------------------------------
(* Parts *)

\* What comes after the first a elements, up to the first b.
Stretch(s, a, b) == SubSeq(s, a + 1, b)

IsStretch(x, s, a, b, S) ==
  x \in Seq(S) /\ Len(x) = b - a /\ \A i \in 1..(b - a) : x[i] = s[a + i]

LEMMA PartIs ==
  \A S : \A s \in Seq(S) : \A a, b \in Nat :
    a <= b /\ b <= Len(s) => IsStretch(Stretch(s, a, b), s, a, b, S)
BY DEF Stretch, IsStretch

\* Two parts that meet.
LEMMA PartsMeet ==
  \A S : \A s \in Seq(S) : \A a, b, c \in Nat :
    a <= b /\ b <= c /\ c <= Len(s) => Stretch(s, a, b) \o Stretch(s, b, c) = Stretch(s, a, c)
<1> SUFFICES ASSUME NEW S, NEW s \in Seq(S), NEW a \in Nat, NEW b \in Nat, NEW c \in Nat,
                    a <= b, b <= c, c <= Len(s)
             PROVE  Stretch(s, a, b) \o Stretch(s, b, c) = Stretch(s, a, c)
  OBVIOUS
<1> DEFINE x == Stretch(s, a, b)
           y == Stretch(s, b, c)
           z == Stretch(s, a, c)
<1>1. /\ x \in Seq(S) /\ Len(x) = b - a /\ \A i \in 1..(b - a) : x[i] = s[a + i]
      /\ y \in Seq(S) /\ Len(y) = c - b /\ \A i \in 1..(c - b) : y[i] = s[b + i]
  <2>1. b <= Len(s)
    OBVIOUS
  <2>2. IsStretch(x, s, a, b, S) /\ IsStretch(y, s, b, c, S)
    BY <2>1, PartIs
  <2> QED BY <2>2 DEF IsStretch
<1>2. z \in Seq(S) /\ Len(z) = c - a /\ \A i \in 1..(c - a) : z[i] = s[a + i]
  <2>1. a <= c
    OBVIOUS
  <2>2. IsStretch(z, s, a, c, S)
    BY <2>1, PartIs
  <2> QED BY <2>2 DEF IsStretch
<1> HIDE DEF x, y, z
<1>3. /\ x \o y \in Seq(S) /\ Len(x \o y) = c - a
      /\ \A i \in 1..(b - a) : (x \o y)[i] = x[i]
      /\ \A j \in 1..(c - b) : (x \o y)[(b - a) + j] = y[j]
  <2>1. /\ x \o y \in Seq(S) /\ Len(x \o y) = Len(x) + Len(y)
        /\ \A i \in 1..Len(x) : (x \o y)[i] = x[i]
        /\ \A j \in 1..Len(y) : (x \o y)[Len(x) + j] = y[j]
    <3>1. x \in Seq(S) /\ y \in Seq(S)
      BY <1>1
    <3> QED BY <3>1, Joined
  <2>2. Len(x) = b - a /\ Len(y) = c - b /\ Len(x) + Len(y) = c - a
    BY <1>1
  <2> QED BY <2>1, <2>2
<1>4. ASSUME NEW i \in 1..(c - a) PROVE (x \o y)[i] = z[i]
  <2>1. CASE i <= b - a
    <3>1. i \in 1..(b - a)
      BY <2>1
    <3>2. (x \o y)[i] = x[i] /\ x[i] = s[a + i] /\ z[i] = s[a + i]
      BY <1>1, <1>2, <1>3, <3>1
    <3> QED BY <3>2
  <2>2. CASE ~(i <= b - a)
    <3>1. i - (b - a) \in 1..(c - b) /\ (b - a) + (i - (b - a)) = i
          /\ b + (i - (b - a)) = a + i
      BY <2>2
    <3>2. (x \o y)[i] = y[i - (b - a)]
      BY <1>3, <3>1
    <3> QED BY <1>1, <1>2, <3>1, <3>2
  <2> QED BY <2>1, <2>2
<1>5. x \o y = z
  BY <1>2, <1>3, <1>4, SeqEqual
<1> QED BY <1>5 DEF x, y, z

\* A part of a part.
LEMMA PartOfPart ==
  \A S : \A s \in Seq(S) : \A a, b, i, j \in Nat :
    a <= b /\ b <= Len(s) /\ i <= j /\ j <= b - a =>
      Stretch(Stretch(s, a, b), i, j) = Stretch(s, a + i, a + j)
<1> SUFFICES ASSUME NEW S, NEW s \in Seq(S), NEW a \in Nat, NEW b \in Nat,
                    NEW i \in Nat, NEW j \in Nat,
                    a <= b, b <= Len(s), i <= j, j <= b - a
             PROVE  Stretch(Stretch(s, a, b), i, j) = Stretch(s, a + i, a + j)
  OBVIOUS
<1> DEFINE x == Stretch(s, a, b)
           y == Stretch(x, i, j)
           z == Stretch(s, a + i, a + j)
<1>1. x \in Seq(S) /\ Len(x) = b - a /\ \A k \in 1..(b - a) : x[k] = s[a + k]
  <2>1. IsStretch(x, s, a, b, S)
    BY PartIs
  <2> QED BY <2>1 DEF IsStretch
<1> HIDE DEF x
<1>2. y \in Seq(S) /\ Len(y) = j - i /\ \A k \in 1..(j - i) : y[k] = x[i + k]
  <2>1. x \in Seq(S) /\ j <= Len(x)
    BY <1>1
  <2>2. IsStretch(y, x, i, j, S)
    BY <2>1, PartIs
  <2> QED BY <2>2 DEF IsStretch
<1>3. z \in Seq(S) /\ Len(z) = j - i /\ \A k \in 1..(j - i) : z[k] = s[(a + i) + k]
  <2>1. a + i \in Nat /\ a + j \in Nat /\ a + i <= a + j /\ a + j <= Len(s)
        /\ (a + j) - (a + i) = j - i
    <3>1. Len(s) \in Nat
      OBVIOUS
    <3> QED BY <3>1
  <2>2. IsStretch(z, s, a + i, a + j, S)
    BY <2>1, PartIs
  <2> QED BY <2>1, <2>2 DEF IsStretch
<1> HIDE DEF y, z
<1>4. ASSUME NEW k \in 1..(j - i) PROVE y[k] = z[k]
  <2>1. i + k \in 1..(b - a) /\ a + (i + k) = (a + i) + k
    OBVIOUS
  <2> QED BY <1>1, <1>2, <1>3, <2>1
<1>5. y = z
  BY <1>2, <1>3, <1>4, SeqEqual
<1> QED BY <1>5 DEF x, y, z

-----------------------------------------------------------------------------
(* What lies where *)

\* x is what comes after the first o elements of w.
Inside(x, w, o) == \A i \in 1..Len(x) : w[o + i] = x[i]

LEMMA InsideJoined ==
  \A S : \A x, y \in Seq(S) : \A w : \A o \in Nat :
    Inside(x \o y, w, o) => Inside(x, w, o) /\ Inside(y, w, o + Len(x))
<1> SUFFICES ASSUME NEW S, NEW x \in Seq(S), NEW y \in Seq(S), NEW w, NEW o \in Nat,
                    Inside(x \o y, w, o)
             PROVE  Inside(x, w, o) /\ Inside(y, w, o + Len(x))
  OBVIOUS
<1>1. /\ Len(x \o y) = Len(x) + Len(y) /\ Len(x) \in Nat /\ Len(y) \in Nat
      /\ \A i \in 1..Len(x) : (x \o y)[i] = x[i]
      /\ \A j \in 1..Len(y) : (x \o y)[Len(x) + j] = y[j]
  BY Joined
<1>2. ASSUME NEW i \in 1..Len(x) PROVE w[o + i] = x[i]
  <2>1. i \in 1..Len(x \o y)
    BY <1>1
  <2> QED BY <1>1, <2>1 DEF Inside
<1>3. ASSUME NEW j \in 1..Len(y) PROVE w[(o + Len(x)) + j] = y[j]
  <2>1. Len(x) + j \in 1..Len(x \o y) /\ (o + Len(x)) + j = o + (Len(x) + j)
    BY <1>1
  <2>2. w[o + (Len(x) + j)] = (x \o y)[Len(x) + j]
    BY <2>1 DEF Inside
  <2> QED BY <1>1, <2>1, <2>2
<1> QED BY <1>2, <1>3 DEF Inside

LEMMA InsideTrans ==
  \A x, y, w : \A o, p \in Nat :
    /\ Inside(x, y, p) /\ Inside(y, w, o)
    /\ Len(x) \in Nat /\ Len(y) \in Nat /\ p + Len(x) <= Len(y)
    => Inside(x, w, o + p)
<1> SUFFICES ASSUME NEW x, NEW y, NEW w, NEW o \in Nat, NEW p \in Nat,
                    Inside(x, y, p), Inside(y, w, o),
                    Len(x) \in Nat, Len(y) \in Nat, p + Len(x) <= Len(y),
                    NEW i \in 1..Len(x)
             PROVE  w[(o + p) + i] = x[i]
  BY DEF Inside
<1>1. p + i \in 1..Len(y) /\ (o + p) + i = o + (p + i)
  OBVIOUS
<1>2. w[o + (p + i)] = y[p + i]
  BY <1>1 DEF Inside
<1>3. y[p + i] = x[i]
  BY DEF Inside
<1> QED BY <1>1, <1>2, <1>3

\* How long the first n sequences are, one after the other.
Long(s, n) == Len(FlattenSeq(Firsts(s, n)))

Longs(s, n) ==
  /\ Long(s, n) \in Nat /\ Long(s, n + 1) \in Nat /\ Len(s[n + 1]) \in Nat
  /\ Long(s, n + 1) = Long(s, n) + Len(s[n + 1])
  /\ Long(s, n + 1) <= Len(FlattenSeq(s))

LEMMA LongFirsts ==
  \A S : \A s \in Seq(Seq(S)) : \A n \in 0..Len(s) :
    /\ FlattenSeq(Firsts(s, n)) \in Seq(S) /\ Long(s, n) \in Nat
    /\ Inside(FlattenSeq(Firsts(s, n)), FlattenSeq(s), 0)
    /\ Long(s, n) <= Len(FlattenSeq(s)) /\ Len(FlattenSeq(s)) \in Nat
    /\ Long(s, 0) = 0 /\ Long(s, Len(s)) = Len(FlattenSeq(s))
<1> SUFFICES ASSUME NEW S, NEW s \in Seq(Seq(S)), NEW n \in 0..Len(s)
             PROVE  /\ FlattenSeq(Firsts(s, n)) \in Seq(S) /\ Long(s, n) \in Nat
                    /\ Inside(FlattenSeq(Firsts(s, n)), FlattenSeq(s), 0)
                    /\ Long(s, n) <= Len(FlattenSeq(s)) /\ Len(FlattenSeq(s)) \in Nat
                    /\ Long(s, 0) = 0 /\ Long(s, Len(s)) = Len(FlattenSeq(s))
  OBVIOUS
<1> DEFINE x == Firsts(s, n)
           y == SubSeq(s, n + 1, Len(s))
           T == Seq(S)
<1>1. x \in Seq(Seq(S)) /\ Len(x) = n /\ \A k \in 1..n : x[k] = s[k]
  <2>1. \A k \in 1..n : s[k] \in Seq(S)
    BY ElementOfSeq
  <2>2. n \in Nat
    OBVIOUS
  <2>3. FirstsOf(x, s, n, S)
    BY <2>1, <2>2, FirstsAre
  <2> QED BY <2>3 DEF FirstsOf
<1>2. s \in Seq(T) /\ Len(s) \in Nat
  OBVIOUS
<1> HIDE DEF T
<1>3. /\ SubSeq(s, 1, n) \in Seq(T) /\ y \in Seq(T) /\ Len(SubSeq(s, 1, n)) = n
      /\ SubSeq(s, 1, n) \o y = s
  BY <1>2, Cut
<1>4. SubSeq(s, 1, n) = x
  <2>1. x \in Seq(T)
    BY <1>1 DEF T
  <2>2. \A k \in 1..n : SubSeq(s, 1, n)[k] = s[k]
    BY <1>2
  <2> QED BY <1>1, <1>3, <2>1, <2>2, SeqEqual
<1> HIDE DEF x, y
<1>5. x \o y = s /\ y \in Seq(Seq(S))
  BY <1>3, <1>4 DEF T
<1>6. FlattenSeq(s) = FlattenSeq(x) \o FlattenSeq(y)
  BY <1>1, <1>5, FlattenJoined
<1>7. FlattenSeq(x) \in Seq(S) /\ FlattenSeq(y) \in Seq(S)
  BY <1>1, <1>5, FlattenTyped
<1>8. /\ Len(FlattenSeq(s)) = Len(FlattenSeq(x)) + Len(FlattenSeq(y))
      /\ Len(FlattenSeq(x)) \in Nat /\ Len(FlattenSeq(y)) \in Nat
      /\ \A i \in 1..Len(FlattenSeq(x)) : FlattenSeq(s)[i] = FlattenSeq(x)[i]
  BY <1>6, <1>7, Joined
<1>9. Inside(FlattenSeq(x), FlattenSeq(s), 0)
  <2>1. \A i \in 1..Len(FlattenSeq(x)) : 0 + i = i
    BY <1>8
  <2> QED BY <1>8, <2>1 DEF Inside
<1>10. Firsts(s, Len(s)) = s /\ Firsts(s, 0) = <<>>
  BY FirstsAll
<1>11. Long(s, 0) = 0 /\ Long(s, Len(s)) = Len(FlattenSeq(s))
  <2>1. FlattenSeq(<<>>) = <<>>
    BY FlattenFew
  <2> QED BY <1>10, <2>1, EmptySeq DEF Long
<1> QED BY <1>7, <1>8, <1>9, <1>11 DEF x, Long

LEMMA InsideFlatten ==
  \A S : \A s \in Seq(Seq(S)) : \A n \in Nat :
    n < Len(s) => Longs(s, n) /\ Inside(s[n + 1], FlattenSeq(s), Long(s, n))
<1> SUFFICES ASSUME NEW S, NEW s \in Seq(Seq(S)), NEW n \in Nat, n < Len(s)
             PROVE  Longs(s, n) /\ Inside(s[n + 1], FlattenSeq(s), Long(s, n))
  OBVIOUS
<1> DEFINE x == FlattenSeq(Firsts(s, n))
           y == s[n + 1]
           z == FlattenSeq(Firsts(s, n + 1))
           f == FlattenSeq(s)
<1>1. n \in 0..Len(s) /\ n + 1 \in 0..Len(s) /\ n + 1 \in 1..Len(s) /\ n + 1 <= Len(s)
  OBVIOUS
<1>2. /\ x \in Seq(S) /\ z \in Seq(S) /\ Inside(z, f, 0)
      /\ Len(z) <= Len(f) /\ Len(f) \in Nat
  BY <1>1, LongFirsts DEF Long
<1>3. y \in Seq(S)
  BY <1>1, ElementOfSeq
<1>4. z = x \o y
  BY <1>1, FlattenGrows
<1> HIDE DEF x, y, z, f
<1>5. Inside(y, z, Len(x)) /\ Len(z) = Len(x) + Len(y) /\ Len(x) \in Nat /\ Len(y) \in Nat
  <2>1. /\ Len(x \o y) = Len(x) + Len(y) /\ Len(x) \in Nat /\ Len(y) \in Nat
        /\ \A j \in 1..Len(y) : (x \o y)[Len(x) + j] = y[j]
    BY <1>2, <1>3, Joined
  <2> QED BY <1>4, <2>1 DEF Inside
<1>6. Len(z) \in Nat /\ 0 \in Nat /\ Len(x) + Len(y) <= Len(z) /\ 0 + Len(x) = Len(x)
  BY <1>5
<1>7. Inside(y, f, 0 + Len(x))
  BY <1>2, <1>5, <1>6, InsideTrans
<1>8. Inside(y, f, Len(x))
  BY <1>6, <1>7
<1> QED BY <1>2, <1>5, <1>6, <1>8 DEF Longs, Long, x, y, z, f
=============================================================================
