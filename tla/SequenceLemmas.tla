---------------------------- MODULE SequenceLemmas ----------------------------
(***************************************************************************)
(* What the proofs of several modules need of sequences, and induction.    *)
(*                                                                         *)
(* The induction theorems of the library are stated for an operator, which *)
(* the provers used here cannot instantiate.  A set of numbers is a value, *)
(* so the same principle stated for a set can be cited: to prove that all  *)
(* n have a property, take the set of the n that have it.                  *)
(***************************************************************************)
EXTENDS Integers, SequencesExt, SequenceFilter, SequenceTheorems, WellFoundedInduction, FiniteSetTheorems,
        TLAPS

\* A set of naturals that holds 0 and the successor of each of its members is
\* the set of all: its complement would have a least member.
LEMMA SetInduction ==
    ASSUME NEW T \in SUBSET Nat, 0 \in T, \A n \in T : n + 1 \in T
    PROVE  T = Nat
<1> SUFFICES ASSUME Nat \ T # {} PROVE FALSE
  OBVIOUS
<1> DEFINE R == OpToRel(<, Nat)
<1>1. IsWellFoundedOn(R, Nat)
  BY NatLessThanWellFounded
<1>2. \A x, y \in Nat : <<x, y>> \in R <=> x < y
  BY DEF OpToRel
<1> HIDE DEF R
<1>3. PICK x \in Nat \ T : \A y \in Nat \ T : ~ (<<y, x>> \in R)
  BY <1>1, WFMin
<1>4. x # 0 /\ x - 1 \in Nat /\ x - 1 < x
  BY <1>3
<1>5. x - 1 \in T
  BY <1>2, <1>3, <1>4
<1>6. x - 1 + 1 = x
  BY <1>3
<1> QED
  BY <1>3, <1>5, <1>6

\* A non-empty set of naturals below a bound has a highest member.
LEMMA BoundedHasHighest ==
    ASSUME NEW n \in Nat, NEW ids \in SUBSET (0..n), ids # {}
    PROVE  \E i \in ids : \A j \in ids : j <= i
<1> DEFINE T == { k \in Nat : \A S \in SUBSET (0..k) :
                                  S # {} => \E i \in S : \A j \in S : j <= i }
<1>1. 0 \in T
  <2>1. ASSUME NEW S \in SUBSET (0..0), S # {} PROVE \E i \in S : \A j \in S : j <= i
    <3>1. \A j \in S : j \in 0..0 /\ j = 0
      OBVIOUS
    <3>2. 0 \in S
      BY <2>1, <3>1
    <3> QED
      BY <3>1, <3>2
  <2> QED
    BY <2>1
<1>2. ASSUME NEW k \in T PROVE k + 1 \in T
  <2> SUFFICES ASSUME NEW S \in SUBSET (0..(k + 1)), S # {}
               PROVE  \E i \in S : \A j \in S : j <= i
    OBVIOUS
  <2>1. CASE k + 1 \in S
    BY <2>1
  <2>2. CASE k + 1 \notin S
    <3>1. S \in SUBSET (0..k)
      BY <2>2
    <3> QED
      BY <3>1
  <2> QED
    BY <2>1, <2>2
<1>3. T = Nat
  <2> HIDE DEF T
  <2>1. T \in SUBSET Nat
    BY DEF T
  <2> QED
    BY <1>1, <1>2, <2>1, SetInduction
<1> QED
  BY <1>3
\* A vector, and the sequence that it is.
LEMMA VectorIsSeq ==
    ASSUME NEW V, NEW n \in Nat, NEW s \in [1..n -> V]
    PROVE  s \in Seq(V) /\ Len(s) = n
  OBVIOUS

\* A non-empty set of naturals has a lowest member.
LEMMA BoundedHasLowest ==
    ASSUME NEW S \in SUBSET Nat, S # {}
    PROVE  \E i \in S : \A j \in S : i <= j
<1> SUFFICES ASSUME \A i \in S : \E j \in S : j < i PROVE FALSE
  OBVIOUS
<1> DEFINE T == { k \in Nat : \A i \in S : k < i }
<1>1. 0 \in T
  BY DEF T
<1>2. ASSUME NEW k \in T PROVE k + 1 \in T
  BY DEF T
<1>3. T = Nat
  <2> HIDE DEF T
  <2>1. T \in SUBSET Nat
    BY DEF T
  <2> QED
    BY <1>1, <1>2, <2>1, SetInduction
<1>4. PICK i \in S : TRUE
  OBVIOUS
<1>5. i \in T
  <2> HIDE DEF T
  <2> QED
    BY <1>3
<1> QED
  BY <1>5

\* g follows a recursive definition up to k, with one function for each step.
Solves(g, k, base, step) == g[0] = base /\ \A i \in 1..k : g[i] = step[i][g[i - 1]]

Solvable(S, k, base, step) == \E g \in [0..k -> S] : Solves(g, k, base, step)

\* A recursive definition over 0..n has a solution: the functions that solve
\* it up to k extend to k + 1.
LEMMA Recursion ==
    ASSUME NEW S, NEW n \in Nat, NEW base \in S, NEW step \in [1..n -> [S -> S]]
    PROVE  Solvable(S, n, base, step)
<1> DEFINE T == { k \in Nat : k <= n => Solvable(S, k, base, step) }
<1>1. 0 \in T
  <2>1. [i \in 0..0 |-> base] \in [0..0 -> S] /\ Solves([i \in 0..0 |-> base], 0, base, step)
    BY DEF Solves
  <2> QED
    BY <2>1 DEF Solvable
<1>2. ASSUME NEW k \in T PROVE k + 1 \in T
  <2> SUFFICES ASSUME k + 1 <= n PROVE Solvable(S, k + 1, base, step)
    OBVIOUS
  <2>1. PICK g \in [0..k -> S] : Solves(g, k, base, step)
    BY DEF Solvable
  <2> DEFINE h == [i \in 0..(k + 1) |-> IF i = k + 1 THEN step[k + 1][g[k]] ELSE g[i]]
  <2>2. step[k + 1][g[k]] \in S
    OBVIOUS
  <2>3. h \in [0..(k + 1) -> S]
    BY <2>2
  <2>4. \A i \in 0..k : h[i] = g[i]
    OBVIOUS
  <2>5. h[k + 1] = step[k + 1][h[k]]
    <3>1. k + 1 \in 0..(k + 1) /\ k \in 0..k
      OBVIOUS
    <3>2. h[k + 1] = step[k + 1][g[k]]
      BY <3>1
    <3> QED
      BY <2>4, <3>1, <3>2
  <2> HIDE DEF h
  <2>6. h[0] = base /\ \A i \in 1..k : h[i] = step[i][h[i - 1]]
    BY <2>1, <2>4 DEF Solves
  <2>7. ASSUME NEW i \in 1..(k + 1) PROVE h[i] = step[i][h[i - 1]]
    <3>1. CASE i = k + 1
      <4>1. i - 1 = k
        BY <3>1
      <4> QED
        BY <2>5, <3>1, <4>1
    <3>2. CASE i # k + 1
      <4>1. i \in 1..k
        BY <3>2
      <4> QED
        BY <2>6, <4>1
    <3> QED
      BY <3>1, <3>2
  <2> QED
    BY <2>3, <2>6, <2>7 DEF Solvable, Solves
<1>3. T = Nat
  <2> HIDE DEF T
  <2>1. T \in SUBSET Nat
    BY DEF T
  <2> QED
    BY <1>1, <1>2, <2>1, SetInduction
<1> QED
  BY <1>3

\* kept is the function by which Retained is defined.
RetainedBy(kept, s, I) ==
    /\ kept[0] = <<>>
    /\ \A i \in 1..Len(s) : kept[i] = IF i \in I THEN Append(kept[i - 1], s[i]) ELSE kept[i - 1]
    /\ Retained(s, I) = kept[Len(s)]

HasRetained(V, s, I) == \E kept \in [0..Len(s) -> Seq(V)] : RetainedBy(kept, s, I)

\* Retained, unfolded.
LEMMA RetainedUnfold ==
    ASSUME NEW V, NEW s \in Seq(V), NEW I
    PROVE  HasRetained(V, s, I)
<1> DEFINE n == Len(s)
           W == Seq(V)
           none == <<>>
           step == [i \in 1..n |-> [r \in W |-> IF i \in I THEN Append(r, s[i]) ELSE r]]
           Def(f) == [i \in 0..n |-> IF i = 0 THEN <<>>
                                     ELSE IF i \in I THEN Append(f[i - 1], s[i]) ELSE f[i - 1]]
           kept == CHOOSE f : f = Def(f)
<1>1. n \in Nat /\ <<>> \in W /\ \A r \in W : \A i \in 1..n : Append(r, s[i]) \in W
  OBVIOUS
<1>2. Retained(s, I) = kept[n]
  BY DEF Retained
<1>2a. none \in W
  BY <1>1
<1>2b. n \in Nat
  BY <1>1
<1> HIDE DEF n, W, none
<1>3. step \in [1..n -> [W -> W]]
  BY <1>1
<1>4. \A i \in 1..n : \A r \in W : step[i][r] = IF i \in I THEN Append(r, s[i]) ELSE r
  OBVIOUS
<1> HIDE DEF step
<1>5. PICK g \in [0..n -> W] : g[0] = none /\ \A i \in 1..n : g[i] = step[i][g[i - 1]]
  <2>1. Solvable(W, n, none, step)
    BY <1>2a, <1>2b, <1>3, Recursion
  <2> QED
    BY <2>1 DEF Solvable, Solves
<1>6. \A i \in 1..n : i - 1 \in 0..n /\ i # 0
  BY <1>1
<1>7. \A i \in 1..n : g[i] = IF i \in I THEN Append(g[i - 1], s[i]) ELSE g[i - 1]
  BY <1>4, <1>5, <1>6
<1>8. g = Def(g)
  <2>1. \A i \in 0..n : g[i] = IF i = 0 THEN <<>>
                               ELSE IF i \in I THEN Append(g[i - 1], s[i]) ELSE g[i - 1]
    <3>1. \A i \in 0..n : i = 0 \/ i \in 1..n
      BY <1>1
    <3> QED
      BY <1>5, <1>7, <3>1 DEF none
  <2> QED
    BY <1>5, <2>1
<1>9. kept = Def(kept)
  BY <1>8
<1> HIDE DEF kept
<1>10. kept[0] = <<>> /\ \A i \in 1..n : kept[i] = IF i \in I THEN Append(kept[i - 1], s[i])
                                                   ELSE kept[i - 1]
  <2>1. \A i \in 0..n : kept[i] = Def(kept)[i]
    BY <1>9
  <2>2. 0 \in 0..n /\ \A i \in 1..n : i \in 0..n /\ i # 0
    BY <1>1
  <2> QED
    BY <2>1, <2>2
<1>11. \A i \in 0..n : kept[i] \in W
  <2> DEFINE T == { k \in Nat : k <= n => kept[k] \in W }
  <2>1. 0 \in T
    BY <1>1, <1>10
  <2>2. ASSUME NEW k \in T PROVE k + 1 \in T
    <3> SUFFICES ASSUME k + 1 <= n PROVE kept[k + 1] \in W
      OBVIOUS
    <3>1. k + 1 \in 1..n /\ k + 1 - 1 = k /\ kept[k] \in W
      BY <1>1
    <3> QED
      BY <1>1, <1>10, <3>1
  <2>3. T = Nat
    <3> HIDE DEF T
    <3>1. T \in SUBSET Nat
      BY DEF T
    <3> QED
      BY <2>1, <2>2, <3>1, SetInduction
  <2> QED
    BY <1>1, <2>3
<1>12. kept \in [0..n -> W]
  <2>1. DOMAIN kept = 0..n /\ kept = [i \in 0..n |-> kept[i]]
    BY <1>9
  <2> QED
    BY <1>11, <2>1
<1> QED
  BY <1>2, <1>10, <1>12 DEF n, W, HasRetained, RetainedBy
\* r holds the elements of s at the positions of I up to n, in their order:
\* pos gives the position in s of each element of r.
Picks(pos, r, s, I, n) ==
    /\ Len(pos) = Len(r)
    /\ \A k \in 1..Len(r) : pos[k] \in I \cap (1..n) /\ r[k] = s[pos[k]]
    /\ \A j, k \in 1..Len(r) : j < k => pos[j] < pos[k]
    /\ \A i \in I \cap (1..n) : \E k \in 1..Len(r) : pos[k] = i

Picked(r, s, I, n) == \E pos \in Seq(Nat) : Picks(pos, r, s, I, n)

\* One more element of s, kept or not.
LEMMA PickNext ==
    ASSUME NEW V, NEW s \in Seq(V), NEW I, NEW n \in Nat, NEW r \in Seq(V), NEW x \in V,
           x = s[n + 1], Picked(r, s, I, n)
    PROVE  Picked(IF n + 1 \in I THEN Append(r, x) ELSE r, s, I, n + 1)
<1>1. PICK pos \in Seq(Nat) : Picks(pos, r, s, I, n)
  BY DEF Picked
<1>2. Len(r) \in Nat
  OBVIOUS
<1>3. CASE n + 1 \in I
  <2> DEFINE p == Append(pos, n + 1)
             q == Append(r, x)
  <2>1. p \in Seq(Nat) /\ Len(q) = Len(r) + 1 /\ Len(p) = Len(q)
    BY <1>1 DEF Picks
  <2>2. \A k \in 1..Len(r) : p[k] = pos[k] /\ q[k] = r[k]
    BY <1>1 DEF Picks
  <2>3. p[Len(r) + 1] = n + 1 /\ q[Len(r) + 1] = x
    BY <1>1 DEF Picks
  <2>4. \A k \in 1..Len(q) : k \in 1..Len(r) \/ k = Len(r) + 1
    BY <1>2, <2>1
  <2> HIDE DEF p, q
  <2>5. \A k \in 1..Len(q) : p[k] \in I \cap (1..(n + 1)) /\ q[k] = s[p[k]]
    <3> SUFFICES ASSUME NEW k \in 1..Len(q) PROVE p[k] \in I \cap (1..(n + 1)) /\ q[k] = s[p[k]]
      OBVIOUS
    <3>1. CASE k \in 1..Len(r)
      BY <1>1, <2>2, <3>1 DEF Picks
    <3>2. CASE k = Len(r) + 1
      BY <1>3, <2>3, <3>2
    <3> QED
      BY <2>4, <3>1, <3>2
  <2>6. \A j, k \in 1..Len(q) : j < k => p[j] < p[k]
    <3> SUFFICES ASSUME NEW j \in 1..Len(q), NEW k \in 1..Len(q), j < k PROVE p[j] < p[k]
      OBVIOUS
    <3>1. j \in 1..Len(r)
      BY <1>2, <2>1
    <3>2. CASE k \in 1..Len(r)
      BY <1>1, <2>2, <3>1, <3>2 DEF Picks
    <3>3. CASE k = Len(r) + 1
      <4>1. pos[j] \in 1..n
        BY <1>1, <3>1 DEF Picks
      <4> QED
        BY <2>2, <2>3, <3>1, <3>3, <4>1
    <3> QED
      BY <2>4, <3>2, <3>3
  <2>7. \A i \in I \cap (1..(n + 1)) : \E k \in 1..Len(q) : p[k] = i
    <3> SUFFICES ASSUME NEW i \in I \cap (1..(n + 1)) PROVE \E k \in 1..Len(q) : p[k] = i
      OBVIOUS
    <3>1. CASE i = n + 1
      BY <1>2, <2>1, <2>3, <3>1
    <3>2. CASE i # n + 1
      <4>1. i \in I \cap (1..n)
        BY <3>2
      <4>2. PICK k \in 1..Len(r) : pos[k] = i
        BY <1>1, <4>1 DEF Picks
      <4> QED
        BY <1>2, <2>1, <2>2, <4>2
    <3> QED
      BY <3>1, <3>2
  <2> QED
    BY <1>3, <2>1, <2>5, <2>6, <2>7 DEF Picked, Picks, q
<1>4. CASE n + 1 \notin I
  <2>1. I \cap (1..(n + 1)) = I \cap (1..n)
    BY <1>4
  <2> QED
    BY <1>1, <1>4, <2>1 DEF Picked, Picks
<1> QED
  BY <1>3, <1>4

LEMMA RetainedPicks ==
    ASSUME NEW V, NEW s \in Seq(V), NEW I
    PROVE  Retained(s, I) \in Seq(V) /\ Picked(Retained(s, I), s, I, Len(s))
<1>1. PICK kept \in [0..Len(s) -> Seq(V)] : RetainedBy(kept, s, I)
  BY RetainedUnfold DEF HasRetained
<1> DEFINE T == { k \in Nat : k <= Len(s) => Picked(kept[k], s, I, k) }
<1>2. 0 \in T
  <2>1. <<>> \in Seq(Nat) /\ Picks(<<>>, <<>>, s, I, 0)
    BY DEF Picks
  <2> QED
    BY <1>1, <2>1 DEF Picked, RetainedBy
<1>3. ASSUME NEW k \in T PROVE k + 1 \in T
  <2> SUFFICES ASSUME k + 1 <= Len(s) PROVE Picked(kept[k + 1], s, I, k + 1)
    OBVIOUS
  <2>1. /\ k + 1 \in 1..Len(s) /\ k + 1 - 1 = k /\ k \in 0..Len(s) /\ k \in Nat
        /\ Picked(kept[k], s, I, k)
    OBVIOUS
  <2>2. kept[k] \in Seq(V) /\ s[k + 1] \in V
    BY <1>1, <2>1
  <2>3. Picked(IF k + 1 \in I THEN Append(kept[k], s[k + 1]) ELSE kept[k], s, I, k + 1)
    BY <2>1, <2>2, PickNext
  <2> QED
    BY <1>1, <2>1, <2>3 DEF RetainedBy
<1>4. T = Nat
  <2> HIDE DEF T
  <2>1. T \in SUBSET Nat
    BY DEF T
  <2> QED
    BY <1>2, <1>3, <2>1, SetInduction
<1>5. Len(s) \in Nat /\ Len(s) \in 0..Len(s)
  OBVIOUS
<1> QED
  BY <1>1, <1>4, <1>5 DEF RetainedBy

\* The elements kept and the ones left out are as many as there were.
LEMMA RetainedLength ==
    ASSUME NEW V, NEW s \in Seq(V), NEW I, NEW J, J = (1..Len(s)) \ I
    PROVE  Len(Retained(s, I)) + Len(Retained(s, J)) = Len(s)
<1>1. PICK kept \in [0..Len(s) -> Seq(V)] : RetainedBy(kept, s, I)
  BY RetainedUnfold DEF HasRetained
<1>2. PICK left \in [0..Len(s) -> Seq(V)] : RetainedBy(left, s, J)
  BY RetainedUnfold DEF HasRetained
<1> DEFINE T == { k \in Nat : k <= Len(s) => Len(kept[k]) + Len(left[k]) = k }
<1>3. 0 \in T
  BY <1>1, <1>2 DEF RetainedBy
<1>4. ASSUME NEW k \in T PROVE k + 1 \in T
  <2> SUFFICES ASSUME k + 1 <= Len(s) PROVE Len(kept[k + 1]) + Len(left[k + 1]) = k + 1
    OBVIOUS
  <2>1. k + 1 \in 1..Len(s) /\ k + 1 - 1 = k /\ k \in 0..Len(s) /\ Len(kept[k]) + Len(left[k]) = k
    OBVIOUS
  <2>2. /\ kept[k] \in Seq(V) /\ left[k] \in Seq(V) /\ s[k + 1] \in V
        /\ Len(kept[k]) \in Nat /\ Len(left[k]) \in Nat
    BY <2>1
  <2>3. kept[k + 1] = IF k + 1 \in I THEN Append(kept[k], s[k + 1]) ELSE kept[k]
    BY <1>1, <2>1 DEF RetainedBy
  <2>4. left[k + 1] = IF k + 1 \in I THEN left[k] ELSE Append(left[k], s[k + 1])
    BY <1>2, <2>1 DEF RetainedBy
  <2>5. CASE k + 1 \in I
    <3>1. Len(kept[k + 1]) = Len(kept[k]) + 1 /\ left[k + 1] = left[k]
      BY <2>2, <2>3, <2>4, <2>5
    <3> QED
      BY <2>1, <2>2, <3>1
  <2>6. CASE k + 1 \notin I
    <3>1. Len(left[k + 1]) = Len(left[k]) + 1 /\ kept[k + 1] = kept[k]
      BY <2>2, <2>3, <2>4, <2>6
    <3> QED
      BY <2>1, <2>2, <3>1
  <2> QED
    BY <2>5, <2>6
<1>5. T = Nat
  <2> HIDE DEF T
  <2>1. T \in SUBSET Nat
    BY DEF T
  <2> QED
    BY <1>3, <1>4, <2>1, SetInduction
<1>6. Len(s) \in Nat
  OBVIOUS
<1> QED
  BY <1>1, <1>2, <1>5, <1>6 DEF RetainedBy

----------------------------------------------------------------------------
(* All the elements of a sequence of sequences, in their order.            *)

\* flat[i] has the elements of the first i sequences.
FlatBy(flat, fs) ==
    /\ flat[0] = <<>>
    /\ \A i \in 1..Len(fs) : flat[i] = flat[i - 1] \o fs[i]
    /\ FlattenSeq(fs) = flat[Len(fs)]

HasFlat(V, fs) == \E flat \in [0..Len(fs) -> Seq(V)] : FlatBy(flat, fs)

\* The recursion, counted from 1 and from 0.
FlatFrom1(g, fs, n) == \A i \in 1..n : g[i] = g[i - 1] \o fs[i]
FlatFrom0(g, fs, n) == \A k \in Nat : k + 1 <= n => g[k + 1] = g[k] \o fs[k + 1]

LEMMA FlatNext ==
    ASSUME NEW n \in Nat, NEW g, NEW fs, FlatFrom1(g, fs, n)
    PROVE  FlatFrom0(g, fs, n)
<1> SUFFICES ASSUME NEW k \in Nat, k + 1 <= n PROVE g[k + 1] = g[k] \o fs[k + 1]
  BY DEF FlatFrom0
<1>1. k + 1 \in 1..n /\ (k + 1) - 1 = k
  OBVIOUS
<1>2. g[k + 1] = g[(k + 1) - 1] \o fs[k + 1]
  BY <1>1 DEF FlatFrom1
<1> QED
  BY <1>1, <1>2

LEMMA FlatUnfold ==
    ASSUME NEW V, NEW fs \in Seq(Seq(V))
    PROVE  HasFlat(V, fs)
<1> DEFINE n == Len(fs)
           W == Seq(V)
           none == <<>>
           step == [i \in 1..n |-> [r \in W |-> r \o fs[i]]]
           Def(g) == [i \in 1..n |-> IF i = 1 THEN fs[i] ELSE g[i - 1] \o fs[i]]
           flatten == CHOOSE g : g = Def(g)
<1>1. n \in Nat /\ none \in W /\ \A i \in 1..n : fs[i] \in W
  OBVIOUS
<1>2. \A i \in 1..n : \A r \in W : r \o fs[i] \in W
  BY <1>1
<1>3. \A s \in W : none \o s = s
  OBVIOUS
<1>4. n = 0 => FlattenSeq(fs) = none
  BY DEF FlattenSeq
<1>5. n # 0 => FlattenSeq(fs) = flatten[n]
  BY DEF FlattenSeq
<1> HIDE DEF n, W, none
<1>6. step \in [1..n -> [W -> W]]
  BY <1>2
<1>7. \A i \in 1..n : \A r \in W : step[i][r] = r \o fs[i]
  OBVIOUS
<1> HIDE DEF step
<1>8. PICK g \in [0..n -> W] : g[0] = none /\ \A i \in 1..n : g[i] = step[i][g[i - 1]]
  <2>1. Solvable(W, n, none, step)
    BY <1>1, <1>6, Recursion
  <2> QED
    BY <2>1 DEF Solvable, Solves
<1>9. \A i \in 1..n : i - 1 \in 0..n /\ i \in 0..n
  BY <1>1
<1>10. \A i \in 1..n : g[i] = g[i - 1] \o fs[i]
  BY <1>7, <1>8, <1>9
<1>10a. \A k \in Nat : k + 1 <= n => g[k + 1] = g[k] \o fs[k + 1]
  <2>1. FlatFrom1(g, fs, n)
    BY <1>10 DEF FlatFrom1
  <2>2. FlatFrom0(g, fs, n)
    BY <1>1, <2>1, FlatNext
  <2> QED
    BY <2>2 DEF FlatFrom0
<1>10b. n # 0 => g[1] = fs[1]
  <2> SUFFICES ASSUME n # 0 PROVE g[1] = fs[1]
    OBVIOUS
  <2>1. 0 + 1 <= n /\ 1 \in 1..n
    BY <1>1
  <2>2. g[0 + 1] = g[0] \o fs[0 + 1]
    BY <1>10a, <2>1
  <2>3. fs[1] \in W /\ 0 + 1 = 1
    BY <1>1, <2>1
  <2>4. g[1] = none \o fs[1]
    BY <1>8, <2>2, <2>3
  <2> QED
    BY <1>3, <2>3, <2>4
<1> DEFINE h == [i \in 1..n |-> g[i]]
<1>11. h = Def(h)
  <2>1. ASSUME NEW i \in 1..n PROVE g[i] = IF i = 1 THEN fs[i] ELSE h[i - 1] \o fs[i]
    <3>1. CASE i = 1
      BY <1>1, <1>10b, <3>1
    <3>2. CASE i # 1
      <4>1. i - 1 \in 1..n
        BY <1>1, <3>2
      <4> QED
        BY <1>10, <3>2, <4>1
    <3> QED
      BY <3>1, <3>2
  <2> QED
    BY <2>1
<1>12. flatten = Def(flatten)
  BY <1>11
<1> HIDE DEF flatten
<1>13. ASSUME NEW k \in Nat, k + 1 + 1 <= n
       PROVE  flatten[k + 1 + 1] = flatten[k + 1] \o fs[k + 1 + 1]
  <2>1. k + 1 + 1 \in 1..n /\ k + 1 + 1 # 1 /\ (k + 1 + 1) - 1 = k + 1
    BY <1>1, <1>13
  <2>2. flatten[k + 1 + 1] = Def(flatten)[k + 1 + 1]
    BY <1>12
  <2>3. flatten[k + 1 + 1] = flatten[(k + 1 + 1) - 1] \o fs[k + 1 + 1]
    BY <2>1, <2>2
  <2> QED
    BY <2>1, <2>3
<1> DEFINE T == { k \in Nat : k + 1 <= n => flatten[k + 1] = g[k + 1] }
<1>14. 0 \in T
  <2> SUFFICES ASSUME 0 + 1 <= n PROVE flatten[0 + 1] = g[0 + 1]
    OBVIOUS
  <2>1. 1 \in 1..n /\ n # 0
    BY <1>1
  <2>2. flatten[1] = Def(flatten)[1]
    BY <1>12
  <2> QED
    BY <1>10b, <2>1, <2>2
<1>15. ASSUME NEW k \in T PROVE k + 1 \in T
  <2> SUFFICES ASSUME k + 1 + 1 <= n PROVE flatten[k + 1 + 1] = g[k + 1 + 1]
    OBVIOUS
  <2>1. k + 1 <= n /\ k \in Nat /\ k + 1 \in Nat
    BY <1>1
  <2>2. flatten[k + 1] = g[k + 1]
    BY <2>1
  <2>3. g[k + 1 + 1] = g[k + 1] \o fs[k + 1 + 1]
    BY <1>10a, <2>1
  <2> QED
    BY <1>13, <2>1, <2>2, <2>3
<1>16. T = Nat
  <2> HIDE DEF T
  <2>1. T \in SUBSET Nat
    BY DEF T
  <2> QED
    BY <1>14, <1>15, <2>1, SetInduction
<1>17. FlattenSeq(fs) = g[n]
  <2>1. CASE n = 0
    BY <1>4, <1>8, <2>1
  <2>2. CASE n # 0
    <3>1. n - 1 \in Nat /\ n - 1 + 1 = n /\ n <= n
      BY <1>1, <2>2
    <3>2. flatten[n - 1 + 1] = g[n - 1 + 1]
      BY <1>16, <3>1
    <3> QED
      BY <1>5, <2>2, <3>1, <3>2
  <2> QED
    BY <2>1, <2>2
<1> QED
  BY <1>8, <1>10, <1>17 DEF n, W, none, HasFlat, FlatBy

LEMMA FlattenTyped ==
    ASSUME NEW V, NEW fs \in Seq(Seq(V))
    PROVE  FlattenSeq(fs) \in Seq(V)
<1>1. PICK flat \in [0..Len(fs) -> Seq(V)] : FlatBy(flat, fs)
  BY FlatUnfold DEF HasFlat
<1>2. Len(fs) \in 0..Len(fs)
  OBVIOUS
<1> QED
  BY <1>1, <1>2 DEF FlatBy

\* One more sequence: its elements come last.
LEMMA FlattenAppend ==
    ASSUME NEW V, NEW fs \in Seq(Seq(V)), NEW f \in Seq(V)
    PROVE  FlattenSeq(Append(fs, f)) = FlattenSeq(fs) \o f
<1> DEFINE gs == Append(fs, f)
           n == Len(fs)
<1>1. gs \in Seq(Seq(V)) /\ Len(gs) = n + 1 /\ n \in Nat
      /\ gs[n + 1] = f /\ \A i \in 1..n : gs[i] = fs[i]
  OBVIOUS
<1> HIDE DEF gs
<1>2. PICK a \in [0..Len(fs) -> Seq(V)] : FlatBy(a, fs)
  BY FlatUnfold DEF HasFlat
<1>3. PICK b \in [0..Len(gs) -> Seq(V)] : FlatBy(b, gs)
  BY <1>1, FlatUnfold DEF HasFlat
<1> HIDE DEF n
<1>4. /\ a[0] = <<>> /\ \A i \in 1..n : a[i] = a[i - 1] \o fs[i]
      /\ FlattenSeq(fs) = a[n]
  BY <1>2 DEF FlatBy, n
<1>5. /\ b[0] = <<>> /\ \A i \in 1..(n + 1) : b[i] = b[i - 1] \o gs[i]
      /\ FlattenSeq(gs) = b[n + 1]
  BY <1>1, <1>3 DEF FlatBy
<1>5a. \A k \in Nat : k + 1 <= n => a[k + 1] = a[k] \o fs[k + 1]
  <2>1. FlatFrom1(a, fs, n)
    BY <1>4 DEF FlatFrom1
  <2>2. n \in Nat
    BY <1>1
  <2>3. FlatFrom0(a, fs, n)
    BY <2>1, <2>2, FlatNext
  <2> QED
    BY <2>3 DEF FlatFrom0
<1>5b. \A k \in Nat : k + 1 <= n + 1 => b[k + 1] = b[k] \o gs[k + 1]
  <2>1. FlatFrom1(b, gs, n + 1)
    BY <1>5 DEF FlatFrom1
  <2>2. n + 1 \in Nat
    BY <1>1
  <2>3. FlatFrom0(b, gs, n + 1)
    BY <2>1, <2>2, FlatNext
  <2> QED
    BY <2>3 DEF FlatFrom0
<1> DEFINE T == { k \in Nat : k <= n => b[k] = a[k] }
<1>6. 0 \in T
  BY <1>4, <1>5
<1>7. ASSUME NEW k \in T PROVE k + 1 \in T
  <2> SUFFICES ASSUME k + 1 <= n PROVE b[k + 1] = a[k + 1]
    OBVIOUS
  <2>1. k + 1 \in 1..n /\ k + 1 <= n + 1 /\ k \in Nat /\ b[k] = a[k]
    BY <1>1
  <2>2. gs[k + 1] = fs[k + 1]
    BY <1>1, <2>1
  <2> QED
    BY <1>5a, <1>5b, <2>1, <2>2
<1>8. T = Nat
  <2> HIDE DEF T
  <2>1. T \in SUBSET Nat
    BY DEF T
  <2> QED
    BY <1>6, <1>7, <2>1, SetInduction
<1>9. b[n + 1] = b[n] \o f /\ b[n] = a[n]
  <2>1. n + 1 <= n + 1 /\ n <= n /\ n \in Nat
    BY <1>1
  <2>2. b[n] = a[n]
    BY <1>8, <2>1
  <2>3. b[n + 1] = b[n] \o gs[n + 1]
    BY <1>5b, <2>1
  <2> QED
    BY <1>1, <2>2, <2>3
<1> QED
  BY <1>4, <1>5, <1>9 DEF gs

\* No element is in two places.
NowhereTwice(fs) ==
    /\ \A i \in 1..Len(fs) : IsInjective(fs[i])
    /\ \A i, j \in 1..Len(fs) : i # j => ToSet(fs[i]) \cap ToSet(fs[j]) = {}

LEMMA JoinedElements ==
    ASSUME NEW V, NEW s \in Seq(V), NEW t \in Seq(V)
    PROVE  /\ s \o t \in Seq(V) /\ Len(s \o t) = Len(s) + Len(t)
           /\ ToSet(s \o t) = ToSet(s) \cup ToSet(t)
<1>1. \A i \in 1..(Len(s) + Len(t)) : (s \o t)[i] = IF i <= Len(s) THEN s[i] ELSE t[i - Len(s)]
  OBVIOUS
<1>2. s \o t \in Seq(V) /\ Len(s \o t) = Len(s) + Len(t) /\ Len(s) \in Nat /\ Len(t) \in Nat
  OBVIOUS
<1>3. DOMAIN (s \o t) = 1..(Len(s) + Len(t)) /\ DOMAIN s = 1..Len(s) /\ DOMAIN t = 1..Len(t)
  BY <1>2
<1> DEFINE u == s \o t
<1> HIDE DEF u
<1>4. ASSUME NEW x \in ToSet(u) PROVE x \in ToSet(s) \cup ToSet(t)
  <2>1. PICK i \in 1..(Len(s) + Len(t)) : x = u[i]
    BY <1>3 DEF ToSet, u
  <2>2. CASE i <= Len(s)
    BY <1>1, <1>2, <1>3, <2>1, <2>2 DEF ToSet, u
  <2>3. CASE ~(i <= Len(s))
    <3>1. i - Len(s) \in 1..Len(t) /\ x = t[i - Len(s)]
      BY <1>1, <1>2, <2>1, <2>3 DEF u
    <3> QED
      BY <1>3, <3>1 DEF ToSet
  <2> QED
    BY <2>2, <2>3
<1>5. ASSUME NEW x \in ToSet(s) PROVE x \in ToSet(u)
  <2>1. PICK i \in 1..Len(s) : x = s[i]
    BY <1>3 DEF ToSet
  <2>2. i \in 1..(Len(s) + Len(t)) /\ x = u[i]
    BY <1>1, <1>2, <2>1 DEF u
  <2> QED
    BY <1>3, <2>2 DEF ToSet, u
<1>6. ASSUME NEW x \in ToSet(t) PROVE x \in ToSet(u)
  <2>1. PICK i \in 1..Len(t) : x = t[i]
    BY <1>3 DEF ToSet
  <2>2. i + Len(s) \in 1..(Len(s) + Len(t)) /\ ~(i + Len(s) <= Len(s)) /\ i + Len(s) - Len(s) = i
    BY <1>2
  <2>3. x = u[i + Len(s)]
    BY <1>1, <2>1, <2>2 DEF u
  <2> QED
    BY <1>3, <2>2, <2>3 DEF ToSet, u
<1> QED
  BY <1>2, <1>4, <1>5, <1>6 DEF u

LEMMA JoinedInjective ==
    ASSUME NEW V, NEW s \in Seq(V), NEW t \in Seq(V),
           IsInjective(s), IsInjective(t), ToSet(s) \cap ToSet(t) = {}
    PROVE  IsInjective(s \o t)
<1>1. \A i \in 1..(Len(s) + Len(t)) : (s \o t)[i] = IF i <= Len(s) THEN s[i] ELSE t[i - Len(s)]
  OBVIOUS
<1>2. Len(s) \in Nat /\ Len(t) \in Nat /\ DOMAIN (s \o t) = 1..(Len(s) + Len(t))
      /\ DOMAIN s = 1..Len(s) /\ DOMAIN t = 1..Len(t)
  OBVIOUS
<1> DEFINE u == s \o t
<1> HIDE DEF u
<1>3. \A i \in 1..Len(s) : s[i] \in ToSet(s)
  BY <1>2 DEF ToSet
<1>4. \A i \in 1..Len(t) : t[i] \in ToSet(t)
  BY <1>2 DEF ToSet
<1>5. ASSUME NEW i \in 1..(Len(s) + Len(t)), NEW j \in 1..(Len(s) + Len(t)), u[i] = u[j], i <= j
      PROVE  i = j
  <2>1. CASE j <= Len(s)
    <3>1. i \in 1..Len(s) /\ j \in 1..Len(s) /\ i <= Len(s)
      BY <1>2, <1>5, <2>1
    <3> QED
      BY <1>1, <1>2, <1>5, <2>1, <3>1 DEF u, IsInjective
  <2>2. CASE ~(i <= Len(s))
    <3>1. i - Len(s) \in 1..Len(t) /\ j - Len(s) \in 1..Len(t) /\ ~(j <= Len(s))
      BY <1>2, <1>5, <2>2
    <3>2. t[i - Len(s)] = t[j - Len(s)]
      BY <1>1, <1>5, <2>2, <3>1 DEF u
    <3>3. i - Len(s) = j - Len(s)
      BY <1>2, <3>1, <3>2 DEF IsInjective
    <3> QED
      BY <1>2, <3>3
  <2>3. CASE i <= Len(s) /\ ~(j <= Len(s))
    <3>1. i \in 1..Len(s) /\ j - Len(s) \in 1..Len(t)
      BY <1>2, <1>5, <2>3
    <3>2. s[i] = t[j - Len(s)]
      BY <1>1, <1>5, <2>3 DEF u
    <3> QED
      BY <1>3, <1>4, <3>1, <3>2
  <2> QED
    BY <2>1, <2>2, <2>3
<1>6. ASSUME NEW i \in 1..(Len(s) + Len(t)), NEW j \in 1..(Len(s) + Len(t)), u[i] = u[j]
      PROVE  i = j
  <2>1. i <= j \/ j <= i
    BY <1>2
  <2> QED
    BY <1>5, <1>6, <2>1
<1> QED
  BY <1>2, <1>6 DEF IsInjective, u

\* s has the elements of the first n sequences.
HasElements(s, fs, n) ==
    /\ \A i \in 1..n : ToSet(fs[i]) \subseteq ToSet(s)
    /\ \A x \in ToSet(s) : \E i \in 1..n : x \in ToSet(fs[i])

LEMMA FlattenHasElements ==
    ASSUME NEW V, NEW fs \in Seq(Seq(V))
    PROVE  /\ HasElements(FlattenSeq(fs), fs, Len(fs))
           /\ NowhereTwice(fs) => IsInjective(FlattenSeq(fs))
<1>1. PICK flat \in [0..Len(fs) -> Seq(V)] : FlatBy(flat, fs)
  BY FlatUnfold DEF HasFlat
<1> DEFINE n == Len(fs)
<1>2. n \in Nat /\ \A i \in 1..n : fs[i] \in Seq(V)
  OBVIOUS
<1>3. flat[0] = <<>> /\ FlattenSeq(fs) = flat[n] /\ \A i \in 0..n : flat[i] \in Seq(V)
  BY <1>1 DEF FlatBy
<1>4. FlatFrom0(flat, fs, n)
  <2>1. FlatFrom1(flat, fs, n)
    BY <1>1 DEF FlatBy, FlatFrom1
  <2> QED
    BY <1>2, <2>1, FlatNext
<1>5. NowhereTwice(fs) =>
        /\ \A i \in 1..n : IsInjective(fs[i])
        /\ \A i, j \in 1..n : i # j => ToSet(fs[i]) \cap ToSet(fs[j]) = {}
  BY DEF NowhereTwice
<1> HIDE DEF n
<1> DEFINE T == { k \in Nat : k <= n => /\ HasElements(flat[k], fs, k)
                                        /\ NowhereTwice(fs) => IsInjective(flat[k]) }
<1>6. 0 \in T
  <2>1. HasElements(<<>>, fs, 0) /\ IsInjective(<<>>)
    BY DEF HasElements, ToSet, IsInjective
  <2> QED
    BY <1>3, <2>1
<1>7. ASSUME NEW k \in T PROVE k + 1 \in T
  <2> SUFFICES ASSUME k + 1 <= n PROVE /\ HasElements(flat[k + 1], fs, k + 1)
                                       /\ NowhereTwice(fs) => IsInjective(flat[k + 1])
    OBVIOUS
  <2> DEFINE s == flat[k]
             t == fs[k + 1]
  <2>1. /\ k \in Nat /\ k + 1 \in 1..n /\ k \in 0..n
        /\ HasElements(s, fs, k) /\ (NowhereTwice(fs) => IsInjective(s))
    BY <1>2
  <2>2. s \in Seq(V) /\ t \in Seq(V)
    BY <1>2, <1>3, <2>1
  <2>3. flat[k + 1] = s \o t
    BY <1>4, <2>1 DEF FlatFrom0
  <2>4. \A i \in 1..k : i \in 1..(k + 1) /\ i \in 1..n /\ i # k + 1
    BY <1>2, <2>1
  <2>5. \A i \in 1..(k + 1) : i \in 1..k \/ i = k + 1
    BY <2>1
  <2>6. \A i \in 1..k : ToSet(fs[i]) \subseteq ToSet(s)
    BY <2>1 DEF HasElements
  <2>7. \A r \in ToSet(s) : \E i \in 1..k : r \in ToSet(fs[i])
    BY <2>1 DEF HasElements
  <2> HIDE DEF s
  <2>8. ToSet(s \o t) = ToSet(s) \cup ToSet(t)
    BY <2>2, JoinedElements
  <2>9. HasElements(s \o t, fs, k + 1)
    <3>1. k + 1 \in 1..(k + 1)
      BY <2>1
    <3> QED
      BY <2>4, <2>5, <2>6, <2>7, <2>8, <3>1 DEF HasElements
  <2>10. ASSUME NowhereTwice(fs) PROVE IsInjective(s \o t)
    <3>1. IsInjective(s) /\ IsInjective(t)
      BY <1>5, <2>1, <2>10
    <3>2. ToSet(s) \cap ToSet(t) = {}
      BY <1>5, <2>1, <2>4, <2>7, <2>10
    <3> HIDE DEF t
    <3> QED
      BY <2>2, <3>1, <3>2, JoinedInjective
  <2> QED
    BY <2>3, <2>9, <2>10
<1>8. T = Nat
  <2> HIDE DEF T
  <2>1. T \in SUBSET Nat
    BY DEF T
  <2> QED
    BY <1>6, <1>7, <2>1, SetInduction
<1>9. n \in T /\ n <= n
  BY <1>2, <1>8
<1> QED
  BY <1>3, <1>9 DEF n

----------------------------------------------------------------------------
(* Where Retained takes its elements from.                                 *)

Identity(n) == [i \in 1..n |-> i]
Positions(n, I) == Retained(Identity(n), I)

\* The positions of I up to n, in increasing order.
Enumerates(pos, n, I) ==
    /\ pos \in Seq(1..n) /\ Len(pos) <= n
    /\ \A k \in 1..Len(pos) : pos[k] \in I \cap (1..n)
    /\ \A j, k \in 1..Len(pos) : j < k => pos[j] < pos[k]
    /\ \A i \in I \cap (1..n) : \E k \in 1..Len(pos) : pos[k] = i

LEMMA PositionsEnumerate ==
    ASSUME NEW n \in Nat, NEW I
    PROVE  Enumerates(Positions(n, I), n, I)
<1> DEFINE s == Identity(n)
           r == Positions(n, I)
<1>1. s \in Seq(1..n) /\ Len(s) = n /\ \A i \in 1..n : s[i] = i
  BY DEF Identity
<1>2. r \in Seq(1..n) /\ Picked(r, s, I, n)
  BY <1>1, RetainedPicks DEF Positions
<1> DEFINE J == (1..n) \ I
<1>3. Len(Retained(s, I)) + Len(Retained(s, J)) = Len(s)
  <2> HIDE DEF s
  <2>1. J = (1..Len(s)) \ I
    BY <1>1
  <2> HIDE DEF J
  <2> QED
    BY <1>1, <2>1, RetainedLength
<1>4. Retained(s, J) \in Seq(1..n)
  BY <1>1, RetainedPicks
<1> HIDE DEF s, J
<1>5. Len(r) <= n
  <2>1. Len(r) \in Nat /\ Len(Retained(s, J)) \in Nat
    BY <1>2, <1>4
  <2> QED
    BY <1>1, <1>3, <2>1 DEF Positions, s
<1> HIDE DEF r
<1>6. PICK pos \in Seq(Nat) : Picks(pos, r, s, I, n)
  BY <1>2 DEF Picked
<1>7. \A k \in 1..Len(r) : r[k] = pos[k] /\ pos[k] \in I \cap (1..n)
  BY <1>1, <1>6 DEF Picks
<1>8. \A j, k \in 1..Len(r) : j < k => r[j] < r[k]
  BY <1>6, <1>7 DEF Picks
<1>9. \A i \in I \cap (1..n) : \E k \in 1..Len(r) : r[k] = i
  BY <1>6, <1>7 DEF Picks
<1> QED
  BY <1>2, <1>5, <1>7, <1>8, <1>9 DEF Enumerates, r

\* r has the elements of s at the positions pos.
Selects(r, s, pos) == Len(r) = Len(pos) /\ \A k \in 1..Len(pos) : r[k] = s[pos[k]]

LEMMA RetainedSelects ==
    ASSUME NEW V, NEW s \in Seq(V), NEW I
    PROVE  Selects(Retained(s, I), s, Positions(Len(s), I))
<1> DEFINE n == Len(s)
           t == Identity(n)
<1>1. n \in Nat
  OBVIOUS
<1>2. t \in Seq(1..n) /\ Len(t) = n /\ \A i \in 1..n : t[i] = i
  BY DEF Identity
<1>3. PICK a \in [0..Len(s) -> Seq(V)] : RetainedBy(a, s, I)
  BY RetainedUnfold DEF HasRetained
<1>4. PICK b \in [0..Len(t) -> Seq(1..n)] : RetainedBy(b, t, I)
  <2>1. HasRetained(1..n, t, I)
    BY <1>2, RetainedUnfold
  <2> QED
    BY <2>1 DEF HasRetained
<1>5. /\ a[0] = <<>> /\ Retained(s, I) = a[n]
      /\ \A i \in 1..n : a[i] = IF i \in I THEN Append(a[i - 1], s[i]) ELSE a[i - 1]
  BY <1>3 DEF RetainedBy
<1>6. /\ b[0] = <<>> /\ Positions(n, I) = b[n]
      /\ \A i \in 1..n : b[i] = IF i \in I THEN Append(b[i - 1], i) ELSE b[i - 1]
  <2>1. b[0] = <<>> /\ Positions(n, I) = b[n]
    BY <1>2, <1>4 DEF RetainedBy, Positions
  <2>2. \A i \in 1..n : b[i] = IF i \in I THEN Append(b[i - 1], t[i]) ELSE b[i - 1]
    BY <1>2, <1>4 DEF RetainedBy
  <2> QED
    BY <1>2, <2>1, <2>2
<1>7. \A i \in 0..n : a[i] \in Seq(V) /\ b[i] \in Seq(1..n)
  BY <1>2, <1>3, <1>4
<1>7a. \A i \in 1..n : s[i] \in V
  OBVIOUS
<1> HIDE DEF n, t
<1> DEFINE T == { k \in Nat : k <= n => Selects(a[k], s, b[k]) }
<1>8. 0 \in T
  BY <1>5, <1>6 DEF Selects
<1>9. ASSUME NEW k \in T PROVE k + 1 \in T
  <2> SUFFICES ASSUME k + 1 <= n PROVE Selects(a[k + 1], s, b[k + 1])
    BY DEF T
  <2>1. k + 1 \in 1..n /\ (k + 1) - 1 = k /\ k \in 0..n /\ Selects(a[k], s, b[k])
    BY <1>1
  <2>2. a[k + 1] = IF k + 1 \in I THEN Append(a[k], s[k + 1]) ELSE a[k]
    BY <1>5, <2>1
  <2>3. b[k + 1] = IF k + 1 \in I THEN Append(b[k], k + 1) ELSE b[k]
    BY <1>6, <2>1
  <2>4. CASE k + 1 \notin I
    BY <2>1, <2>2, <2>3, <2>4
  <2>5. CASE k + 1 \in I
    <3> DEFINE p == b[k]
               q == a[k]
    <3>1. p \in Seq(1..n) /\ q \in Seq(V) /\ Selects(q, s, p) /\ s[k + 1] \in V
      BY <1>7, <1>7a, <2>1
    <3> HIDE DEF p, q
    <3>2. Selects(Append(q, s[k + 1]), s, Append(p, k + 1))
      <4>1. Len(p) \in Nat /\ Len(q) = Len(p)
        BY <3>1 DEF Selects
      <4>2. Len(Append(q, s[k + 1])) = Len(p) + 1 /\ Len(Append(p, k + 1)) = Len(p) + 1
        BY <2>1, <3>1, <4>1
      <4>3. ASSUME NEW j \in 1..(Len(p) + 1)
            PROVE  Append(q, s[k + 1])[j] = s[Append(p, k + 1)[j]]
        <5>1. CASE j \in 1..Len(p)
          BY <2>1, <3>1, <4>1, <5>1 DEF Selects
        <5>2. CASE j = Len(p) + 1
          BY <2>1, <3>1, <4>1, <5>2
        <5> QED
          BY <4>1, <5>1, <5>2
      <4> QED
        BY <4>2, <4>3 DEF Selects
    <3> QED
      BY <2>2, <2>3, <2>5, <3>2 DEF p, q
  <2> QED
    BY <2>4, <2>5
<1>10. T = Nat
  <2> HIDE DEF T
  <2>1. T \in SUBSET Nat
    BY DEF T
  <2> QED
    BY <1>8, <1>9, <2>1, SetInduction
<1>11. n \in T /\ n <= n
  BY <1>1, <1>10
<1> QED
  BY <1>5, <1>6, <1>11 DEF n

\* s is the beginning of t.
Begins(s, t) == Len(s) <= Len(t) /\ \A i \in 1..Len(s) : s[i] = t[i]

\* b is the function by which Positions is defined, up to n.
PositionsBy(b, n, I) ==
    /\ b[0] = <<>> /\ Positions(n, I) = b[n]
    /\ \A i \in 1..n : b[i] = IF i \in I THEN Append(b[i - 1], i) ELSE b[i - 1]

HasPositions(n, I) == \E b \in [0..n -> Seq(1..n)] : PositionsBy(b, n, I)

LEMMA PositionsUnfold ==
    ASSUME NEW n \in Nat, NEW I
    PROVE  HasPositions(n, I)
<1> DEFINE t == Identity(n)
<1>1. t \in Seq(1..n) /\ Len(t) = n /\ \A i \in 1..n : t[i] = i
  BY DEF Identity
<1>2. PICK b \in [0..Len(t) -> Seq(1..n)] : RetainedBy(b, t, I)
  <2>1. HasRetained(1..n, t, I)
    BY <1>1, RetainedUnfold
  <2> QED
    BY <2>1 DEF HasRetained
<1>3. b[0] = <<>> /\ Positions(n, I) = b[n]
  BY <1>1, <1>2 DEF RetainedBy, Positions
<1>4. \A i \in 1..n : b[i] = IF i \in I THEN Append(b[i - 1], t[i]) ELSE b[i - 1]
  BY <1>1, <1>2 DEF RetainedBy
<1>5. b \in [0..n -> Seq(1..n)]
  BY <1>1, <1>2
<1> QED
  BY <1>1, <1>3, <1>4, <1>5 DEF HasPositions, PositionsBy

\* What is retained of the beginning comes first.
LEMMA PositionsBegin ==
    ASSUME NEW m \in Nat, NEW n \in Nat, m <= n, NEW I, NEW J,
           \A i \in 1..m : i \in I <=> i \in J
    PROVE  Begins(Positions(m, I), Positions(n, J))
<1>1. PICK a \in [0..m -> Seq(1..m)] : PositionsBy(a, m, I)
  BY PositionsUnfold DEF HasPositions
<1>2. PICK b \in [0..n -> Seq(1..n)] : PositionsBy(b, n, J)
  BY PositionsUnfold DEF HasPositions
<1>3. /\ a[0] = <<>> /\ Positions(m, I) = a[m]
      /\ \A i \in 1..m : a[i] = IF i \in I THEN Append(a[i - 1], i) ELSE a[i - 1]
  BY <1>1 DEF PositionsBy
<1>4. /\ b[0] = <<>> /\ Positions(n, J) = b[n]
      /\ \A i \in 1..n : b[i] = IF i \in J THEN Append(b[i - 1], i) ELSE b[i - 1]
  BY <1>2 DEF PositionsBy
<1> DEFINE T == { k \in Nat : k <= m => a[k] = b[k] }
<1>5. 0 \in T
  BY <1>3, <1>4
<1>6. ASSUME NEW k \in T PROVE k + 1 \in T
  <2> SUFFICES ASSUME k + 1 <= m PROVE a[k + 1] = b[k + 1]
    BY DEF T
  <2>1. k + 1 \in 1..m /\ k + 1 \in 1..n /\ (k + 1) - 1 = k /\ a[k] = b[k]
    OBVIOUS
  <2> QED
    BY <1>3, <1>4, <2>1
<1>7. T = Nat
  <2> HIDE DEF T
  <2>1. T \in SUBSET Nat
    BY DEF T
  <2> QED
    BY <1>5, <1>6, <2>1, SetInduction
<1>8. a[m] = b[m]
  <2>1. m \in T
    <3> HIDE DEF T
    <3> QED
      BY <1>7
  <2> QED
    BY <2>1
<1> DEFINE U == { k \in Nat : m + k <= n => Begins(b[m], b[m + k]) }
<1>9. 0 \in U
  BY DEF Begins
<1>10. ASSUME NEW k \in U PROVE k + 1 \in U
  <2> SUFFICES ASSUME m + (k + 1) <= n PROVE Begins(b[m], b[m + (k + 1)])
    BY DEF U
  <2> DEFINE i == m + (k + 1)
  <2>1. i \in 1..n /\ i - 1 = m + k /\ m \in 0..n /\ m + k \in 0..n /\ Begins(b[m], b[m + k])
    OBVIOUS
  <2>2. b[m] \in Seq(1..n) /\ b[m + k] \in Seq(1..n)
    BY <2>1
  <2>3. b[i] = IF i \in J THEN Append(b[m + k], i) ELSE b[m + k]
    BY <1>4, <2>1
  <2> HIDE DEF i
  <2>4. CASE i \notin J
    BY <2>1, <2>3, <2>4 DEF i
  <2>5. CASE i \in J
    <3> DEFINE p == b[m + k]
               q == b[m]
    <3>1. p \in Seq(1..n) /\ q \in Seq(1..n) /\ Begins(q, p)
      BY <2>1, <2>2
    <3> HIDE DEF p, q
    <3>2. Begins(q, Append(p, i))
      BY <2>1, <3>1 DEF Begins
    <3> QED
      BY <2>3, <2>5, <3>2 DEF p, q, i
  <2> QED
    BY <2>4, <2>5
<1>11. U = Nat
  <2> HIDE DEF U
  <2>1. U \in SUBSET Nat
    BY DEF U
  <2> QED
    BY <1>9, <1>10, <2>1, SetInduction
<1>12. n - m \in U
  <2> HIDE DEF U
  <2> QED
    BY <1>11
<1>13. Begins(b[m], b[n])
  <2>1. m + (n - m) = n /\ n <= n
    OBVIOUS
  <2> QED
    BY <1>12, <2>1
<1> QED
  BY <1>3, <1>4, <1>8, <1>13

LEMMA BeginsBoth ==
    ASSUME NEW V, NEW s \in Seq(V), NEW t \in Seq(V), Begins(s, t), Begins(t, s)
    PROVE  s = t
<1>1. Len(s) = Len(t) /\ \A i \in 1..Len(s) : s[i] = t[i]
  BY DEF Begins
<1> QED
  BY <1>1

\* Only the positions within the sequence count.
LEMMA PositionsWithin ==
    ASSUME NEW n \in Nat, NEW I, NEW J, \A i \in 1..n : i \in I <=> i \in J
    PROVE  Positions(n, I) = Positions(n, J)
<1>1. Begins(Positions(n, I), Positions(n, J)) /\ Begins(Positions(n, J), Positions(n, I))
  BY PositionsBegin
<1>2. Positions(n, I) \in Seq(1..n) /\ Positions(n, J) \in Seq(1..n)
  BY PositionsEnumerate DEF Enumerates
<1> QED
  BY <1>1, <1>2, BeginsBoth

LEMMA PositionsAll ==
    ASSUME NEW n \in Nat, NEW I, 1..n \subseteq I
    PROVE  Positions(n, I) = Identity(n)
<1>1. PICK b \in [0..n -> Seq(1..n)] : PositionsBy(b, n, I)
  BY PositionsUnfold DEF HasPositions
<1>2. /\ b[0] = <<>> /\ Positions(n, I) = b[n]
      /\ \A i \in 1..n : b[i] = Append(b[i - 1], i)
  BY <1>1 DEF PositionsBy
<1> DEFINE T == { k \in Nat : k <= n => Len(b[k]) = k /\ \A j \in 1..k : b[k][j] = j }
<1>3. 0 \in T
  BY <1>2
<1>4. ASSUME NEW k \in T PROVE k + 1 \in T
  <2> SUFFICES ASSUME k + 1 <= n
               PROVE  Len(b[k + 1]) = k + 1 /\ \A j \in 1..(k + 1) : b[k + 1][j] = j
    BY DEF T
  <2>1. /\ k + 1 \in 1..n /\ (k + 1) - 1 = k /\ k \in 0..n
        /\ Len(b[k]) = k /\ \A j \in 1..k : b[k][j] = j
    OBVIOUS
  <2>2. b[k] \in Seq(1..n) /\ b[k + 1] = Append(b[k], k + 1)
    BY <1>2, <2>1
  <2> DEFINE p == b[k]
  <2>3. p \in Seq(1..n) /\ Len(p) = k /\ \A j \in 1..k : p[j] = j
    BY <2>1, <2>2
  <2> HIDE DEF p
  <2>4. Len(Append(p, k + 1)) = k + 1 /\ \A j \in 1..(k + 1) : Append(p, k + 1)[j] = j
    BY <2>1, <2>3
  <2>5. b[k + 1] = Append(p, k + 1)
    BY <2>2 DEF p
  <2> QED
    BY <2>4, <2>5
<1>5. T = Nat
  <2> HIDE DEF T
  <2>1. T \in SUBSET Nat
    BY DEF T
  <2> QED
    BY <1>3, <1>4, <2>1, SetInduction
<1>6. Len(b[n]) = n /\ \A j \in 1..n : b[n][j] = j
  <2>1. n \in T
    <3> HIDE DEF T
    <3> QED
      BY <1>5
  <2> QED
    BY <2>1
<1>7. b[n] \in Seq(1..n) /\ Identity(n) \in Seq(1..n) /\ Len(Identity(n)) = n
  BY DEF Identity
<1>8. \A j \in 1..n : Identity(n)[j] = j
  BY DEF Identity
<1> QED
  BY <1>2, <1>6, <1>7, <1>8

\* What is retained of two sequences of the same length are elements at the
\* same positions.
Paired(r, q, s, t, I) ==
    /\ Len(r) = Len(q) /\ Len(r) <= Len(s)
    /\ \A k \in 1..Len(r) : \E i \in I \cap (1..Len(s)) : r[k] = s[i] /\ q[k] = t[i]

LEMMA RetainedPaired ==
    ASSUME NEW V, NEW W, NEW s \in Seq(V), NEW t \in Seq(W), Len(s) = Len(t), NEW I
    PROVE  Paired(Retained(s, I), Retained(t, I), s, t, I)
<1> DEFINE pos == Positions(Len(s), I)
<1>1. Enumerates(pos, Len(s), I)
  <2>1. Len(s) \in Nat
    OBVIOUS
  <2> QED
    BY <2>1, PositionsEnumerate
<1>2. Selects(Retained(s, I), s, pos)
  BY RetainedSelects
<1>3. Selects(Retained(t, I), t, pos)
  BY RetainedSelects
<1> HIDE DEF pos
<1> QED
  BY <1>1, <1>2, <1>3 DEF Enumerates, Selects, Paired

\* Every element retained is one of the sequence.
LEMMA RetainedAmong ==
    ASSUME NEW V, NEW s \in Seq(V), NEW I
    PROVE  /\ Retained(s, I) \in Seq(V) /\ Len(Retained(s, I)) <= Len(s)
           /\ \A k \in 1..Len(Retained(s, I)) :
                 \E i \in I \cap (1..Len(s)) : Retained(s, I)[k] = s[i]
<1>1. Retained(s, I) \in Seq(V)
  BY RetainedPicks
<1>2. Paired(Retained(s, I), Retained(s, I), s, s, I)
  BY RetainedPaired
<1> QED
  BY <1>1, <1>2 DEF Paired

\* Every position in I is retained.
LEMMA RetainedKeeps ==
    ASSUME NEW V, NEW s \in Seq(V), NEW I, NEW i \in I \cap (1..Len(s))
    PROVE  \E k \in 1..Len(Retained(s, I)) : Retained(s, I)[k] = s[i]
<1>1. Picked(Retained(s, I), s, I, Len(s))
  BY RetainedPicks
<1> QED
  BY <1>1 DEF Picked, Picks

LEMMA RetainedWithin ==
    ASSUME NEW V, NEW s \in Seq(V), NEW I, NEW J, \A i \in 1..Len(s) : i \in I <=> i \in J
    PROVE  Retained(s, I) = Retained(s, J)
<1>1. Positions(Len(s), I) = Positions(Len(s), J)
  <2>1. Len(s) \in Nat
    OBVIOUS
  <2> QED
    BY <2>1, PositionsWithin
<1>2. Selects(Retained(s, I), s, Positions(Len(s), I))
  BY RetainedSelects
<1>3. Selects(Retained(s, J), s, Positions(Len(s), J))
  BY RetainedSelects
<1>4. Retained(s, I) \in Seq(V) /\ Retained(s, J) \in Seq(V)
  BY RetainedPicks
<1> DEFINE p == Positions(Len(s), J)
           a == Retained(s, I)
           b == Retained(s, J)
<1>5. Selects(a, s, p) /\ Selects(b, s, p) /\ a \in Seq(V) /\ b \in Seq(V)
  BY <1>1, <1>2, <1>3, <1>4
<1> HIDE DEF p, a, b
<1>6. a = b
  BY <1>5 DEF Selects
<1> QED
  BY <1>6 DEF a, b

LEMMA RetainedAll ==
    ASSUME NEW V, NEW s \in Seq(V), NEW I, 1..Len(s) \subseteq I
    PROVE  Retained(s, I) = s
<1>1. Len(s) \in Nat
  OBVIOUS
<1>2. Positions(Len(s), I) = Identity(Len(s))
  BY <1>1, PositionsAll
<1>3. Selects(Retained(s, I), s, Identity(Len(s)))
  BY <1>2, RetainedSelects
<1>4. Retained(s, I) \in Seq(V)
  BY RetainedPicks
<1>5. Len(Identity(Len(s))) = Len(s) /\ \A i \in 1..Len(s) : Identity(Len(s))[i] = i
  BY <1>1 DEF Identity
<1> DEFINE r == Retained(s, I)
<1> HIDE DEF r
<1>6. Len(r) = Len(s) /\ \A i \in 1..Len(s) : r[i] = s[i]
  BY <1>3, <1>5 DEF Selects, r
<1>7. r = s
  BY <1>4, <1>6 DEF r
<1> QED
  BY <1>7 DEF r

\* What is retained of the beginning of a sequence begins what is retained of
\* it all.
LEMMA RetainedBegin ==
    ASSUME NEW V, NEW s \in Seq(V), NEW n \in Nat, n <= Len(s), NEW I, NEW J,
           \A i \in 1..n : i \in I <=> i \in J
    PROVE  Begins(Retained(SubSeq(s, 1, n), I), Retained(s, J))
<1> DEFINE t == SubSeq(s, 1, n)
<1>1. t \in Seq(V) /\ Len(t) = n /\ Len(s) \in Nat /\ \A i \in 1..n : t[i] = s[i]
  OBVIOUS
<1> HIDE DEF t
<1> DEFINE p == Positions(n, I)
           q == Positions(Len(s), J)
<1>2. Begins(p, q)
  BY <1>1, PositionsBegin
<1>3. Selects(Retained(t, I), t, p)
  BY <1>1, RetainedSelects
<1>4. Selects(Retained(s, J), s, q)
  BY RetainedSelects
<1>5. Enumerates(p, n, I)
  BY PositionsEnumerate
<1>6. p \in Seq(1..n) /\ \A k \in 1..Len(p) : p[k] \in 1..n
  BY <1>5 DEF Enumerates
<1>7. q \in Seq(1..Len(s))
  <2>1. Enumerates(q, Len(s), J)
    BY <1>1, PositionsEnumerate
  <2> QED
    BY <2>1 DEF Enumerates
<1> HIDE DEF p, q
<1>8. Len(p) <= Len(q) /\ \A k \in 1..Len(p) : k \in 1..Len(q) /\ q[k] = p[k]
  BY <1>2, <1>6, <1>7 DEF Begins
<1> QED
  BY <1>1, <1>3, <1>4, <1>6, <1>8 DEF Selects, Begins, t

\* The positions that are retained, one for each element.
LEMMA PositionsBijection ==
    ASSUME NEW n \in Nat, NEW I
    PROVE  /\ Len(Positions(n, I)) \in Nat
           /\ Positions(n, I) \in Bijection(1..Len(Positions(n, I)), I \cap (1..n))
<1> DEFINE p == Positions(n, I)
           m == Len(p)
           J == I \cap (1..n)
<1>1. Enumerates(p, n, I)
  BY PositionsEnumerate
<1>2. /\ m \in Nat /\ p \in [1..m -> J]
      /\ \A j, k \in 1..m : j < k => p[j] < p[k]
      /\ \A i \in J : \E k \in 1..m : p[k] = i
  BY <1>1 DEF Enumerates
<1>3. \A k \in 1..m : p[k] \in Nat
  BY <1>2
<1> HIDE DEF p, m
<1>4. ASSUME NEW j \in 1..m, NEW k \in 1..m, p[j] = p[k] PROVE j = k
  <2>1. ~(j < k) /\ ~(k < j)
    BY <1>2, <1>3, <1>4
  <2> QED
    BY <1>2, <2>1
<1> HIDE DEF J
<1>5. p \in Injection(1..m, J)
  BY <1>2, <1>4 DEF Injection, IsInjective
<1>6. p \in Surjection(1..m, J)
  BY <1>2 DEF Surjection
<1> QED
  BY <1>2, <1>5, <1>6 DEF Bijection, p, m, J

LEMMA RetainedSize ==
    ASSUME NEW V, NEW s \in Seq(V), NEW I \in SUBSET (1..Len(s))
    PROVE  Len(Retained(s, I)) = Cardinality(I)
<1> DEFINE p == Positions(Len(s), I)
           m == Len(p)
<1>1. Len(s) \in Nat
  OBVIOUS
<1>2. m \in Nat /\ p \in Bijection(1..m, I \cap (1..Len(s)))
  BY <1>1, PositionsBijection
<1>3. Len(Retained(s, I)) = m
  BY RetainedSelects DEF Selects
<1>4. I \cap (1..Len(s)) = I
  OBVIOUS
<1> HIDE DEF p, m
<1>5. ExistsBijection(1..m, I)
  BY <1>2, <1>4 DEF ExistsBijection
<1>6. IsFiniteSet(1..m) /\ Cardinality(1..m) = m
  BY <1>2, FS_Interval
<1>7. Cardinality(I) = Cardinality(1..m)
  BY <1>5, <1>6, FS_Bijection
<1> QED
  BY <1>3, <1>6, <1>7

\* How often s has v at the positions I.
Often(s, I, v) == Cardinality({ i \in I : s[i] = v })

\* An element is retained as often as it is at one of the positions.
LEMMA RetainedCount ==
    ASSUME NEW V, NEW s \in Seq(V), NEW I \in SUBSET (1..Len(s)), NEW v
    PROVE  Often(Retained(s, I), 1..Len(Retained(s, I)), v) = Often(s, I, v)
<1> DEFINE p == Positions(Len(s), I)
           r == Retained(s, I)
           m == Len(p)
           A == { j \in 1..Len(r) : r[j] = v }
           B == { i \in I : s[i] = v }
           f == [j \in A |-> p[j]]
<1>1. Len(s) \in Nat
  OBVIOUS
<1>2. m \in Nat /\ p \in Bijection(1..m, I \cap (1..Len(s))) /\ I \cap (1..Len(s)) = I
  BY <1>1, PositionsBijection
<1>3. Len(r) = m /\ \A k \in 1..m : r[k] = s[p[k]]
  BY RetainedSelects DEF Selects
<1> HIDE DEF p, r, m
<1>4. /\ \A k \in 1..m : p[k] \in I
      /\ \A j, k \in 1..m : p[j] = p[k] => j = k
      /\ \A i \in I : \E k \in 1..m : p[k] = i
  BY <1>2 DEF Bijection, Injection, Surjection, IsInjective
<1>5. A \subseteq 1..m /\ \A j \in 1..m : j \in A <=> p[j] \in B
  BY <1>3, <1>4
<1>6. B \subseteq I
  OBVIOUS
<1> HIDE DEF A, B
<1>7. f \in [A -> B] /\ \A j \in A : f[j] = p[j]
  BY <1>5
<1> HIDE DEF f
<1>8. f \in Injection(A, B)
  BY <1>4, <1>5, <1>7 DEF Injection, IsInjective
<1>9. f \in Surjection(A, B)
  BY <1>4, <1>5, <1>6, <1>7 DEF Surjection
<1>10. ExistsBijection(A, B)
  BY <1>8, <1>9 DEF ExistsBijection, Bijection
<1>11. IsFiniteSet(A)
  <2>1. IsFiniteSet(1..m) /\ A \in SUBSET (1..m)
    BY <1>2, <1>5, FS_Interval
  <2> QED
    BY <2>1, FS_Subset
<1>12. Cardinality(B) = Cardinality(A)
  BY <1>10, <1>11, FS_Bijection
<1> QED
  BY <1>12 DEF A, B, r, Often

----------------------------------------------------------------------------
(* Sets.                                                                   *)

LEMMA MinOfTwo ==
    ASSUME NEW a \in Nat, NEW b \in Nat
    PROVE  Min({a, b}) = IF a <= b THEN a ELSE b
<1>1. \E x \in {a, b} : \A y \in {a, b} : x <= y
  <2>1. a <= b \/ b <= a
    OBVIOUS
  <2> QED
    BY <2>1
<1>2. Min({a, b}) \in {a, b} /\ \A y \in {a, b} : Min({a, b}) <= y
  BY <1>1 DEF Min
<1> QED
  BY <1>2

LEMMA MaxOfTwo ==
    ASSUME NEW a \in Nat, NEW b \in Nat
    PROVE  Max({a, b}) = IF a >= b THEN a ELSE b
<1>1. \E x \in {a, b} : \A y \in {a, b} : x >= y
  <2>1. a >= b \/ b >= a
    OBVIOUS
  <2> QED
    BY <2>1
<1>2. Max({a, b}) \in {a, b} /\ \A y \in {a, b} : Max({a, b}) >= y
  BY <1>1 DEF Max
<1> QED
  BY <1>2

LEMMA ElementsFinite ==
    ASSUME NEW V, NEW s \in Seq(V)
    PROVE  IsFiniteSet(ToSet(s)) /\ Cardinality(ToSet(s)) <= Len(s)
<1> DEFINE n == Len(s)
           S == ToSet(s)
<1>1. n \in Nat /\ s \in [1..n -> S] /\ \A x \in S : \E k \in 1..n : s[k] = x
  BY DEF ToSet
<1> HIDE DEF n, S
<1>2. s \in Surjection(1..n, S)
  BY <1>1 DEF Surjection
<1>3. IsFiniteSet(1..n) /\ Cardinality(1..n) = n
  BY <1>1, FS_Interval
<1>4. IsFiniteSet(S) /\ Cardinality(S) <= Cardinality(1..n)
  BY <1>2, <1>3, FS_Surjection
<1> QED
  BY <1>3, <1>4 DEF n, S

\* A finite set as a sequence, in some order.
LEMMA SetAsList ==
    ASSUME NEW S, IsFiniteSet(S)
    PROVE  /\ SetToSeq(S) \in Seq(S) /\ Len(SetToSeq(S)) = Cardinality(S)
           /\ IsInjective(SetToSeq(S)) /\ ToSet(SetToSeq(S)) = S
<1> DEFINE n == Cardinality(S)
<1>1. n \in Nat /\ ExistsBijection(1..n, S)
  BY FS_CardinalityType
<1>2. PICK f \in Bijection(1..n, S) : TRUE
  BY <1>1 DEF ExistsBijection
<1>3. f \in [1..n -> S] /\ IsInjective(f)
  BY <1>2 DEF Bijection, Injection
<1>4. SetToSeq(S) \in [1..n -> S] /\ IsInjective(SetToSeq(S))
  BY <1>3 DEF SetToSeq
<1> DEFINE s == SetToSeq(S)
<1> HIDE DEF n, s
<1>5. s \in [1..n -> S] /\ IsInjective(s)
  BY <1>4 DEF s, n
<1>6. s \in Seq(S) /\ Len(s) = n /\ DOMAIN s = 1..n
  BY <1>1, <1>5
<1>7. ToSet(s) = S
  <2>1. s \in Injection(1..n, S)
    BY <1>5 DEF Injection, IsInjective
  <2>2. IsFiniteSet(1..n) /\ Cardinality(1..n) = n
    BY <1>1, FS_Interval
  <2>3. s \in Surjection(1..n, S)
    BY <2>1, <2>2, FS_Injection DEF n
  <2> QED
    BY <1>6, <2>3 DEF Surjection, ToSet
<1> QED
  BY <1>5, <1>6, <1>7 DEF s, n
=============================================================================
