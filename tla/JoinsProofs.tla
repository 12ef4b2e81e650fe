---------------------------- MODULE JoinsProofs ----------------------------
(***************************************************************************)
(* Every way in which the executor joins two tables returns the same rows: *)
(* for any tables, schemas, conditions and kinds of join.                  *)
(*                                                                         *)
(* First what the proofs need of sequences that list a set, then what each *)
(* function contributes, then the invariant.  It speaks of the rows that   *)
(* Match, what the code evaluates; that they are the rows that the         *)
(* condition Means is a lemma of its own.                                  *)
(***************************************************************************)
EXTENDS Joins, SequenceLemmas, FiniteSetTheorems

----------------------------------------------------------------------------
(* Sequences that list a set.                                              *)

Pair == Nat \X Nat

\* s has each element of S once, and nothing else.
Lists(s, S) == s \in Seq(Pair) /\ IsInjective(s) /\ ToSet(s) = S

LEMMA ListsNothing == Lists(<<>>, {})
<1>1. <<>> \in Seq(Pair) /\ DOMAIN <<>> = {}
  OBVIOUS
<1> QED
  BY <1>1 DEF Lists, IsInjective, ToSet

LEMMA ListsOne ==
    ASSUME NEW p \in Pair
    PROVE  Lists(<<p>>, {p})
<1>1. <<p>> \in Seq(Pair) /\ DOMAIN <<p>> = {1} /\ <<p>>[1] = p
  OBVIOUS
<1> DEFINE s == <<p>>
<1> HIDE DEF s
<1>2. s \in Seq(Pair) /\ DOMAIN s = {1} /\ s[1] = p
  BY <1>1 DEF s
<1>3. Lists(s, {p})
  BY <1>2 DEF Lists, IsInjective, ToSet
<1> QED
  BY <1>3 DEF s

LEMMA ListsJoined ==
    ASSUME NEW s, NEW t, NEW S, NEW T, Lists(s, S), Lists(t, T), S \cap T = {}
    PROVE  Lists(s \o t, S \cup T)
<1>1. /\ s \in Seq(Pair) /\ t \in Seq(Pair) /\ IsInjective(s) /\ IsInjective(t)
      /\ ToSet(s) = S /\ ToSet(t) = T
  BY DEF Lists
<1> HIDE DEF Pair
<1>2. s \o t \in Seq(Pair) /\ ToSet(s \o t) = S \cup T
  BY <1>1, JoinedElements
<1>3. IsInjective(s \o t)
  BY <1>1, JoinedInjective
<1> QED
  BY <1>2, <1>3 DEF Lists

\* The members of the sets that fs lists one after the other.
Members(fs) == { p \in Pair : \E n \in 1..Len(fs) : p \in ToSet(fs[n]) }

LEMMA ListsFlatten ==
    ASSUME NEW fs \in Seq(Seq(Pair)), NowhereTwice(fs)
    PROVE  Lists(FlattenSeq(fs), Members(fs))
<1> DEFINE s == FlattenSeq(fs)
<1>1. s \in Seq(Pair)
  BY FlattenTyped
<1>2. HasElements(s, fs, Len(fs)) /\ IsInjective(s)
  BY FlattenHasElements
<1> HIDE DEF s
<1>3. ToSet(s) \subseteq Pair
  BY <1>1 DEF ToSet
<1>4. ToSet(s) = Members(fs)
  BY <1>2, <1>3 DEF HasElements, Members
<1> QED
  BY <1>1, <1>2, <1>4 DEF Lists, s

Count(s, p) == Cardinality({ n \in DOMAIN s : s[n] = p })

LEMMA CountListed ==
    ASSUME NEW s, NEW S, Lists(s, S), NEW p
    PROVE  Count(s, p) = IF p \in S THEN 1 ELSE 0
<1>1. IsInjective(s) /\ S = { s[n] : n \in DOMAIN s }
  BY DEF Lists, ToSet
<1>2. CASE p \in S
  <2>1. PICK n \in DOMAIN s : s[n] = p
    BY <1>1, <1>2
  <2>2. { m \in DOMAIN s : s[m] = p } = {n}
    BY <1>1, <2>1 DEF IsInjective
  <2>3. Cardinality({n}) = 1
    BY FS_Singleton
  <2> QED
    BY <1>2, <2>2, <2>3 DEF Count
<1>3. CASE p \notin S
  <2>1. { m \in DOMAIN s : s[m] = p } = {}
    BY <1>1, <1>3
  <2>2. Cardinality({}) = 0
    BY FS_EmptySet
  <2> QED
    BY <1>3, <2>1, <2>2 DEF Count
<1> QED
  BY <1>2, <1>3

\* How often an element is in two sequences together.
LEMMA CountJoined ==
    ASSUME NEW s \in Seq(Pair), NEW t \in Seq(Pair), NEW p
    PROVE  Count(s \o t, p) = Count(s, p) + Count(t, p)
<1> DEFINE m == Len(s)
           n == Len(t)
           u == s \o t
           A == { i \in DOMAIN s : s[i] = p }
           B == { i \in DOMAIN t : t[i] = p }
           C == { i + m : i \in B }
<1>1. /\ m \in Nat /\ n \in Nat /\ DOMAIN s = 1..m /\ DOMAIN t = 1..n /\ DOMAIN u = 1..(m + n)
      /\ \A i \in 1..(m + n) : u[i] = IF i <= m THEN s[i] ELSE t[i - m]
  OBVIOUS
<1> HIDE DEF m, n, u
<1>2. A = { i \in 1..m : s[i] = p } /\ B = { i \in 1..n : t[i] = p }
  BY <1>1
<1>3. { i \in DOMAIN u : u[i] = p } = A \cup C
  <2>1. ASSUME NEW i \in 1..(m + n), u[i] = p PROVE i \in A \cup C
    <3>1. CASE i <= m
      BY <1>1, <1>2, <2>1, <3>1
    <3>2. CASE ~(i <= m)
      <4>1. i - m \in 1..n /\ (i - m) + m = i /\ t[i - m] = p
        BY <1>1, <2>1, <3>2
      <4> QED
        BY <1>2, <4>1
    <3> QED
      BY <3>1, <3>2
  <2>2. ASSUME NEW i \in A PROVE i \in 1..(m + n) /\ u[i] = p
    BY <1>1, <1>2
  <2>3. ASSUME NEW i \in B PROVE i + m \in 1..(m + n) /\ u[i + m] = p
    <3>1. i \in 1..n /\ t[i] = p
      BY <1>2
    <3>2. i + m \in 1..(m + n) /\ ~(i + m <= m) /\ (i + m) - m = i
      BY <1>1, <3>1
    <3> QED
      BY <1>1, <3>1, <3>2
  <2> QED
    BY <1>1, <2>1, <2>2, <2>3
<1>4. IsFiniteSet(A) /\ IsFiniteSet(B)
  <2>1. IsFiniteSet(1..m) /\ IsFiniteSet(1..n)
    BY <1>1, FS_Interval
  <2>2. A \in SUBSET (1..m) /\ B \in SUBSET (1..n)
    BY <1>1, <1>2
  <2> HIDE DEF A, B
  <2> QED
    BY <2>1, <2>2, FS_Subset
<1>5. IsFiniteSet(C) /\ Cardinality(C) = Cardinality(B)
  <2> DEFINE f == [i \in B |-> i + m]
  <2>1. \A i \in B : i \in Nat
    BY <1>1, <1>2
  <2> HIDE DEF B
  <2>2. f \in Bijection(B, C)
    BY <1>1, <2>1 DEF Bijection, Injection, Surjection, IsInjective
  <2>3. ExistsBijection(B, C)
    BY Zenon, <2>2 DEF ExistsBijection
  <2> HIDE DEF f, C
  <2> QED
    BY <1>4, <2>3, FS_Bijection
<1>6. A \cap C = {}
  BY <1>1, <1>2
<1>7. Cardinality(A \cup C) = Cardinality(A) + Cardinality(C)
  <2> HIDE DEF A, C
  <2>1. Cardinality(A \cup C) = Cardinality(A) + Cardinality(C) - Cardinality(A \cap C)
    BY <1>4, <1>5, FS_Union
  <2>2. Cardinality(A) \in Nat /\ Cardinality(C) \in Nat
    BY <1>4, <1>5, FS_CardinalityType
  <2>3. Cardinality(A \cap C) = 0
    <3>1. A \cap C = {}
      BY <1>6 DEF A, C
    <3> QED
      BY <3>1, FS_EmptySet
  <2> QED
    BY <2>1, <2>2, <2>3
<1> QED
  BY <1>3, <1>5, <1>7 DEF Count, u

\* What a filter keeps of a sequence without repetitions.
LEMMA RetainedLists ==
    ASSUME NEW s \in Seq(Pair), IsInjective(s), NEW I \in SUBSET (1..Len(s))
    PROVE  Lists(Retained(s, I), { s[n] : n \in I })
<1> DEFINE r == Retained(s, I)
           m == Len(s)
<1>1. r \in Seq(Pair) /\ Picked(r, s, I, m)
  BY RetainedPicks
<1>2. m \in Nat /\ DOMAIN s = 1..m
  OBVIOUS
<1> HIDE DEF r, m
<1>3. PICK pos \in Seq(Nat) : Picks(pos, r, s, I, m)
  BY <1>1 DEF Picked
<1> DEFINE n == Len(r)
<1>4. n \in Nat /\ DOMAIN r = 1..n
  BY <1>1
<1>5. /\ \A k \in 1..n : pos[k] \in I \cap (1..m) /\ r[k] = s[pos[k]]
      /\ \A j, k \in 1..n : j < k => pos[j] < pos[k]
      /\ \A i \in I \cap (1..m) : \E k \in 1..n : pos[k] = i
  BY <1>3 DEF Picks
<1> HIDE DEF n
<1>6. \A k \in 1..n : pos[k] \in Nat
  BY <1>2, <1>5
<1>7. ASSUME NEW j \in 1..n, NEW k \in 1..n, r[j] = r[k] PROVE j = k
  <2>1. s[pos[j]] = s[pos[k]] /\ pos[j] \in 1..m /\ pos[k] \in 1..m
    BY <1>5, <1>7
  <2>2. pos[j] = pos[k]
    BY <1>2, <2>1 DEF IsInjective
  <2>3. ~(j < k) /\ ~(k < j)
    BY <1>5, <1>6, <2>2
  <2> QED
    BY <1>4, <2>3
<1>8. IsInjective(r)
  BY <1>4, <1>7 DEF IsInjective
<1>9. ToSet(r) = { s[i] : i \in I }
  <2>1. ToSet(r) = { r[k] : k \in 1..n }
    BY <1>4 DEF ToSet
  <2>2. \A i \in I : \E k \in 1..n : r[k] = s[i]
    <3>1. \A i \in I : i \in I \cap (1..m)
      BY DEF m
    <3> QED
      BY <1>5, <3>1
  <2>3. \A k \in 1..n : \E i \in I : r[k] = s[i]
    BY <1>5
  <2>4. { r[k] : k \in 1..n } \subseteq { s[i] : i \in I }
    BY <2>3
  <2>5. { s[i] : i \in I } \subseteq { r[k] : k \in 1..n }
    BY <2>2
  <2> QED
    BY <2>1, <2>4, <2>5
<1> QED
  BY <1>1, <1>8, <1>9 DEF Lists, r

\* A list for each n of the pairs p that have at[p] = n.
LEMMA ListsEach ==
    ASSUME NEW N \in Nat, NEW fs, DOMAIN fs = 1..N, NEW at, NEW S \in SUBSET Pair,
           fs = [n \in 1..N |-> fs[n]],
           \A n \in 1..N : Lists(fs[n], { p \in S : at[p] = n }),
           \A p \in S : at[p] \in 1..N
    PROVE  Lists(FlattenSeq(fs), S)
<1>1. \A n \in 1..N : /\ fs[n] \in Seq(Pair) /\ IsInjective(fs[n])
                      /\ ToSet(fs[n]) = { p \in S : at[p] = n }
  BY DEF Lists
<1> HIDE DEF Pair
<1>2. fs \in Seq(Seq(Pair)) /\ Len(fs) = N
  <2>1. \A n \in 1..N : fs[n] \in Seq(Pair)
    BY <1>1
  <2> QED
    BY <2>1
<1>3. NowhereTwice(fs)
  <2>1. \A i, j \in 1..N : i # j => ToSet(fs[i]) \cap ToSet(fs[j]) = {}
    BY <1>1
  <2>2. \A i \in 1..N : IsInjective(fs[i])
    BY <1>1
  <2> QED
    BY <1>2, <2>1, <2>2 DEF NowhereTwice
<1>4. Members(fs) = S
  <2>1. \A p \in S : \E n \in 1..N : p \in ToSet(fs[n])
    BY <1>1
  <2>2. \A n \in 1..N : \A p \in ToSet(fs[n]) : p \in S
    BY <1>1
  <2> QED
    BY <1>2, <2>1, <2>2 DEF Members
<1> QED
  BY <1>2, <1>3, <1>4, ListsFlatten

----------------------------------------------------------------------------
(* What one row of a table contributes.                                    *)

\* The pairs that Match, and the rows of one side without a match.
Met == { p \in Pair : /\ p[1] \in 1..Len(left) /\ p[2] \in 1..Len(right)
                      /\ Match(p[1], p[2]) }
LeftAlone == { p \in Pair : /\ p[1] \in 1..Len(left) /\ p[2] = 0
                            /\ \A j \in 1..Len(right) : ~Match(p[1], j) }
RightAlone == { p \in Pair : /\ p[2] \in 1..Len(right) /\ p[1] = 0
                             /\ \A i \in 1..Len(left) : ~Match(i, p[2]) }

Sized == Len(left) \in Nat /\ Len(right) \in Nat

LEMMA FromLeftLists ==
    ASSUME Sized, NEW i \in 1..Len(left)
    PROVE  Lists(FromLeft(i), { p \in Met : p[1] = i })
<1> DEFINE n == Len(right)
           s == [j \in 1..n |-> <<i, j>>]
           I == { j \in 1..n : Match(i, j) }
<1>1. n \in Nat /\ i \in Nat
  BY DEF Sized
<1>2. s \in Seq(Pair) /\ Len(s) = n /\ DOMAIN s = 1..n /\ \A j \in 1..n : s[j] = <<i, j>>
  <2>1. \A j \in 1..n : <<i, j>> \in Pair
    BY <1>1 DEF Pair
  <2> QED
    BY <1>1, <2>1
<1>3. FromLeft(i) = Retained(s, I)
  BY DEF FromLeft
<1> HIDE DEF s
<1>4. IsInjective(s)
  BY <1>2 DEF IsInjective
<1>5. I \in SUBSET (1..Len(s))
  BY <1>2
<1> HIDE DEF n
<1>6. { s[j] : j \in I } = { p \in Met : p[1] = i }
  <2>1. \A j \in I : s[j] = <<i, j>> /\ s[j] \in Pair /\ j \in 1..n /\ Match(i, j)
    BY <1>1, <1>2 DEF Pair
  <2>2. ASSUME NEW j \in I PROVE s[j] \in Met /\ s[j][1] = i
    <3>1. s[j] \in Pair /\ s[j][1] = i /\ s[j][2] = j /\ j \in 1..n /\ Match(i, j)
      BY <2>1
    <3> QED
      BY <3>1 DEF Met, n
  <2>3. ASSUME NEW p \in Met, p[1] = i PROVE \E j \in I : s[j] = p
    <3>1. p \in Pair /\ p[2] \in 1..n /\ Match(i, p[2])
      BY <2>3 DEF Met, n
    <3>2. p = <<i, p[2]>>
      BY <2>3, <3>1 DEF Pair
    <3> QED
      BY <2>1, <3>1, <3>2
  <2> QED
    BY <2>2, <2>3
<1> HIDE DEF I
<1> QED
  BY <1>2, <1>3, <1>4, <1>5, <1>6, RetainedLists

LEMMA FromRightLists ==
    ASSUME Sized, NEW j \in 1..Len(right)
    PROVE  Lists(FromRight(j), { p \in Met : p[2] = j })
<1> DEFINE n == Len(left)
           s == [i \in 1..n |-> <<i, j>>]
           I == { i \in 1..n : Match(i, j) }
<1>1. n \in Nat /\ j \in Nat
  BY DEF Sized
<1>2. s \in Seq(Pair) /\ Len(s) = n /\ DOMAIN s = 1..n /\ \A i \in 1..n : s[i] = <<i, j>>
  <2>1. \A i \in 1..n : <<i, j>> \in Pair
    BY <1>1 DEF Pair
  <2> QED
    BY <1>1, <2>1
<1>3. FromRight(j) = Retained(s, I)
  BY DEF FromRight
<1> HIDE DEF s
<1>4. IsInjective(s)
  BY <1>2 DEF IsInjective
<1>5. I \in SUBSET (1..Len(s))
  BY <1>2
<1> HIDE DEF n
<1>6. { s[i] : i \in I } = { p \in Met : p[2] = j }
  <2>1. \A i \in I : s[i] = <<i, j>> /\ s[i] \in Pair /\ i \in 1..n /\ Match(i, j)
    BY <1>1, <1>2 DEF Pair
  <2>2. ASSUME NEW i \in I PROVE s[i] \in Met /\ s[i][2] = j
    <3>1. s[i] \in Pair /\ s[i][1] = i /\ s[i][2] = j /\ i \in 1..n /\ Match(i, j)
      BY <2>1
    <3> QED
      BY <3>1 DEF Met, n
  <2>3. ASSUME NEW p \in Met, p[2] = j PROVE \E i \in I : s[i] = p
    <3>1. p \in Pair /\ p[1] \in 1..n /\ Match(p[1], j)
      BY <2>3 DEF Met, n
    <3>2. p = <<p[1], j>>
      BY <2>3, <3>1 DEF Pair
    <3> QED
      BY <2>1, <3>1, <3>2
  <2> QED
    BY <2>2, <2>3
<1> HIDE DEF I
<1> QED
  BY <1>2, <1>3, <1>4, <1>5, <1>6, RetainedLists

LEMMA EmptyLists ==
    ASSUME NEW s, NEW S, Lists(s, S)
    PROVE  s = <<>> <=> S = {}
<1>1. s \in Seq(Pair) /\ S = { s[n] : n \in DOMAIN s }
  BY DEF Lists, ToSet
<1>2. DOMAIN s = 1..Len(s) /\ Len(s) \in Nat
  BY <1>1
<1>3. s = <<>> => S = {}
  <2>1. ASSUME s = <<>> PROVE Len(s) = 0
    BY <2>1
  <2> QED
    BY <1>1, <1>2, <2>1
<1>4. ASSUME S = {} PROVE s = <<>>
  <2>1. DOMAIN s = {}
    BY <1>1, <1>4
  <2>2. Len(s) = 0
    BY <1>2, <2>1
  <2> QED
    BY <1>1, <2>2
<1> QED
  BY <1>3, <1>4

LEMMA PadLeftLists ==
    ASSUME Sized, NEW i \in 1..Len(left)
    PROVE  Lists(PadLeft(i), { p \in LeftAlone : p[1] = i })
<1>1. i \in Nat /\ 0 \in Nat
  BY DEF Sized
<1>2. FromLeft(i) = <<>> <=> { p \in Met : p[1] = i } = {}
  BY FromLeftLists, EmptyLists
<1>3. (\A j \in 1..Len(right) : ~Match(i, j)) <=> { p \in Met : p[1] = i } = {}
  <2>1. ASSUME NEW j \in 1..Len(right), Match(i, j) PROVE { p \in Met : p[1] = i } # {}
    <3>1. <<i, j>> \in Pair /\ <<i, j>>[1] = i /\ <<i, j>>[2] = j
      BY <1>1 DEF Pair, Sized
    <3>2. <<i, j>> \in Met
      BY <2>1, <3>1 DEF Met
    <3> QED
      BY <3>1, <3>2
  <2>2. ASSUME NEW p \in Met, p[1] = i PROVE p[2] \in 1..Len(right) /\ Match(i, p[2])
    BY <2>2 DEF Met
  <2> QED
    BY <2>1, <2>2
<1>4. CASE \A j \in 1..Len(right) : ~Match(i, j)
  <2>1. PadLeft(i) = <<<<i, 0>>>>
    BY <1>2, <1>3, <1>4 DEF PadLeft
  <2>2. <<i, 0>> \in Pair
    BY <1>1 DEF Pair
  <2>3. { p \in LeftAlone : p[1] = i } = {<<i, 0>>}
    <3>1. <<i, 0>> \in LeftAlone
      BY <1>4, <2>2 DEF LeftAlone
    <3>2. ASSUME NEW p \in LeftAlone, p[1] = i PROVE p = <<i, 0>>
      BY <3>2 DEF LeftAlone, Pair
    <3> QED
      BY <3>1, <3>2
  <2> QED
    BY <2>1, <2>2, <2>3, ListsOne
<1>5. CASE ~\A j \in 1..Len(right) : ~Match(i, j)
  <2>1. PadLeft(i) = <<>>
    BY <1>2, <1>3, <1>5 DEF PadLeft
  <2>2. { p \in LeftAlone : p[1] = i } = {}
    BY <1>5 DEF LeftAlone
  <2> QED
    BY <2>1, <2>2, ListsNothing
<1> QED
  BY <1>4, <1>5

LEMMA PadRightLists ==
    ASSUME Sized, NEW j \in 1..Len(right)
    PROVE  Lists(PadRight(j), { p \in RightAlone : p[2] = j })
<1>1. j \in Nat /\ 0 \in Nat
  BY DEF Sized
<1>2. FromRight(j) = <<>> <=> { p \in Met : p[2] = j } = {}
  BY FromRightLists, EmptyLists
<1>3. (\A i \in 1..Len(left) : ~Match(i, j)) <=> { p \in Met : p[2] = j } = {}
  <2>1. ASSUME NEW i \in 1..Len(left), Match(i, j) PROVE { p \in Met : p[2] = j } # {}
    <3>1. <<i, j>> \in Pair /\ <<i, j>>[1] = i /\ <<i, j>>[2] = j
      BY <1>1 DEF Pair, Sized
    <3>2. <<i, j>> \in Met
      BY <2>1, <3>1 DEF Met
    <3> QED
      BY <3>1, <3>2
  <2>2. ASSUME NEW p \in Met, p[2] = j PROVE p[1] \in 1..Len(left) /\ Match(p[1], j)
    BY <2>2 DEF Met
  <2> QED
    BY <2>1, <2>2
<1>4. CASE \A i \in 1..Len(left) : ~Match(i, j)
  <2>1. PadRight(j) = <<<<0, j>>>>
    BY <1>2, <1>3, <1>4 DEF PadRight
  <2>2. <<0, j>> \in Pair
    BY <1>1 DEF Pair
  <2>3. { p \in RightAlone : p[2] = j } = {<<0, j>>}
    <3>1. <<0, j>> \in RightAlone
      BY <1>4, <2>2 DEF RightAlone
    <3>2. ASSUME NEW p \in RightAlone, p[2] = j PROVE p = <<0, j>>
      BY <3>2 DEF RightAlone, Pair
    <3> QED
      BY <3>1, <3>2
  <2> QED
    BY <2>1, <2>2, <2>3, ListsOne
<1>5. CASE ~\A i \in 1..Len(left) : ~Match(i, j)
  <2>1. PadRight(j) = <<>>
    BY <1>2, <1>3, <1>5 DEF PadRight
  <2>2. { p \in RightAlone : p[2] = j } = {}
    BY <1>5 DEF RightAlone
  <2> QED
    BY <2>1, <2>2, ListsNothing
<1> QED
  BY <1>4, <1>5

----------------------------------------------------------------------------
(* What all rows of a table contribute.                                    *)

LEMMA AllFromLeft ==
    ASSUME Sized
    PROVE  Lists(ForEach(left, FromLeft), Met)
<1> DEFINE N == Len(left)
           S == Met
           at == [p \in Pair |-> p[1]]
           fs == [n \in 1..N |-> FromLeft(n)]
<1>1. N \in Nat /\ DOMAIN fs = 1..N /\ fs = [n \in 1..N |-> fs[n]]
  BY DEF Sized
<1>2. S \in SUBSET Pair /\ \A p \in S : p[1] \in 1..N
  BY DEF Met
<1>3. \A p \in S : at[p] = p[1]
  BY <1>2
<1>4. \A n \in 1..N : Lists(fs[n], { p \in S : p[1] = n })
  <2> SUFFICES ASSUME NEW n \in 1..N PROVE Lists(fs[n], { p \in S : p[1] = n })
    OBVIOUS
  <2>1. fs[n] = FromLeft(n)
    OBVIOUS
  <2> QED
    BY <2>1, FromLeftLists
<1> HIDE DEF S, fs, at
<1>5. \A n \in 1..N : { p \in S : at[p] = n } = { p \in S : p[1] = n }
  BY <1>3
<1>6. \A n \in 1..N : Lists(fs[n], { p \in S : at[p] = n })
  BY <1>4, <1>5
<1>7. \A p \in S : at[p] \in 1..N
  BY <1>2, <1>3
<1> HIDE DEF N
<1>8. Lists(FlattenSeq(fs), S)
  BY <1>1, <1>2, <1>6, <1>7, ListsEach
<1> QED
  BY <1>8 DEF ForEach, S, fs, N

LEMMA AllFromRight ==
    ASSUME Sized
    PROVE  Lists(ForEach(right, FromRight), Met)
<1> DEFINE N == Len(right)
           S == Met
           at == [p \in Pair |-> p[2]]
           fs == [n \in 1..N |-> FromRight(n)]
<1>1. N \in Nat /\ DOMAIN fs = 1..N /\ fs = [n \in 1..N |-> fs[n]]
  BY DEF Sized
<1>2. S \in SUBSET Pair /\ \A p \in S : p[2] \in 1..N
  BY DEF Met
<1>3. \A p \in S : at[p] = p[2]
  BY <1>2
<1>4. \A n \in 1..N : Lists(fs[n], { p \in S : p[2] = n })
  <2> SUFFICES ASSUME NEW n \in 1..N PROVE Lists(fs[n], { p \in S : p[2] = n })
    OBVIOUS
  <2>1. fs[n] = FromRight(n)
    OBVIOUS
  <2> QED
    BY <2>1, FromRightLists
<1> HIDE DEF S, fs, at
<1>5. \A n \in 1..N : { p \in S : at[p] = n } = { p \in S : p[2] = n }
  BY <1>3
<1>6. \A n \in 1..N : Lists(fs[n], { p \in S : at[p] = n })
  BY <1>4, <1>5
<1>7. \A p \in S : at[p] \in 1..N
  BY <1>2, <1>3
<1> HIDE DEF N
<1>8. Lists(FlattenSeq(fs), S)
  BY <1>1, <1>2, <1>6, <1>7, ListsEach
<1> QED
  BY <1>8 DEF ForEach, S, fs, N

LEMMA AllPadLeft ==
    ASSUME Sized
    PROVE  Lists(ForEach(left, PadLeft), LeftAlone)
<1> DEFINE N == Len(left)
           S == LeftAlone
           at == [p \in Pair |-> p[1]]
           fs == [n \in 1..N |-> PadLeft(n)]
<1>1. N \in Nat /\ DOMAIN fs = 1..N /\ fs = [n \in 1..N |-> fs[n]]
  BY DEF Sized
<1>2. S \in SUBSET Pair /\ \A p \in S : p[1] \in 1..N
  BY DEF LeftAlone
<1>3. \A p \in S : at[p] = p[1]
  BY <1>2
<1>4. \A n \in 1..N : Lists(fs[n], { p \in S : p[1] = n })
  <2> SUFFICES ASSUME NEW n \in 1..N PROVE Lists(fs[n], { p \in S : p[1] = n })
    OBVIOUS
  <2>1. fs[n] = PadLeft(n)
    OBVIOUS
  <2> QED
    BY <2>1, PadLeftLists
<1> HIDE DEF S, fs, at
<1>5. \A n \in 1..N : { p \in S : at[p] = n } = { p \in S : p[1] = n }
  BY <1>3
<1>6. \A n \in 1..N : Lists(fs[n], { p \in S : at[p] = n })
  BY <1>4, <1>5
<1>7. \A p \in S : at[p] \in 1..N
  BY <1>2, <1>3
<1> HIDE DEF N
<1>8. Lists(FlattenSeq(fs), S)
  BY <1>1, <1>2, <1>6, <1>7, ListsEach
<1> QED
  BY <1>8 DEF ForEach, S, fs, N

LEMMA AllPadRight ==
    ASSUME Sized
    PROVE  Lists(ForEach(right, PadRight), RightAlone)
<1> DEFINE N == Len(right)
           S == RightAlone
           at == [p \in Pair |-> p[2]]
           fs == [n \in 1..N |-> PadRight(n)]
<1>1. N \in Nat /\ DOMAIN fs = 1..N /\ fs = [n \in 1..N |-> fs[n]]
  BY DEF Sized
<1>2. S \in SUBSET Pair /\ \A p \in S : p[2] \in 1..N
  BY DEF RightAlone
<1>3. \A p \in S : at[p] = p[2]
  BY <1>2
<1>4. \A n \in 1..N : Lists(fs[n], { p \in S : p[2] = n })
  <2> SUFFICES ASSUME NEW n \in 1..N PROVE Lists(fs[n], { p \in S : p[2] = n })
    OBVIOUS
  <2>1. fs[n] = PadRight(n)
    OBVIOUS
  <2> QED
    BY <2>1, PadRightLists
<1> HIDE DEF S, fs, at
<1>5. \A n \in 1..N : { p \in S : at[p] = n } = { p \in S : p[2] = n }
  BY <1>3
<1>6. \A n \in 1..N : Lists(fs[n], { p \in S : at[p] = n })
  BY <1>4, <1>5
<1>7. \A p \in S : at[p] \in 1..N
  BY <1>2, <1>3
<1> HIDE DEF N
<1>8. Lists(FlattenSeq(fs), S)
  BY <1>1, <1>2, <1>6, <1>7, ListsEach
<1> QED
  BY <1>8 DEF ForEach, S, fs, N

LEMMA AllLeftAtOnce ==
    ASSUME Sized
    PROVE  Lists(ForEach(left, LAMBDA i : FromLeft(i) \o PadLeft(i)), Met \cup LeftAlone)
<1> DEFINE N == Len(left)
           S == Met \cup LeftAlone
           at == [p \in Pair |-> p[1]]
           fs == [n \in 1..N |-> FromLeft(n) \o PadLeft(n)]
<1>1. N \in Nat /\ DOMAIN fs = 1..N /\ fs = [n \in 1..N |-> fs[n]]
  BY DEF Sized
<1>2. S \in SUBSET Pair /\ \A p \in S : p[1] \in 1..N
  BY DEF Met, LeftAlone
<1>3. \A p \in S : at[p] = p[1]
  BY <1>2
<1>4. \A n \in 1..N : Lists(fs[n], { p \in S : p[1] = n })
  <2> SUFFICES ASSUME NEW n \in 1..N PROVE Lists(fs[n], { p \in S : p[1] = n })
    OBVIOUS
  <2> DEFINE S1 == { p \in Met : p[1] = n }
             S2 == { p \in LeftAlone : p[1] = n }
  <2>1. fs[n] = FromLeft(n) \o PadLeft(n)
    OBVIOUS
  <2>2. Lists(FromLeft(n), S1)
    BY FromLeftLists
  <2>3. Lists(PadLeft(n), S2)
    BY PadLeftLists
  <2>4. S1 \cap S2 = {}
    BY DEF Met, LeftAlone, Sized
  <2>5. S1 \cup S2 = { p \in S : p[1] = n }
    OBVIOUS
  <2> HIDE DEF S1, S2
  <2>6. Lists(FromLeft(n) \o PadLeft(n), S1 \cup S2)
    BY <2>2, <2>3, <2>4, ListsJoined
  <2> QED
    BY <2>1, <2>5, <2>6
<1> HIDE DEF S, fs, at
<1>5. \A n \in 1..N : { p \in S : at[p] = n } = { p \in S : p[1] = n }
  BY <1>3
<1>6. \A n \in 1..N : Lists(fs[n], { p \in S : at[p] = n })
  BY <1>4, <1>5
<1>7. \A p \in S : at[p] \in 1..N
  BY <1>2, <1>3
<1> HIDE DEF N
<1>8. Lists(FlattenSeq(fs), S)
  BY <1>1, <1>2, <1>6, <1>7, ListsEach
<1> QED
  BY <1>8 DEF ForEach, S, fs, N

LEMMA AllRightAtOnce ==
    ASSUME Sized
    PROVE  Lists(ForEach(right, LAMBDA j : FromRight(j) \o PadRight(j)), Met \cup RightAlone)
<1> DEFINE N == Len(right)
           S == Met \cup RightAlone
           at == [p \in Pair |-> p[2]]
           fs == [n \in 1..N |-> FromRight(n) \o PadRight(n)]
<1>1. N \in Nat /\ DOMAIN fs = 1..N /\ fs = [n \in 1..N |-> fs[n]]
  BY DEF Sized
<1>2. S \in SUBSET Pair /\ \A p \in S : p[2] \in 1..N
  BY DEF Met, RightAlone
<1>3. \A p \in S : at[p] = p[2]
  BY <1>2
<1>4. \A n \in 1..N : Lists(fs[n], { p \in S : p[2] = n })
  <2> SUFFICES ASSUME NEW n \in 1..N PROVE Lists(fs[n], { p \in S : p[2] = n })
    OBVIOUS
  <2> DEFINE S1 == { p \in Met : p[2] = n }
             S2 == { p \in RightAlone : p[2] = n }
  <2>1. fs[n] = FromRight(n) \o PadRight(n)
    OBVIOUS
  <2>2. Lists(FromRight(n), S1)
    BY FromRightLists
  <2>3. Lists(PadRight(n), S2)
    BY PadRightLists
  <2>4. S1 \cap S2 = {}
    BY DEF Met, RightAlone, Sized
  <2>5. S1 \cup S2 = { p \in S : p[2] = n }
    OBVIOUS
  <2> HIDE DEF S1, S2
  <2>6. Lists(FromRight(n) \o PadRight(n), S1 \cup S2)
    BY <2>2, <2>3, <2>4, ListsJoined
  <2> QED
    BY <2>1, <2>5, <2>6
<1> HIDE DEF S, fs, at
<1>5. \A n \in 1..N : { p \in S : at[p] = n } = { p \in S : p[2] = n }
  BY <1>3
<1>6. \A n \in 1..N : Lists(fs[n], { p \in S : at[p] = n })
  BY <1>4, <1>5
<1>7. \A p \in S : at[p] \in 1..N
  BY <1>2, <1>3
<1> HIDE DEF N
<1>8. Lists(FlattenSeq(fs), S)
  BY <1>1, <1>2, <1>6, <1>7, ListsEach
<1> QED
  BY <1>8 DEF ForEach, S, fs, N

----------------------------------------------------------------------------
(* The invariant.                                                          *)

\* The rows of NULLs that the kind of join asks for, and all rows of the result.
LeftPart == IF kind \in {"left", "full"} /\ condition # NoCondition THEN LeftAlone ELSE {}
RightPart == IF kind \in {"right", "full"} /\ condition # NoCondition THEN RightAlone ELSE {}
Whole == Met \cup LeftPart \cup RightPart

HowOften(p) ==
    IF p \in Met THEN 1
    ELSE CASE variant = "sync" /\ kind = "full" -> 0
           [] variant = "async" /\ kind \in {"left", "right"} /\ NestedLoop -> 2
           [] OTHER -> 1

Complete == ToSet(result) \subseteq Whole /\ \A p \in Whole : Times(p) = HowOften(p)

\* What probing adds, row by row, and what it has added so far.
Adds ==
    IF ProbesRight
    THEN Met \cup (IF NestedLoop THEN RightAlone ELSE {})
    ELSE Met \cup (IF kind = "left" /\ NestedLoop THEN LeftAlone ELSE {})

Place(p) == IF ProbesRight THEN p[2] ELSE p[1]

SoFar(n) == { p \in Adds : Place(p) <= n }

Inputs ==
    /\ variant \in Variants /\ kind \in Kinds
    /\ condition \in Conditions \cup {NoCondition}
    /\ left \in Tables(LeftRows) /\ right \in Tables(RightRows)

Stages ==
    /\ pc \in {"start", "check", "probe", "done", "failed"}
    /\ probed \in 0..Len(ProbeSide)
    /\ pc = "start" => variant = "sync" /\ result = <<>>
    /\ pc \in {"check", "probe"} => variant = "async" /\ Lists(result, SoFar(probed))
    /\ pc = "probe" => probed < Len(ProbeSide)
    /\ pc = "failed" => result \in Seq(Pair) /\ ToSet(result) \subseteq Whole
    /\ pc = "done" => result \in Seq(Pair) /\ Complete

\* A row is probed after a cancellation only until the next check.
Heeded ==
    /\ cancelled \in BOOLEAN /\ late \in Nat
    /\ late <= Interval \/ AtOnce
    /\ ~cancelled => late = 0
    /\ pc = "probe" => late <= probed % Interval

IInv == Inputs /\ Stages /\ Heeded

\* The inputs stay, and with them what the join is to return.
SameSets ==
    /\ Met' = Met /\ LeftAlone' = LeftAlone /\ RightAlone' = RightAlone
    /\ NestedLoop' = NestedLoop

LEMMA InputsStay ==
    ASSUME UNCHANGED inputs
    PROVE  /\ SameSets /\ Whole' = Whole /\ ProbeSide' = ProbeSide
           /\ Adds' = Adds
           /\ \A n : SoFar(n)' = SoFar(n)
           /\ \A p : HowOften(p)' = HowOften(p)
<1>1. variant' = variant /\ kind' = kind /\ condition' = condition /\ left' = left /\ right' = right
  BY DEF inputs
<1>2. \A col, i, j : ValueOf(col, i, j)' = ValueOf(col, i, j)
  BY <1>1 DEF ValueOf
<1>3. \A c, i, j : Compare(c, i, j)' = Compare(c, i, j)
  BY <1>2 DEF Compare
<1>4. \A e, i, j : Evaluate(e, i, j)' = Evaluate(e, i, j)
  BY <1>3 DEF Evaluate
<1>5. NestedLoop' = NestedLoop
  BY <1>1 DEF NestedLoop
<1>6. JoinKeys' = JoinKeys
  BY <1>1 DEF JoinKeys
<1>7. \A i, j : SameKey(i, j)' = SameKey(i, j)
  BY <1>1, <1>6 DEF SameKey
<1>8. \A i, j : Match(i, j)' = Match(i, j)
  BY <1>1, <1>4, <1>5, <1>7 DEF Match
<1>9. Met' = Met
  BY <1>1, <1>8 DEF Met
<1>10. LeftAlone' = LeftAlone /\ RightAlone' = RightAlone
  BY <1>1, <1>8 DEF LeftAlone, RightAlone
<1>11. SameSets
  BY <1>5, <1>9, <1>10 DEF SameSets
<1>12. ProbesRight' = ProbesRight
  BY <1>1 DEF ProbesRight
<1>13. ProbeSide' = ProbeSide
  BY <1>1, <1>12 DEF ProbeSide
<1>14. Whole' = Whole
  BY <1>1, <1>9, <1>10 DEF Whole, LeftPart, RightPart
<1>15. Adds' = Adds
  BY <1>1, <1>5, <1>9, <1>10, <1>12 DEF Adds
<1>16. \A p : Place(p)' = Place(p)
  BY <1>12 DEF Place
<1>17. \A n : SoFar(n)' = SoFar(n)
  BY <1>15, <1>16 DEF SoFar
<1>18. \A p : HowOften(p)' = HowOften(p)
  BY <1>1, <1>5, <1>9 DEF HowOften
<1> QED
  BY <1>11, <1>13, <1>14, <1>15, <1>17, <1>18

LEMMA TablesSized ==
    ASSUME Inputs
    PROVE  /\ Sized /\ Len(ProbeSide) \in Nat
           /\ DOMAIN left = 1..Len(left) /\ DOMAIN right = 1..Len(right)
<1>1. ASSUME NEW rows, NEW table \in Tables(rows)
      PROVE  Len(table) \in Nat /\ DOMAIN table = 1..Len(table)
  <2>1. PICK n \in 0..MaxRows : table \in [1..n -> rows]
    BY <1>1 DEF Tables
  <2>2. n \in Nat
    BY ShapeAssumption
  <2>3. table \in Seq(rows)
    BY <2>1, <2>2
  <2> QED
    BY <2>3
<1>2. /\ Len(left) \in Nat /\ DOMAIN left = 1..Len(left)
      /\ Len(right) \in Nat /\ DOMAIN right = 1..Len(right)
  BY <1>1 DEF Inputs
<1> QED
  BY <1>2 DEF Sized, ProbeSide

LEMMA PartsApart ==
    ASSUME Sized
    PROVE  /\ Met \cap LeftAlone = {} /\ Met \cap RightAlone = {} /\ LeftAlone \cap RightAlone = {}
           /\ Met \subseteq Pair /\ LeftAlone \subseteq Pair /\ RightAlone \subseteq Pair
BY DEF Sized, Met, LeftAlone, RightAlone

LEMMA ConditionKinds ==
    ASSUME Inputs
    PROVE  NestedLoop => condition # NoCondition
BY ShapeAssumption DEF NestedLoop, NoCondition, Inputs

LEMMA InitHolds ==
    ASSUME Init
    PROVE  IInv
<1>1. Inputs
  BY DEF Init, Inputs
<1>2. Sized /\ Len(ProbeSide) \in Nat
  BY <1>1, TablesSized
<1>3. variant \in {"sync", "async"}
  BY ShapeAssumption DEF Init
<1>4. SoFar(0) = {}
  <2>1. \A p \in Adds : Place(p) \in Nat \ {0}
    BY <1>2 DEF Sized, Adds, Place, Met, LeftAlone, RightAlone, ProbesRight
  <2>2. \A n \in Nat \ {0} : ~(n <= 0)
    OBVIOUS
  <2> QED
    BY <2>1, <2>2 DEF SoFar
<1>5. Lists(result, SoFar(probed))
  BY <1>4, ListsNothing DEF Init
<1>6. Stages
  <2>1. pc \in {"start", "check"} /\ (pc = "start" => variant = "sync") /\ (pc = "check" => variant = "async")
    BY <1>3 DEF Init
  <2>2. probed \in 0..Len(ProbeSide) /\ result = <<>>
    BY <1>2 DEF Init
  <2> QED
    BY <1>5, <2>1, <2>2 DEF Stages
<1>7. Heeded
  <2>1. probed = 0 /\ late = 0 /\ cancelled = FALSE /\ pc # "probe"
    BY <1>3 DEF Init
  <2>2. late \in Nat /\ late <= Interval
    BY <2>1, IntervalAssumption
  <2> QED
    BY <2>1, <2>2 DEF Heeded
<1> QED
  BY <1>1, <1>6, <1>7 DEF IInv

----------------------------------------------------------------------------
(* The cancellation.                                                       *)

\* Needs the stage of the probe and nothing of the rows.
Staged ==
    /\ pc \in {"start", "check", "probe", "done", "failed"}
    /\ probed \in Nat

LEMMA Division ==
    ASSUME NEW n \in Int, NEW d \in Int, d > 0
    PROVE  n = d * (n \div d) + (n % d)
OBVIOUS

LEMMA NextRow ==
    ASSUME NEW n \in Nat, (n + 1) % Interval # 0
    PROVE  (n + 1) % Interval = (n % Interval) + 1
<1> DEFINE I == Interval
<1>1. I \in Nat \ {0}
  BY IntervalAssumption
<1> HIDE DEF I
<1>2. ASSUME NEW m \in Nat
      PROVE  m = I * (m \div I) + (m % I) /\ m % I \in 0..(I - 1) /\ m \div I \in Nat
  <2>1. m = I * (m \div I) + (m % I)
    BY <1>1, Division
  <2>2. m % I \in 0..(I - 1) /\ m \div I \in Nat
    BY <1>1
  <2> QED
    BY <2>1, <2>2
<1>2a. n + 1 \in Nat
  OBVIOUS
<1> DEFINE q == n \div I
           r == (n + 1) \div I
           a == n % I
           b == (n + 1) % I
           x == I * q
           y == I * r
<1>3. /\ q \in Nat /\ r \in Nat /\ a \in 0..(I - 1) /\ b \in 0..(I - 1) /\ b # 0
      /\ n = x + a /\ n + 1 = y + b
  <2>1. /\ n = x + a /\ a \in 0..(I - 1) /\ q \in Nat
        /\ n + 1 = y + b /\ b \in 0..(I - 1) /\ r \in Nat
    BY Zenon, <1>2, <1>2a
  <2>2. b # 0
    BY DEF I
  <2> QED
    BY Zenon, <2>1, <2>2
<1> HIDE DEF q, r, a, b
<1>4. /\ x \in Nat /\ y \in Nat
      /\ (q < r => x + I <= y) /\ (r < q => y + I <= x) /\ (q = r => x = y)
  <2>1. ASSUME NEW c \in Nat, NEW d \in Nat, c < d PROVE I * c + I <= I * d
    <3>1. c + 1 <= d /\ c + 1 \in Nat
      BY <2>1
    <3> DEFINE e == c + 1
    <3>2. e \in Nat /\ e <= d
      BY <3>1
    <3> HIDE DEF e
    <3>3. I * e <= I * d
      BY <1>1, <3>2
    <3>4. I * e = I * c + I
      BY <1>1 DEF e
    <3> QED
      BY <3>3, <3>4
  <2>2. x \in Nat /\ y \in Nat
    BY <1>1, <1>3
  <2> QED
    BY <1>3, <2>1, <2>2
<1> HIDE DEF x, y
<1>5. ~(q < r) /\ ~(r < q)
  BY <1>1, <1>3, <1>4
<1>6. x = y
  BY <1>3, <1>4, <1>5
<1>7. b = a + 1
  BY <1>1, <1>3, <1>4, <1>6
<1> QED
  BY <1>7 DEF a, b, I

LEMMA HeededStep ==
    ASSUME Staged, Inputs, Heeded, [Next]_vars
    PROVE  Heeded'
<1>1. Interval \in Nat \ {0} /\ probed \in Nat
  BY IntervalAssumption DEF Staged
<1>2. /\ cancelled \in BOOLEAN /\ late \in Nat /\ (late <= Interval \/ AtOnce)
      /\ ~cancelled => late = 0
      /\ pc = "probe" => late <= probed % Interval
  BY DEF Heeded
<1>0. AtOnce' = AtOnce
  BY DEF Next, SyncJoin, AsyncInnerUsing, LookupFails, Check, ProbeRow, Finish, Cancel,
         AtOnce, inputs, vars
<1>3. CASE Check
  <2>1. /\ pc' = IF cancelled THEN "failed" ELSE "probe"
        /\ UNCHANGED <<probed, cancelled, late>>
    BY <1>3 DEF Check
  <2>2. ~cancelled => late <= probed % Interval
    <3>1. 0 <= probed % Interval
      BY <1>1
    <3> QED
      BY <1>2, <3>1
  <2> QED
    BY <1>0, <1>2, <2>1, <2>2 DEF Heeded
<1>4. CASE ProbeRow
  <2>1. /\ pc = "probe" /\ probed' = probed + 1 /\ late' = (IF cancelled THEN late + 1 ELSE late)
        /\ cancelled' = cancelled
        /\ pc' = "probe" => probed' % Interval # 0
    BY <1>4 DEF ProbeRow
  <2>2. late \in Nat /\ late <= probed % Interval /\ probed % Interval < Interval
        /\ probed % Interval \in Nat
    BY <1>1, <1>2, <2>1
  <2>3. late' \in Nat /\ late' <= late + 1
    BY <1>1, <1>2, <2>1, <2>2
  <2>4. late' <= Interval
    BY <1>1, <2>2, <2>3
  <2>5. pc' = "probe" => late' <= probed' % Interval
    <3> SUFFICES ASSUME pc' = "probe" PROVE late' <= probed' % Interval
      OBVIOUS
    <3>1. (probed + 1) % Interval = (probed % Interval) + 1
      BY <1>1, <2>1, NextRow
    <3> QED
      BY <2>1, <2>2, <2>3, <3>1
  <2>6. ~cancelled' => late' = 0
    BY <1>2, <2>1
  <2> QED
    BY <1>2, <2>1, <2>3, <2>4, <2>5, <2>6 DEF Heeded
<1>5. CASE Cancel
  <2>1. ~cancelled /\ cancelled' = TRUE /\ UNCHANGED <<pc, probed, late>>
    BY <1>5 DEF Cancel
  <2> QED
    BY <1>0, <1>2, <2>1 DEF Heeded
<1>6. CASE SyncJoin \/ LookupFails \/ Finish
  <2>1. pc' # "probe" /\ UNCHANGED <<probed, cancelled, late>>
    BY <1>6 DEF SyncJoin, LookupFails, Finish
  <2> QED
    BY <1>0, <1>2, <2>1 DEF Heeded
<1>7. CASE AsyncInnerUsing
  <2>1. Len(HashProbe) \in Nat
    BY TablesSized DEF Sized, HashProbe
  <2>2. AtOnce /\ pc' = "done" /\ cancelled' = cancelled
        /\ late' = (IF cancelled THEN Len(HashProbe) ELSE late)
    BY <1>7 DEF AsyncInnerUsing
  <2> QED
    BY <1>0, <1>2, <2>1, <2>2 DEF Heeded
<1>8. CASE UNCHANGED vars
  BY <1>0, <1>2, <1>8 DEF vars, Heeded
<1> QED
  BY <1>3, <1>4, <1>5, <1>6, <1>7, <1>8 DEF Next

----------------------------------------------------------------------------
(* The rows.                                                               *)

\* What a sequence of rows must be like for the join to be done.
Answers(s) ==
    /\ s \in Seq(Pair) /\ ToSet(s) \subseteq Whole
    /\ \A p \in Whole : Count(s, p) = HowOften(p)

Doubled == variant = "async" /\ kind \in {"left", "right"} /\ NestedLoop

LEMMA AnswersOnce ==
    ASSUME NEW s, Lists(s, Whole), ~Doubled, ~(variant = "sync" /\ kind = "full")
    PROVE  Answers(s)
<1>1. \A p \in Whole : Count(s, p) = 1
  BY CountListed
<1>2. \A p : HowOften(p) = 1
  BY DEF HowOften, Doubled
<1>3. s \in Seq(Pair) /\ ToSet(s) = Whole
  BY DEF Lists
<1> QED
  BY <1>1, <1>2, <1>3 DEF Answers

LEMMA AnswersSyncFull ==
    ASSUME NEW s, Lists(s, Met), variant = "sync", kind = "full"
    PROVE  Answers(s)
<1>1. \A p : Count(s, p) = IF p \in Met THEN 1 ELSE 0
  BY CountListed
<1>2. \A p : HowOften(p) = IF p \in Met THEN 1 ELSE 0
  BY DEF HowOften
<1>3. s \in Seq(Pair) /\ ToSet(s) \subseteq Whole
  BY DEF Lists, Whole
<1> QED
  BY <1>1, <1>2, <1>3 DEF Answers

\* The nested loop has added the rows without a match, and they are added again.
LEMMA AnswersTwice ==
    ASSUME Inputs, NEW s, NEW t, NEW T, Lists(s, Met \cup T), Lists(t, T), Doubled,
           Whole = Met \cup T, Met \cap T = {}
    PROVE  Answers(s \o t)
<1>1. s \in Seq(Pair) /\ t \in Seq(Pair) /\ ToSet(s) = Met \cup T /\ ToSet(t) = T
  BY DEF Lists
<1>2. s \o t \in Seq(Pair) /\ ToSet(s \o t) \subseteq Whole
  <2> HIDE DEF Pair
  <2>1. s \o t \in Seq(Pair) /\ ToSet(s \o t) = ToSet(s) \cup ToSet(t)
    BY <1>1, JoinedElements
  <2> QED
    BY <1>1, <2>1
<1>3. ASSUME NEW p \in Whole PROVE Count(s \o t, p) = HowOften(p)
  <2>1. Count(s \o t, p) = Count(s, p) + Count(t, p)
    BY <1>1, CountJoined
  <2>2. Count(s, p) = IF p \in Met \cup T THEN 1 ELSE 0
    BY CountListed
  <2>3. Count(t, p) = IF p \in T THEN 1 ELSE 0
    BY CountListed
  <2>4. HowOften(p) = IF p \in Met THEN 1 ELSE 2
    BY DEF HowOften, Doubled
  <2> QED
    BY <2>1, <2>2, <2>3, <2>4
<1> QED
  BY <1>2, <1>3 DEF Answers

\* The synchronous functions.
SyncResult ==
    CASE kind = "inner" -> InnerJoin
      [] kind = "left"  -> LeftJoin
      [] kind = "right" -> RightJoin
      [] kind = "full"  -> FullOuterJoin
      [] kind = "cross" -> CrossJoin

LEMMA InnerLists ==
    ASSUME Sized
    PROVE  Lists(InnerJoin, Met)
BY AllFromLeft, AllFromRight DEF InnerJoin

LEMMA LeftLists ==
    ASSUME Inputs, kind = "left"
    PROVE  Lists(LeftJoin, Met \cup LeftPart)
<1>1. Sized
  BY TablesSized
<1>2. CASE condition = NoCondition
  <2>1. LeftPart = {} /\ Met \cup {} = Met
    BY <1>2 DEF LeftPart
  <2>2. Lists(LeftJoin, Met)
    BY <1>1, <1>2, AllFromLeft DEF LeftJoin
  <2> QED
    BY <2>1, <2>2
<1>3. CASE condition # NoCondition
  <2>1. LeftPart = LeftAlone
    BY <1>3 DEF LeftPart
  <2>2. CASE NestedLoop
    BY <1>1, <1>3, <2>1, <2>2, AllLeftAtOnce DEF LeftJoin
  <2>3. CASE ~NestedLoop
    <3>1. LeftJoin = ForEach(left, FromLeft) \o ForEach(left, PadLeft)
      BY <1>3, <2>3 DEF LeftJoin
    <3>2. Lists(ForEach(left, FromLeft), Met) /\ Lists(ForEach(left, PadLeft), LeftAlone)
      BY <1>1, AllFromLeft, AllPadLeft
    <3>3. Met \cap LeftAlone = {}
      BY <1>1, PartsApart
    <3> QED
      BY <2>1, <3>1, <3>2, <3>3, ListsJoined
  <2> QED
    BY <2>2, <2>3
<1> QED
  BY <1>2, <1>3

LEMMA RightLists ==
    ASSUME Inputs, kind = "right"
    PROVE  Lists(RightJoin, Met \cup RightPart)
<1>1. Sized
  BY TablesSized
<1>2. CASE condition = NoCondition
  <2>1. RightPart = {} /\ Met \cup {} = Met
    BY <1>2 DEF RightPart
  <2>2. Lists(RightJoin, Met)
    BY <1>1, <1>2, AllFromLeft DEF RightJoin
  <2> QED
    BY <2>1, <2>2
<1>3. CASE condition # NoCondition
  <2>1. RightPart = RightAlone
    BY <1>3 DEF RightPart
  <2>2. CASE NestedLoop
    BY <1>1, <1>3, <2>1, <2>2, AllRightAtOnce DEF RightJoin
  <2>3. CASE ~NestedLoop
    <3>1. RightJoin = ForEach(right, FromRight) \o ForEach(right, PadRight)
      BY <1>3, <2>3 DEF RightJoin
    <3>2. Lists(ForEach(right, FromRight), Met) /\ Lists(ForEach(right, PadRight), RightAlone)
      BY <1>1, AllFromRight, AllPadRight
    <3>3. Met \cap RightAlone = {}
      BY <1>1, PartsApart
    <3> QED
      BY <2>1, <3>1, <3>2, <3>3, ListsJoined
  <2> QED
    BY <2>2, <2>3
<1> QED
  BY <1>2, <1>3

LEMMA SyncAnswers ==
    ASSUME Inputs, variant = "sync"
    PROVE  Answers(SyncResult)
<1>1. Sized
  BY TablesSized
<1>2. kind \in {"inner", "left", "right", "full", "cross"}
  BY ShapeAssumption DEF Inputs
<1>3. CASE kind = "inner"
  <2>1. Lists(SyncResult, Met)
    BY <1>1, <1>3, InnerLists DEF SyncResult
  <2>2. Whole = Met
    BY <1>3 DEF Whole, LeftPart, RightPart
  <2> QED
    BY <1>3, <2>1, <2>2, AnswersOnce DEF Doubled
<1>4. CASE kind = "cross"
  <2>1. Lists(SyncResult, Met)
    BY <1>1, <1>4, AllFromLeft DEF SyncResult, CrossJoin
  <2>2. Whole = Met
    BY <1>4 DEF Whole, LeftPart, RightPart
  <2> QED
    BY <1>4, <2>1, <2>2, AnswersOnce DEF Doubled
<1>5. CASE kind = "left"
  <2>1. Lists(SyncResult, Met \cup LeftPart)
    BY <1>5, LeftLists DEF SyncResult
  <2>2. Whole = Met \cup LeftPart
    BY <1>5 DEF Whole, RightPart
  <2> QED
    BY <1>5, <2>1, <2>2, AnswersOnce DEF Doubled
<1>6. CASE kind = "right"
  <2>1. Lists(SyncResult, Met \cup RightPart)
    BY <1>6, RightLists DEF SyncResult
  <2>2. Whole = Met \cup RightPart
    BY <1>6 DEF Whole, LeftPart
  <2> QED
    BY <1>6, <2>1, <2>2, AnswersOnce DEF Doubled
<1>7. CASE kind = "full"
  <2>1. Lists(SyncResult, Met)
    BY <1>1, <1>7, AllFromLeft DEF SyncResult, FullOuterJoin
  <2> QED
    BY <1>7, <2>1, AnswersSyncFull
<1> QED
  BY <1>2, <1>3, <1>4, <1>5, <1>6, <1>7

\* The asynchronous functions: one more row of the probe side.
Contribution(n) == IF ProbesRight THEN RowsOfRight(n) ELSE RowsOfLeft(n)

LEMMA ContributionLists ==
    ASSUME Inputs, NEW n \in 1..Len(ProbeSide)
    PROVE  Lists(Contribution(n), { p \in Adds : Place(p) = n })
<1>1. Sized
  BY TablesSized
<1>2. /\ Met \cap LeftAlone = {} /\ Met \cap RightAlone = {}
  BY <1>1, PartsApart
<1> DEFINE S == { p \in Adds : Place(p) = n }
<1>3. CASE ProbesRight
  <2> DEFINE A == { p \in Met : p[2] = n }
             B == { p \in RightAlone : p[2] = n }
  <2>1. n \in 1..Len(right)
    BY <1>3 DEF ProbeSide
  <2>2. Lists(FromRight(n), A) /\ Lists(PadRight(n), B)
    BY <1>1, <2>1, FromRightLists, PadRightLists
  <2>3. A \cap B = {}
    BY <1>2
  <2>4. CASE NestedLoop
    <3>1. Contribution(n) = FromRight(n) \o PadRight(n)
      BY <1>3, <2>4 DEF Contribution, RowsOfRight
    <3>2. S = A \cup B
      BY <1>3, <2>4 DEF Adds, Place
    <3> HIDE DEF A, B, S
    <3>3. Lists(FromRight(n) \o PadRight(n), A \cup B)
      BY <2>2, <2>3, ListsJoined
    <3>4. Lists(Contribution(n), S)
      BY <3>1, <3>2, <3>3
    <3> QED
      BY <3>4 DEF S
  <2>5. CASE ~NestedLoop
    <3>1. Contribution(n) = FromRight(n)
      BY <1>3, <2>5 DEF Contribution, RowsOfRight
    <3>2. S = A
      BY <1>3, <2>5 DEF Adds, Place
    <3> QED
      BY <2>2, <3>1, <3>2
  <2> QED
    BY <2>4, <2>5
<1>4. CASE ~ProbesRight
  <2> DEFINE A == { p \in Met : p[1] = n }
             B == { p \in LeftAlone : p[1] = n }
  <2>1. n \in 1..Len(left)
    BY <1>4 DEF ProbeSide
  <2>2. Lists(FromLeft(n), A) /\ Lists(PadLeft(n), B)
    BY <1>1, <2>1, FromLeftLists, PadLeftLists
  <2>3. A \cap B = {}
    BY <1>2
  <2>4. CASE kind = "left" /\ NestedLoop
    <3>1. Contribution(n) = FromLeft(n) \o PadLeft(n)
      BY <1>4, <2>4 DEF Contribution, RowsOfLeft
    <3>2. S = A \cup B
      BY <1>4, <2>4 DEF Adds, Place
    <3> HIDE DEF A, B, S
    <3>3. Lists(FromLeft(n) \o PadLeft(n), A \cup B)
      BY <2>2, <2>3, ListsJoined
    <3>4. Lists(Contribution(n), S)
      BY <3>1, <3>2, <3>3
    <3> QED
      BY <3>4 DEF S
  <2>5. CASE ~(kind = "left" /\ NestedLoop)
    <3>1. Contribution(n) = FromLeft(n)
      BY <1>4, <2>5 DEF Contribution, RowsOfLeft
    <3>2. S = A
      BY <1>4, <2>5 DEF Adds, Place
    <3> QED
      BY <2>2, <3>1, <3>2
  <2> QED
    BY <2>4, <2>5
<1> QED
  BY <1>3, <1>4

LEMMA PlaceNumber ==
    ASSUME Inputs
    PROVE  /\ \A p \in Adds : Place(p) \in 1..Len(ProbeSide)
           /\ Adds \subseteq Whole
<1>1. Sized
  BY TablesSized
<1>2. \A p \in Adds : Place(p) \in 1..Len(ProbeSide)
  BY <1>1 DEF Adds, Place, ProbeSide, Met, LeftAlone, RightAlone
<1>3. NestedLoop => condition # NoCondition
  BY ConditionKinds
<1>4. Adds \subseteq Whole
  BY <1>3 DEF Adds, Whole, LeftPart, RightPart, ProbesRight
<1> QED
  BY <1>2, <1>4

LEMMA RowAdded ==
    ASSUME Inputs, NEW n \in Nat, n + 1 <= Len(ProbeSide), NEW s, Lists(s, SoFar(n))
    PROVE  Lists(s \o Contribution(n + 1), SoFar(n + 1))
<1> DEFINE S == { p \in Adds : Place(p) = n + 1 }
<1>1. n + 1 \in 1..Len(ProbeSide)
  BY TablesSized
<1>2. Lists(Contribution(n + 1), S)
  BY <1>1, ContributionLists
<1>3. \A p \in Adds : Place(p) \in Nat
  BY PlaceNumber
<1>4. \A k \in Nat : (k <= n + 1 <=> k <= n \/ k = n + 1) /\ ~(k <= n /\ k = n + 1)
  OBVIOUS
<1>5. SoFar(n) \cap S = {} /\ SoFar(n) \cup S = SoFar(n + 1)
  BY <1>3, <1>4 DEF SoFar
<1> HIDE DEF S
<1>6. Lists(s \o Contribution(n + 1), SoFar(n) \cup S)
  BY <1>2, <1>5, ListsJoined
<1> QED
  BY <1>5, <1>6

\* The end of an asynchronous join.
Padded(s) ==
    s \o (IF kind \in {"left", "full"} /\ condition # NoCondition
          THEN ForEach(left, PadLeft) ELSE <<>>)
      \o (IF kind \in {"right", "full"} /\ condition # NoCondition
          THEN ForEach(right, PadRight) ELSE <<>>)

LEMMA PaddedAnswers ==
    ASSUME Inputs, variant = "async", NEW s, Lists(s, SoFar(Len(ProbeSide)))
    PROVE  Answers(Padded(s))
<1> DEFINE a == IF kind \in {"left", "full"} /\ condition # NoCondition
                THEN ForEach(left, PadLeft) ELSE <<>>
           b == IF kind \in {"right", "full"} /\ condition # NoCondition
                THEN ForEach(right, PadRight) ELSE <<>>
<1>1. Sized
  BY TablesSized
<1>2. Lists(a, LeftPart) /\ Lists(b, RightPart)
  BY <1>1, AllPadLeft, AllPadRight, ListsNothing DEF LeftPart, RightPart
<1>3. SoFar(Len(ProbeSide)) = Adds
  <2>1. \A p \in Adds : Place(p) \in 1..Len(ProbeSide) /\ Len(ProbeSide) \in Nat
    BY PlaceNumber, TablesSized
  <2>2. \A p \in Adds : Place(p) <= Len(ProbeSide)
    BY <2>1
  <2> QED
    BY <2>2 DEF SoFar
<1>4. Padded(s) = s \o a \o b
  BY DEF Padded
<1> HIDE DEF a, b
<1>5. Lists(s, Adds)
  BY <1>3
<1>6. s \in Seq(Pair) /\ a \in Seq(Pair) /\ b \in Seq(Pair)
  BY <1>2, <1>5 DEF Lists
<1>7. /\ Met \cap LeftAlone = {} /\ Met \cap RightAlone = {} /\ LeftAlone \cap RightAlone = {}
  BY <1>1, PartsApart
<1>8. NestedLoop => condition # NoCondition
  BY ConditionKinds
<1>9. CASE ~Doubled
  <2>1. Adds = Met
    BY <1>9 DEF Adds, Doubled, ProbesRight
  <2>2. Met \cap LeftPart = {} /\ (Met \cup LeftPart) \cap RightPart = {}
    BY <1>7 DEF LeftPart, RightPart
  <2>3. Lists(s \o a, Met \cup LeftPart)
    BY <1>2, <1>5, <2>1, <2>2, ListsJoined
  <2>4. Lists(s \o a \o b, Whole)
    BY <1>2, <2>2, <2>3, ListsJoined DEF Whole
  <2> QED
    BY <1>4, <1>9, <2>4, AnswersOnce
<1>10. CASE Doubled /\ kind = "left"
  <2>1. /\ LeftPart = LeftAlone /\ RightPart = {} /\ Adds = Met \cup LeftAlone
        /\ Whole = Met \cup LeftAlone
    BY <1>8, <1>10 DEF Doubled, LeftPart, RightPart, Adds, ProbesRight, Whole
  <2>2. b = <<>>
    BY <1>10 DEF b
  <2>3. s \o a \o b = s \o a
    <3> HIDE DEF Pair
    <3>1. s \o a \in Seq(Pair)
      BY <1>6
    <3> QED
      BY <2>2, <3>1
  <2>4. Answers(s \o a)
    BY <1>2, <1>5, <1>7, <1>10, <2>1, AnswersTwice
  <2> QED
    BY <1>4, <2>3, <2>4
<1>11. CASE Doubled /\ kind = "right"
  <2>1. /\ RightPart = RightAlone /\ LeftPart = {} /\ Adds = Met \cup RightAlone
        /\ Whole = Met \cup RightAlone
    BY <1>8, <1>11 DEF Doubled, LeftPart, RightPart, Adds, ProbesRight, Whole
  <2>2. a = <<>>
    BY <1>11 DEF a
  <2>3. s \o a \o b = s \o b
    <3> HIDE DEF Pair
    <3>1. s \o <<>> = s
      BY <1>6
    <3> QED
      BY <2>2, <3>1
  <2>4. Answers(s \o b)
    BY <1>2, <1>5, <1>7, <1>11, <2>1, AnswersTwice
  <2> QED
    BY <1>4, <2>3, <2>4
<1> QED
  BY <1>9, <1>10, <1>11 DEF Doubled

----------------------------------------------------------------------------
(* The steps.                                                              *)

LEMMA InputsStep ==
    ASSUME [Next]_vars
    PROVE  UNCHANGED inputs
BY DEF Next, SyncJoin, AsyncInnerUsing, LookupFails, Check, ProbeRow, Finish, Cancel, vars

\* A step that ends the join with all its rows.
LEMMA Ends ==
    ASSUME Inputs, Stages, UNCHANGED inputs, pc' = "done", probed' = probed, Answers(result')
    PROVE  Stages'
<1>1. Whole' = Whole /\ ProbeSide' = ProbeSide /\ \A p : HowOften(p)' = HowOften(p)
  BY InputsStay
<1>2. result' \in Seq(Pair) /\ ToSet(result') \subseteq Whole
  BY DEF Answers
<1>3. \A p : Times(p)' = Count(result', p)
  BY DEF Times, Count
<1>4. \A p \in Whole : Times(p)' = HowOften(p)
  BY <1>3 DEF Answers
<1>5. Complete'
  BY <1>1, <1>2, <1>4 DEF Complete
<1>6. probed' \in 0..Len(ProbeSide)'
  BY <1>1 DEF Stages
<1> QED
  BY <1>2, <1>5, <1>6 DEF Stages

\* A step that gives the join up, with the rows that it has.
LEMMA GivesUp ==
    ASSUME Inputs, Stages, UNCHANGED inputs, pc' = "failed", result' = result,
           pc \in {"start", "check", "probe"}, probed' \in 0..Len(ProbeSide)
    PROVE  Stages'
<1>1. Whole' = Whole /\ ProbeSide' = ProbeSide
  BY InputsStay
<1>2. result \in Seq(Pair) /\ ToSet(result) \subseteq Whole
  <2>1. CASE pc = "start"
    <3>1. result = <<>> /\ Lists(<<>>, {})
      BY <2>1, ListsNothing DEF Stages
    <3> QED
      BY <3>1 DEF Lists
  <2>2. CASE pc \in {"check", "probe"}
    <3>1. Lists(result, SoFar(probed))
      BY <2>2 DEF Stages
    <3>2. SoFar(probed) \subseteq Whole
      BY PlaceNumber DEF SoFar
    <3> QED
      BY <3>1, <3>2 DEF Lists
  <2> QED
    BY <2>1, <2>2
<1> QED
  BY <1>1, <1>2 DEF Stages

LEMMA StagesStep ==
    ASSUME Inputs, Stages, [Next]_vars
    PROVE  Stages'
<1>1. UNCHANGED inputs
  BY InputsStep
<1>2. /\ Whole' = Whole /\ ProbeSide' = ProbeSide /\ \A n : SoFar(n)' = SoFar(n)
      /\ \A p : HowOften(p)' = HowOften(p)
  BY <1>1, InputsStay
<1>3. probed \in 0..Len(ProbeSide) /\ probed \in Nat /\ Len(ProbeSide) \in Nat
  BY TablesSized DEF Stages
<1>4. Sized
  BY TablesSized
<1>5. CASE SyncJoin
  <2>1. pc = "start" /\ variant = "sync" /\ probed' = probed
    BY <1>5 DEF SyncJoin, Stages
  <2>2. CASE pc' = "failed" /\ result' = result
    BY <1>1, <1>3, <2>1, <2>2, GivesUp
  <2>3. CASE pc' = "done" /\ result' = SyncResult
    <3>1. Answers(SyncResult)
      BY <2>1, SyncAnswers
    <3> QED
      BY <1>1, <2>1, <2>3, <3>1, Ends
  <2> QED
    BY <1>5, <2>2, <2>3 DEF SyncJoin, SyncResult
<1>6. CASE AsyncInnerUsing
  <2>1. /\ kind = "inner" /\ variant = "async" /\ pc' = "done" /\ result' = InnerJoin
        /\ probed' = probed
    BY <1>6 DEF AsyncInnerUsing, AtOnce, Stages
  <2>2. Whole = Met
    BY <2>1 DEF Whole, LeftPart, RightPart
  <2>3. Lists(InnerJoin, Whole)
    BY <1>4, <2>2, InnerLists
  <2>4. ~Doubled /\ ~(variant = "sync" /\ kind = "full")
    BY <2>1 DEF Doubled
  <2>5. Answers(InnerJoin)
    BY <2>3, <2>4, AnswersOnce
  <2> QED
    BY <1>1, <2>1, <2>5, Ends
<1>7. CASE LookupFails
  <2>1. pc = "check" /\ pc' = "failed" /\ result' = result /\ probed' = probed
    BY <1>7 DEF LookupFails
  <2> QED
    BY <1>1, <1>3, <2>1, GivesUp
<1>8. CASE Check
  <2>1. /\ pc = "check" /\ probed < Len(ProbeSide) /\ result' = result /\ probed' = probed
        /\ pc' \in {"failed", "probe"}
    BY <1>8 DEF Check
  <2>2. CASE pc' = "failed"
    BY <1>1, <1>3, <2>1, <2>2, GivesUp
  <2>3. CASE pc' = "probe"
    <3>1. variant' = "async" /\ Lists(result', SoFar(probed))
      BY <1>1, <2>1 DEF Stages, inputs
    <3> QED
      BY <1>2, <1>3, <2>1, <2>3, <3>1 DEF Stages
  <2> QED
    BY <2>1, <2>2, <2>3
<1>9. CASE ProbeRow
  <2>1. /\ pc = "probe" /\ probed' = probed + 1 /\ variant = "async"
        /\ probed < Len(ProbeSide) /\ Lists(result, SoFar(probed))
    BY <1>9 DEF ProbeRow, Stages
  <2>2. probed + 1 <= Len(ProbeSide) /\ probed + 1 \in 0..Len(ProbeSide)
    BY <1>3, <2>1
  <2>3. CASE pc' = "failed" /\ result' = result
    BY <1>1, <2>1, <2>2, <2>3, GivesUp
  <2>4. CASE /\ result' = result \o Contribution(probed + 1)
             /\ pc' = IF probed' % Interval = 0 \/ probed' = Len(ProbeSide)
                      THEN "check" ELSE "probe"
    <3>1. Lists(result', SoFar(probed + 1))
      BY <1>3, <2>1, <2>2, <2>4, RowAdded
    <3>2. variant' = "async"
      BY <1>1, <2>1 DEF inputs
    <3>3. pc' \in {"check", "probe"} /\ (pc' = "probe" => probed' < Len(ProbeSide))
      <4>1. pc' \in {"check", "probe"} /\ (pc' = "probe" => probed' # Len(ProbeSide))
        BY <2>4
      <4>2. probed' # Len(ProbeSide) => probed' < Len(ProbeSide)
        BY <1>3, <2>1, <2>2
      <4> QED
        BY <4>1, <4>2
    <3> QED
      BY <1>2, <2>1, <2>2, <3>1, <3>2, <3>3 DEF Stages
  <2> QED
    BY <1>9, <2>1, <2>3, <2>4 DEF ProbeRow, Contribution
<1>10. CASE Finish
  <2>1. /\ pc = "check" /\ probed = Len(ProbeSide) /\ pc' = "done" /\ probed' = probed
        /\ result' = Padded(result)
    BY <1>10 DEF Finish, Padded
  <2>2. variant = "async" /\ Lists(result, SoFar(Len(ProbeSide)))
    BY <2>1 DEF Stages
  <2>3. Answers(Padded(result))
    BY <2>2, PaddedAnswers
  <2> QED
    BY <1>1, <2>1, <2>3, Ends
<1>11. CASE Cancel \/ UNCHANGED vars
  <2>1. UNCHANGED <<inputs, pc, probed, result>>
    BY <1>11 DEF Cancel, vars
  <2>2. variant' = variant /\ pc' = pc /\ probed' = probed /\ result' = result
    BY <2>1 DEF inputs
  <2>3. \A p : Times(p)' = Times(p)
    BY <2>2 DEF Times
  <2>4. Complete' = Complete
    BY <1>2, <2>2, <2>3 DEF Complete
  <2> QED
    BY <1>2, <2>2, <2>4 DEF Stages
<1> QED
  BY <1>5, <1>6, <1>7, <1>8, <1>9, <1>10, <1>11 DEF Next

LEMMA Invariant == Spec => []IInv
<1>1. Init => IInv
  BY InitHolds
<1>2. IInv /\ [Next]_vars => IInv'
  <2> SUFFICES ASSUME IInv, [Next]_vars PROVE IInv'
    OBVIOUS
  <2>1. Inputs'
    BY InputsStep DEF IInv, Inputs, inputs
  <2>2. Stages'
    BY StagesStep DEF IInv
  <2>3. Staged
    BY TablesSized DEF IInv, Stages, Staged
  <2>4. Heeded'
    BY <2>3, HeededStep DEF IInv
  <2> QED
    BY <2>1, <2>2, <2>4 DEF IInv
<1> QED
  BY <1>1, <1>2, PTL DEF Spec

LEMMA RowsWithin ==
    ASSUME IInv
    PROVE  ToSet(result) \subseteq Whole
<1>1. Inputs /\ Stages
  BY DEF IInv
<1>2. CASE pc = "start"
  BY <1>1, <1>2, ListsNothing DEF Stages, Lists
<1>3. CASE pc \in {"check", "probe"}
  <2>1. ToSet(result) = SoFar(probed)
    BY <1>1, <1>3 DEF Stages, Lists
  <2>2. SoFar(probed) \subseteq Whole
    BY <1>1, PlaceNumber DEF SoFar
  <2> QED
    BY <2>1, <2>2
<1>4. CASE pc \in {"done", "failed"}
  BY <1>1, <1>4 DEF Stages, Complete
<1> QED
  BY <1>1, <1>2, <1>3, <1>4 DEF Stages

\* Any join: every variable keeps its type, and a row of the result is made of
\* rows that the tables have (or of NULLs).
THEOREM TypeCorrect == Spec => []TypeOK
<1>1. IInv => TypeOK
  <2> SUFFICES ASSUME IInv PROVE TypeOK
    OBVIOUS
  <2>1. Inputs /\ Stages /\ Heeded
    BY DEF IInv
  <2>2. Sized
    BY <2>1, TablesSized
  <2>3. ToSet(result) \subseteq Whole
    BY RowsWithin
  <2>4. Whole \subseteq (0..Len(left)) \X (0..Len(right))
    BY <2>2 DEF Whole, LeftPart, RightPart, Met, LeftAlone, RightAlone, Pair, Sized
  <2>5. \A n \in DOMAIN result : result[n] \in (0..Len(left)) \X (0..Len(right))
    BY <2>3, <2>4 DEF ToSet
  <2> QED
    BY <2>1, <2>5 DEF TypeOK, Inputs, Stages, Heeded
<1> QED
  BY <1>1, Invariant, PTL

\* inner_join_with_progress and its sisters: whatever the interval, a query that
\* is cancelled while it joins probes at most one interval of rows more, unless
\* the join is an INNER JOIN with USING, which does not look (executor.rs:2013).
THEOREM CancellationHeeded == Spec => []CancelHeeded
<1>1. IInv => CancelHeeded
  BY DEF IInv, Heeded, CancelHeeded
<1> QED
  BY <1>1, Invariant, PTL

----------------------------------------------------------------------------
(* Match is what the condition Means.                                      *)

\* A column that is found with and without its table is the same one.
LEMMA SameColumn ==
    ASSUME NEW schema \in Seq(STRING \X STRING), NEW col,
           Found(schema, col), Found(schema, Unqualified(col))
    PROVE  Find(schema, col) = Find(schema, Unqualified(col))
<1> DEFINE C == Columns(schema, col)
           U == Columns(schema, Unqualified(col))
<1>1. Unqualified(col)[1] = "" /\ Unqualified(col)[2] = col[2]
  BY DEF Unqualified
<1>2. C \subseteq U /\ (col[1] = "" => C = U)
  BY <1>1 DEF Columns
<1>3. IsFiniteSet(U)
  <2>1. DOMAIN schema = 1..Len(schema) /\ Len(schema) \in Nat
    OBVIOUS
  <2>2. IsFiniteSet(DOMAIN schema)
    BY <2>1, FS_Interval
  <2>3. U \subseteq DOMAIN schema
    BY DEF Columns
  <2> HIDE DEF U
  <2> QED
    BY <2>2, <2>3, FS_Subset
<1>4. Cardinality(U) = 1
  BY <1>1 DEF Found
<1>5. col[1] # "" => C # {}
  BY DEF Found
<1>6. C = U
  <2> HIDE DEF C, U
  <2>1. PICK x : U = {x}
    BY <1>3, <1>4, FS_Singleton
  <2> QED
    BY <1>2, <1>5, <2>1
<1> QED
  BY <1>6 DEF Find

\* The value of a column that only one side has.
LEMMA ValueOnSide ==
    ASSUME NEW col, NEW i, NEW j
    PROVE  /\ Found(LeftSchema, col) /\ Found(LeftSchema, Unqualified(col)) =>
                  ValueOf(col, i, j) = left[i][Find(LeftSchema, Unqualified(col))]
           /\ /\ ~Found(LeftSchema, col)
              /\ Found(RightSchema, col) /\ Found(RightSchema, Unqualified(col))
              => ValueOf(col, i, j) = right[j][Find(RightSchema, Unqualified(col))]
<1>1. LeftSchema \in Seq(STRING \X STRING) /\ RightSchema \in Seq(STRING \X STRING)
  BY ShapeAssumption
<1>2. ASSUME Found(LeftSchema, col), Found(LeftSchema, Unqualified(col))
      PROVE  Find(LeftSchema, col) = Find(LeftSchema, Unqualified(col))
  BY <1>1, <1>2, SameColumn
<1>3. ASSUME Found(RightSchema, col), Found(RightSchema, Unqualified(col))
      PROVE  Find(RightSchema, col) = Find(RightSchema, Unqualified(col))
  BY <1>1, <1>3, SameColumn
<1> QED
  BY <1>2, <1>3 DEF ValueOf

\* Without its table, an unqualified column is found where it is.
LEMMA FoundUnqualified ==
    ASSUME NEW schema, NEW col, col[1] = "", Found(schema, Unqualified(col))
    PROVE  Found(schema, col)
<1>1. Unqualified(col)[1] = "" /\ Unqualified(col)[2] = col[2]
  BY DEF Unqualified
<1>2. Columns(schema, col) = Columns(schema, Unqualified(col))
  BY <1>1 DEF Columns
<1> QED
  BY <1>1, <1>2 DEF Found

\* Keys come from columns that exist.
LEMMA ExtractableKnown ==
    ASSUME NEW c, Extractable(c)
    PROVE  Known(c.left) /\ Known(c.right)
<1>1. CASE c.left[1] = "" /\ c.right[1] = ""
  <2>1. KeyColumns(c)[1] = Unqualified(c.left) /\ KeyColumns(c)[2] = Unqualified(c.right)
    BY <1>1 DEF KeyColumns
  <2>2. Found(LeftSchema, Unqualified(c.left)) /\ Found(RightSchema, Unqualified(c.right))
    BY <2>1 DEF Extractable
  <2>3. Found(LeftSchema, c.left)
    BY <1>1, <2>2, FoundUnqualified
  <2>4. Found(RightSchema, c.right)
    BY <1>1, <2>2, FoundUnqualified
  <2> QED
    BY <2>3, <2>4 DEF Known
<1>2. CASE ~(c.left[1] = "" /\ c.right[1] = "")
  BY <1>2 DEF Extractable, Known
<1> QED
  BY <1>1, <1>2

\* The keys of a comparison hold the values that the comparison compares.
LEMMA KeysCompare ==
    ASSUME NEW c, Extractable(c), NEW i, NEW j,
           \A col \in {c.left, c.right} : ~(Found(LeftSchema, col) /\ Found(RightSchema, col))
    PROVE  ValueOf(c.left, i, j) = ValueOf(c.right, i, j) <=>
               left[i][Find(LeftSchema, KeyColumns(c)[1])]
                   = right[j][Find(RightSchema, KeyColumns(c)[2])]
<1> DEFINE l == c.left
           r == c.right
           Straight == \/ l[1] = "" /\ r[1] = ""
                       \/ Found(LeftSchema, l) /\ Found(RightSchema, r)
<1>1. CASE Straight
  <2>1. KeyColumns(c)[1] = Unqualified(l) /\ KeyColumns(c)[2] = Unqualified(r)
    BY <1>1 DEF KeyColumns
  <2>2. Found(LeftSchema, Unqualified(l)) /\ Found(RightSchema, Unqualified(r))
    BY <2>1 DEF Extractable
  <2>3. Found(LeftSchema, l) /\ Found(RightSchema, r)
    BY <1>1, <2>2, FoundUnqualified
  <2>4. ~Found(LeftSchema, r)
    BY <2>3
  <2>5. ValueOf(l, i, j) = left[i][Find(LeftSchema, Unqualified(l))]
    BY <2>2, <2>3, ValueOnSide
  <2>6. ValueOf(r, i, j) = right[j][Find(RightSchema, Unqualified(r))]
    BY <2>2, <2>3, <2>4, ValueOnSide
  <2> QED
    BY <2>1, <2>5, <2>6
<1>2. CASE ~Straight
  <2>1. KeyColumns(c)[1] = Unqualified(r) /\ KeyColumns(c)[2] = Unqualified(l)
    BY <1>2 DEF KeyColumns
  <2>2. Found(LeftSchema, Unqualified(r)) /\ Found(RightSchema, Unqualified(l))
    BY <2>1 DEF Extractable
  <2>3. Found(RightSchema, l) /\ Found(LeftSchema, r)
    BY <1>2 DEF Extractable
  <2>4. ~Found(LeftSchema, l)
    BY <2>3
  <2>5. ValueOf(r, i, j) = left[i][Find(LeftSchema, Unqualified(r))]
    BY <2>2, <2>3, ValueOnSide
  <2>6. ValueOf(l, i, j) = right[j][Find(RightSchema, Unqualified(l))]
    BY <2>2, <2>3, <2>4, ValueOnSide
  <2> QED
    BY <2>1, <2>5, <2>6
<1> QED
  BY <1>1, <1>2

LEMMA MatchMeans ==
    ASSUME Unambiguous, Inputs, NEW i, NEW j
    PROVE  Match(i, j) <=> Means(i, j)
<1>1. CASE condition = NoCondition
  <2>1. condition.type = "none"
    BY <1>1 DEF NoCondition
  <2>2. Means(i, j)
    BY <2>1 DEF Means
  <2>3. ~NestedLoop
    BY <2>1 DEF NestedLoop
  <2>4. Match(i, j)
    BY <1>1, <2>3 DEF Match
  <2> QED
    BY <2>2, <2>4
<1>2. CASE condition \in Conditions /\ condition.type = "using"
  <2>1. condition # NoCondition /\ ~NestedLoop
    BY <1>2 DEF NestedLoop, NoCondition
  <2>2. Match(i, j) = SameKey(i, j)
    BY <2>1 DEF Match
  <2>3. JoinKeys = {<<Find(LeftSchema, <<"", c>>), Find(RightSchema, <<"", c>>)>> :
                       c \in condition.columns}
    BY <1>2 DEF JoinKeys
  <2>4. SameKey(i, j) <=>
            \A c \in condition.columns :
                left[i][Find(LeftSchema, <<"", c>>)] = right[j][Find(RightSchema, <<"", c>>)]
    <3> DEFINE key(c) == <<Find(LeftSchema, <<"", c>>), Find(RightSchema, <<"", c>>)>>
    <3>1. \A c : /\ key(c)[1] = Find(LeftSchema, <<"", c>>)
                 /\ key(c)[2] = Find(RightSchema, <<"", c>>)
      OBVIOUS
    <3>2. JoinKeys = { key(c) : c \in condition.columns }
      BY <2>3
    <3> HIDE DEF key
    <3>3. SameKey(i, j) <=> \A c \in condition.columns : left[i][key(c)[1]] = right[j][key(c)[2]]
      BY <3>2 DEF SameKey
    <3> QED
      BY <3>1, <3>3
  <2>5. Means(i, j) <=>
            \A c \in condition.columns :
                left[i][Find(LeftSchema, <<"", c>>)] = right[j][Find(RightSchema, <<"", c>>)]
    BY <1>2 DEF Means
  <2> QED
    BY <2>2, <2>4, <2>5
<1>3. CASE condition \in Conditions /\ condition.type = "on"
  <2>1. condition # NoCondition
    BY <1>3 DEF NoCondition
  <2>2. Means(i, j) <=> Evaluate(condition.expr, i, j) = "true"
    BY <1>3 DEF Means
  <2>3. CASE NestedLoop
    BY <2>1, <2>2, <2>3 DEF Match
  <2>4. CASE ~NestedLoop
    <3> DEFINE c == condition.expr.compare[1]
               columns == KeyColumns(c)
    <3>1. condition.expr.op \notin {"And", "Or"} /\ Extractable(c)
      BY <1>3, <2>4 DEF NestedLoop
    <3>2. \A col \in {c.left, c.right} : ~(Found(LeftSchema, col) /\ Found(RightSchema, col))
      BY <1>3, <3>1 DEF Unambiguous
    <3>3. Evaluate(condition.expr, i, j) = Compare(c, i, j)
      BY <3>1 DEF Evaluate
    <3>4. c.op = "Eq"
      BY <3>1 DEF Extractable
    <3>5. Compare(c, i, j) = "true" <=> ValueOf(c.left, i, j) = ValueOf(c.right, i, j)
      <4>1. Known(c.left) /\ Known(c.right)
        BY <3>1, ExtractableKnown
      <4> QED
        BY <3>4, <4>1 DEF Compare
    <3>6. JoinKeys = {<<Find(LeftSchema, columns[1]), Find(RightSchema, columns[2])>>}
      BY <1>3 DEF JoinKeys
    <3>7. SameKey(i, j) <=>
              left[i][Find(LeftSchema, columns[1])] = right[j][Find(RightSchema, columns[2])]
      BY <3>6 DEF SameKey
    <3> HIDE DEF c
    <3>8. ValueOf(c.left, i, j) = ValueOf(c.right, i, j) <=>
              left[i][Find(LeftSchema, columns[1])] = right[j][Find(RightSchema, columns[2])]
      BY <3>1, <3>2, KeysCompare
    <3>9. Match(i, j) = SameKey(i, j)
      BY <2>1, <2>4 DEF Match
    <3> QED
      BY <2>2, <3>3, <3>5, <3>7, <3>8, <3>9
  <2> QED
    BY <2>3, <2>4
<1> QED
  BY <1>1, <1>2, <1>3, ShapeAssumption DEF Inputs

\* So the rows of the invariant are those that are documented.
LEMMA WholeDocumented ==
    ASSUME Unambiguous, Inputs
    PROVE  Whole = Documented /\ \A p : HowOften(p) = Expected(p)
<1>1. /\ Sized /\ DOMAIN left = 1..Len(left) /\ DOMAIN right = 1..Len(right)
  BY TablesSized
<1>2. \A i, j : Match(i, j) <=> Means(i, j)
  BY MatchMeans
<1>3. Met = Matched
  <2>1. Met = { p \in Pair : /\ p[1] \in 1..Len(left) /\ p[2] \in 1..Len(right)
                             /\ Means(p[1], p[2]) }
    BY <1>2 DEF Met
  <2>2. (1..Len(left)) \X (1..Len(right)) \subseteq Pair
    BY <1>1 DEF Sized, Pair
  <2>3. Matched = {p \in (1..Len(left)) \X (1..Len(right)) : Means(p[1], p[2])}
    BY <1>1 DEF Matched
  <2>4. \A p \in Pair : p \in (1..Len(left)) \X (1..Len(right)) <=>
                            p[1] \in 1..Len(left) /\ p[2] \in 1..Len(right)
    BY DEF Pair
  <2> QED
    BY <2>1, <2>2, <2>3, <2>4
<1>4. LeftAlone = LeftOnly
  <2>1. ASSUME NEW p \in LeftAlone PROVE p \in LeftOnly
    <3>1. p \in Pair /\ p[1] \in 1..Len(left) /\ p[2] = 0 /\ \A j \in 1..Len(right) : ~Means(p[1], j)
      BY <1>2 DEF LeftAlone
    <3>2. p = <<p[1], 0>>
      BY <3>1 DEF Pair
    <3> QED
      BY <1>1, <3>1, <3>2 DEF LeftOnly
  <2>2. ASSUME NEW i \in 1..Len(left), \A j \in 1..Len(right) : ~Means(i, j)
        PROVE  <<i, 0>> \in LeftAlone
    BY <1>1, <1>2, <2>2 DEF LeftAlone, Pair, Sized
  <2> QED
    BY <1>1, <2>1, <2>2 DEF LeftOnly
<1>5. RightAlone = RightOnly
  <2>1. ASSUME NEW p \in RightAlone PROVE p \in RightOnly
    <3>1. p \in Pair /\ p[2] \in 1..Len(right) /\ p[1] = 0 /\ \A i \in 1..Len(left) : ~Means(i, p[2])
      BY <1>2 DEF RightAlone
    <3>2. p = <<0, p[2]>>
      BY <3>1 DEF Pair
    <3> QED
      BY <1>1, <3>1, <3>2 DEF RightOnly
  <2>2. ASSUME NEW j \in 1..Len(right), \A i \in 1..Len(left) : ~Means(i, j)
        PROVE  <<0, j>> \in RightAlone
    BY <1>1, <1>2, <2>2 DEF RightAlone, Pair, Sized
  <2> QED
    BY <1>1, <2>1, <2>2 DEF RightOnly
<1>6. Whole = Documented
  BY <1>3, <1>4, <1>5 DEF Whole, Documented, LeftPart, RightPart
<1>7. \A p : HowOften(p) = Expected(p)
  BY <1>3 DEF HowOften, Expected
<1> QED
  BY <1>6, <1>7

\* Hash join and nested loop, either build side, synchronous or not, and any way
\* to write the condition: a join that ends has returned each row of its
\* documented result as often as Expected says, and no other row.
THEOREM JoinsExact == ASSUME Unambiguous PROVE Spec => []ExactElsewhere
<1>1. IInv => ExactElsewhere
  <2> SUFFICES ASSUME IInv PROVE ExactElsewhere
    OBVIOUS
  <2>1. Whole = Documented /\ \A p : HowOften(p) = Expected(p)
    BY WholeDocumented DEF IInv
  <2>2. pc = "done" => Complete
    BY DEF IInv, Stages
  <2> QED
    BY <2>1, <2>2 DEF Complete, ExactElsewhere
<1> QED
  BY <1>1, Invariant, PTL

\* Nor does a join that is cancelled, that fails or that is not at its end have
\* any other row.
THEOREM OnlyRowsDocumented == ASSUME Unambiguous PROVE Spec => []OnlyDocumentedRows
<1>1. IInv => OnlyDocumentedRows
  <2> SUFFICES ASSUME IInv PROVE OnlyDocumentedRows
    OBVIOUS
  <2>1. Whole = Documented
    BY WholeDocumented DEF IInv
  <2>2. ToSet(result) \subseteq Whole
    BY RowsWithin
  <2> QED
    BY <2>1, <2>2 DEF OnlyDocumentedRows
<1> QED
  BY <1>1, Invariant, PTL
=============================================================================
