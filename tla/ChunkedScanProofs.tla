------------------------- MODULE ChunkedScanProofs -------------------------
(***************************************************************************)
(* A scan by chunks is exact if one thread reads the data files, or if the *)
(* table fits in one chunk: for any rows, any batches inserted meanwhile,  *)
(* any chunk size and any number of files and threads.                     *)
(*                                                                         *)
(* How the files are divided among the threads comes first, then the       *)
(* invariant.                                                              *)
(***************************************************************************)
EXTENDS ChunkedScan, SequenceLemmas, FiniteSetTheorems

----------------------------------------------------------------------------
(* The rows of a sequence of files.                                        *)

LEMMA RowsTyped ==
    ASSUME NEW V, NEW fs \in Seq(Seq(V))
    PROVE  Rows(fs) \in Seq(V)
BY FlattenTyped DEF Rows

\* One more file: its rows come last.
LEMMA RowsAppend ==
    ASSUME NEW V, NEW fs \in Seq(Seq(V)), NEW f \in Seq(V)
    PROVE  Rows(Append(fs, f)) = Rows(fs) \o f
BY FlattenAppend DEF Rows

LEMMA RowsHold ==
    ASSUME NEW V, NEW fs \in Seq(Seq(V))
    PROVE  /\ HasElements(Rows(fs), fs, Len(fs))
           /\ NowhereTwice(fs) => IsInjective(Rows(fs))
BY FlattenHasElements DEF Rows

\* A sequence without repetitions is no longer than one that has its elements.
LEMMA InjectiveShorter ==
    ASSUME NEW V, NEW s \in Seq(V), NEW t \in Seq(V), IsInjective(s),
           ToSet(s) \subseteq ToSet(t)
    PROVE  Len(s) <= Len(t)
<1> DEFINE m == Len(s)
           n == Len(t)
<1>1. m \in Nat /\ n \in Nat /\ DOMAIN s = 1..m /\ DOMAIN t = 1..n
  OBVIOUS
<1> HIDE DEF m, n
<1>2. \A i \in 1..m : \E j \in 1..n : t[j] = s[i]
  BY <1>1 DEF ToSet
<1> DEFINE f == [i \in 1..m |-> CHOOSE j \in 1..n : t[j] = s[i]]
<1>3. \A i \in 1..m : f[i] \in 1..n /\ t[f[i]] = s[i]
  BY <1>2
<1>4. f \in Injection(1..m, 1..n)
  <2>1. f \in [1..m -> 1..n]
    BY <1>3
  <2>2. \A i, j \in 1..m : f[i] = f[j] => i = j
    <3> HIDE DEF f
    <3> QED
      BY <1>1, <1>3 DEF IsInjective
  <2> QED
    BY <2>1, <2>2 DEF Injection, IsInjective
<1> HIDE DEF f
<1>5. IsFiniteSet(1..n) /\ Cardinality(1..n) = n /\ Cardinality(1..m) = m
  BY <1>1, FS_Interval
<1>6. Cardinality(1..m) <= Cardinality(1..n)
  BY <1>4, <1>5, FS_Injection
<1> QED
  BY <1>5, <1>6 DEF m, n

----------------------------------------------------------------------------
(* How the files are divided.                                              *)

\* s is the part of fs from lo to hi.
Part(s, fs, lo, hi) ==
    /\ Len(s) = hi + 1 - lo
    /\ \A m \in 1..Len(s) : s[m] = fs[lo + m - 1]

LEMMA SubSeqPart ==
    ASSUME NEW W, NEW fs \in Seq(W), NEW lo \in Nat, NEW hi \in Nat,
           1 <= lo, lo <= hi + 1, hi <= Len(fs)
    PROVE  SubSeq(fs, lo, hi) \in Seq(W) /\ Part(SubSeq(fs, lo, hi), fs, lo, hi)
BY DEF Part

\* What the proofs need of the division: per files for each of c threads.
Divided(sh, fs, per, c) ==
    /\ per \in Nat /\ c \in Nat /\ per >= 1
    /\ DOMAIN sh = 1..c
    /\ \A k \in 1..c : (k - 1) * per + 1 <= Len(fs)
    /\ c * per >= Len(fs)
    /\ \A k \in 1..c :
           sh[k] = SubSeq(fs, (k - 1) * per + 1, IF k * per <= Len(fs) THEN k * per ELSE Len(fs))

LEMMA ThreadsAtLeastOne ==
    ASSUME NEW n \in Nat, cores \in Nat \ {0}
    PROVE  /\ Threads(n) \in Nat /\ Threads(n) >= 1
           /\ cores = 1 => Threads(n) = 1
<1>1. Max({n, 1}) = IF n >= 1 THEN n ELSE 1
  BY MaxOfTwo
<1> DEFINE m == Max({n, 1})
<1>2. m \in Nat /\ m >= 1
  BY <1>1
<1> HIDE DEF m
<1>3. Min({cores, m}) = IF cores <= m THEN cores ELSE m
  BY <1>2, MinOfTwo
<1> QED
  BY <1>2, <1>3 DEF Threads, m

LEMMA PerThreadAtLeastOne ==
    ASSUME NEW n \in Nat, cores \in Nat \ {0}
    PROVE  /\ PerThread(n) \in Nat /\ PerThread(n) >= 1
           /\ cores = 1 /\ n >= 1 => PerThread(n) = n
<1> DEFINE t == Threads(n)
           q == (n + t - 1) \div t
<1>1. t \in Nat /\ t >= 1 /\ (cores = 1 => t = 1)
  BY ThreadsAtLeastOne
<1> HIDE DEF t
<1>2. q \in Nat
  BY <1>1
<1>3. cores = 1 => q = n
  BY <1>1
<1> HIDE DEF q
<1>4. Max({q, 1}) = IF q >= 1 THEN q ELSE 1
  BY <1>2, MaxOfTwo
<1>5. PerThread(n) = Max({q, 1})
  BY DEF PerThread, q, t
<1> QED
  BY <1>2, <1>3, <1>4, <1>5

LEMMA SharesDivide ==
    ASSUME NEW W, NEW fs \in Seq(W), cores \in Nat \ {0}
    PROVE  Divided(Shares(fs), fs, PerThread(Len(fs)), ShareCount(Len(fs)))
<1> DEFINE n == Len(fs)
           per == PerThread(n)
           c == (n + per - 1) \div per
<1>1. n \in Nat
  OBVIOUS
<1>2. per \in Nat /\ per >= 1
  BY <1>1, PerThreadAtLeastOne
<1>3. Shares(fs) = [k \in 1..c |-> SubSeq(fs, (k - 1) * per + 1, Min({k * per, n}))]
  BY DEF Shares, ShareCount
<1>4. ShareCount(n) = c
  BY DEF ShareCount
<1> HIDE DEF n, per
<1>5. c \in Nat /\ c * per <= n + per - 1 /\ n + per - 1 < c * per + per
  BY <1>1, <1>2
<1> HIDE DEF c
<1>6. ASSUME NEW k \in 1..c
      PROVE  /\ (k - 1) * per + 1 <= n
             /\ Min({k * per, n}) = IF k * per <= n THEN k * per ELSE n
  <2>1. k * per <= c * per /\ (k - 1) * per = k * per - per /\ k * per \in Nat /\ c * per \in Nat
    BY <1>2, <1>5
  <2>2. (k - 1) * per + 1 <= n
    BY <1>1, <1>2, <1>5, <2>1
  <2>3. Min({k * per, n}) = IF k * per <= n THEN k * per ELSE n
    BY <1>1, <2>1, MinOfTwo
  <2> QED
    BY <2>2, <2>3
<1>7. c * per >= n
  <2>1. c * per \in Nat
    BY <1>2, <1>5
  <2> QED
    BY <1>1, <1>2, <1>5, <2>1
<1> QED
  BY <1>2, <1>3, <1>4, <1>5, <1>6, <1>7 DEF Divided, n, per

\* Place m of thread k is a place of fs, each place of fs is one of some thread.
Dealt(sh, fs, per, c) ==
    /\ \A k \in 1..c : \A m \in 1..Len(sh[k]) :
           m <= per /\ (k - 1) * per + m \in 1..Len(fs) /\ sh[k][m] = fs[(k - 1) * per + m]
    /\ \A i \in 1..Len(fs) : \E k \in 1..c : \E m \in 1..Len(sh[k]) : i = (k - 1) * per + m

LEMMA PlaceUnique ==
    ASSUME NEW k \in Nat \ {0}, NEW j \in Nat \ {0}, NEW m \in Nat, NEW l \in Nat, NEW per \in Nat,
           1 <= m, m <= per, 1 <= l, l <= per, (k - 1) * per + m = (j - 1) * per + l
    PROVE  k = j /\ m = l
<1>1. ASSUME NEW a \in Nat \ {0}, NEW b \in Nat \ {0}, a < b
      PROVE  (a - 1) * per + per <= (b - 1) * per
  <2>1. a <= b - 1 /\ a \in Nat /\ b - 1 \in Nat
    BY <1>1
  <2>2. a * per <= (b - 1) * per
    <3> DEFINE d == b - 1
    <3>1. a <= d /\ a \in Nat /\ d \in Nat
      BY <2>1
    <3> HIDE DEF d
    <3>2. a * per <= d * per
      BY <3>1
    <3> QED
      BY <3>2 DEF d
  <2>3. (a - 1) * per + per = a * per
    OBVIOUS
  <2> QED
    BY <2>2, <2>3
<1> DEFINE x == (k - 1) * per
           y == (j - 1) * per
<1>2. x \in Nat /\ y \in Nat
  <2>1. k - 1 \in Nat /\ j - 1 \in Nat
    OBVIOUS
  <2> QED
    BY <2>1
<1>3. (k < j => x + per <= y) /\ (j < k => y + per <= x)
  BY <1>1
<1>4. x + m = y + l
  OBVIOUS
<1>5. k = j => x = y
  OBVIOUS
<1> HIDE DEF x, y
<1>6. ~(k < j) /\ ~(j < k)
  BY <1>2, <1>3, <1>4
<1>7. k = j
  BY <1>6
<1> QED
  BY <1>2, <1>4, <1>5, <1>7

LEMMA SharesDealt ==
    ASSUME NEW W, NEW fs \in Seq(W), NEW sh, NEW per, NEW c, Divided(sh, fs, per, c)
    PROVE  /\ Dealt(sh, fs, per, c)
           /\ \A k \in 1..c : sh[k] \in Seq(W)
<1> DEFINE n == Len(fs)
           lo(k) == (k - 1) * per + 1
           hi(k) == IF k * per <= n THEN k * per ELSE n
<1>1. /\ per \in Nat /\ c \in Nat /\ per >= 1 /\ n \in Nat /\ c * per >= n
      /\ \A k \in 1..c : lo(k) <= n /\ sh[k] = SubSeq(fs, lo(k), hi(k))
  <2>1. per \in Nat /\ c \in Nat /\ per >= 1 /\ c * per >= n
    BY Zenon DEF Divided
  <2>2. \A k \in 1..c : lo(k) <= n /\ sh[k] = SubSeq(fs, lo(k), hi(k))
    BY Zenon DEF Divided
  <2>3. n \in Nat
    OBVIOUS
  <2> QED
    BY <2>1, <2>2, <2>3
<1>2. ASSUME NEW k \in 1..c
      PROVE  /\ (k - 1) * per \in Nat /\ k * per \in Nat /\ k * per = (k - 1) * per + per
  <2>1. k - 1 \in Nat /\ k \in Nat
    BY <1>1
  <2> QED
    BY <1>1, <2>1
<1>3. ASSUME NEW k \in 1..c
      PROVE  /\ sh[k] \in Seq(W) /\ Len(sh[k]) = hi(k) - (k - 1) * per
             /\ \A m \in 1..Len(sh[k]) : sh[k][m] = fs[(k - 1) * per + m]
  <2> DEFINE x == (k - 1) * per
             y == k * per
             z == hi(k)
  <2>1. x \in Nat /\ y = x + per /\ lo(k) = x + 1 /\ z = IF y <= n THEN y ELSE n
    BY <1>2
  <2>2. x + 1 <= n /\ sh[k] = SubSeq(fs, x + 1, z)
    BY <1>1, <2>1
  <2> HIDE DEF x, y, z
  <2>3. z \in Nat /\ x + 1 <= z + 1 /\ z <= n /\ x + 1 \in Nat /\ 1 <= x + 1
    BY <1>1, <2>1, <2>2
  <2>4. SubSeq(fs, x + 1, z) \in Seq(W) /\ Part(SubSeq(fs, x + 1, z), fs, x + 1, z)
    <3> HIDE DEF lo, hi
    <3> QED
      BY <2>3, SubSeqPart
  <2>5. Part(sh[k], fs, x + 1, z) /\ sh[k] \in Seq(W)
    BY <2>2, <2>4
  <2>6. Len(sh[k]) = z - x
    BY <2>1, <2>3, <2>5 DEF Part
  <2>7. ASSUME NEW m \in 1..Len(sh[k]) PROVE sh[k][m] = fs[x + m]
    <3>1. sh[k][m] = fs[x + 1 + m - 1] /\ x + 1 + m - 1 = x + m
      BY <2>1, <2>5, <2>6 DEF Part
    <3> QED
      BY <3>1
  <2> QED
    BY <2>5, <2>6, <2>7 DEF x, z
<1>4. ASSUME NEW k \in 1..c, NEW m \in 1..Len(sh[k])
      PROVE  m <= per /\ (k - 1) * per + m \in 1..n
  <2> DEFINE x == (k - 1) * per
             y == k * per
             len == Len(sh[k])
  <2>1. x \in Nat /\ y = x + per /\ len = (IF y <= n THEN y ELSE n) - x
    BY <1>2, <1>3
  <2>2. m \in 1..len
    OBVIOUS
  <2> HIDE DEF x, y, len
  <2>3. m <= per /\ x + m \in 1..n
    BY <1>1, <2>1, <2>2
  <2> QED
    BY <2>3 DEF x
<1>5. ASSUME NEW i \in 1..n
      PROVE  \E k \in 1..c : \E m \in 1..Len(sh[k]) : i = (k - 1) * per + m
  <2> DEFINE d == (i - 1) \div per
             e == d * per
  <2>1. d \in Nat /\ e <= i - 1 /\ i - 1 < e + per /\ e \in Nat
    BY <1>1
  <2> HIDE DEF d
  <2>2. d + 1 \in 1..c
    <3>1. c <= d => c * per <= d * per
      BY <1>1, <2>1
    <3> DEFINE t == c * per
    <3>2. t \in Nat /\ t >= n /\ (c <= d => t <= e)
      BY <1>1, <3>1
    <3> HIDE DEF t, e
    <3>3. ~(c <= d)
      BY <1>1, <2>1, <3>2
    <3> QED
      BY <1>1, <2>1, <3>3
  <2>3. (d + 1) - 1 = d
    BY <2>1
  <2>4. /\ Len(sh[d + 1]) = hi(d + 1) - e
        /\ (d + 1) * per = e + per
    BY <1>2, <1>3, <2>2, <2>3
  <2> DEFINE h == (d + 1) * per
             len == Len(sh[d + 1])
  <2>5. h = e + per /\ len = (IF h <= n THEN h ELSE n) - e
    BY <2>4
  <2> HIDE DEF e, h, len
  <2>6. i - e \in 1..len /\ i = e + (i - e)
    BY <1>1, <2>1, <2>5
  <2> QED
    BY <2>2, <2>3, <2>6 DEF e, len
<1> QED
  BY <1>3, <1>4, <1>5 DEF Dealt

\* The threads share the rows: each row is one of one thread, and there once.
Splits(sh, rows) ==
    /\ \A k \in DOMAIN sh : IsInjective(Rows(sh[k])) /\ ToSet(Rows(sh[k])) \subseteq ToSet(rows)
    /\ \A k, j \in DOMAIN sh : k # j => ToSet(Rows(sh[k])) \cap ToSet(Rows(sh[j])) = {}
    /\ \A r \in ToSet(rows) : \E k \in DOMAIN sh : r \in ToSet(Rows(sh[k]))

LEMMA SharesSplit ==
    ASSUME NEW V, NEW fs \in Seq(Seq(V)), cores \in Nat \ {0}, NowhereTwice(fs)
    PROVE  /\ Splits(Shares(fs), Rows(fs))
           /\ \A k \in DOMAIN Shares(fs) : Shares(fs)[k] \in Seq(Seq(V))
<1> DEFINE n == Len(fs)
<1>1. PICK sh, per, c : sh = Shares(fs) /\ per = PerThread(n) /\ c = ShareCount(n)
  OBVIOUS
<1>2. Divided(sh, fs, per, c)
  BY <1>1, SharesDivide
<1>3. Dealt(sh, fs, per, c) /\ \A k \in 1..c : sh[k] \in Seq(Seq(V))
  BY <1>2, SharesDealt
<1>4. DOMAIN sh = 1..c /\ per \in Nat /\ c \in Nat
  BY <1>2 DEF Divided
<1>5. ASSUME NEW k \in 1..c
      PROVE  /\ HasElements(Rows(sh[k]), sh[k], Len(sh[k]))
             /\ NowhereTwice(sh[k]) => IsInjective(Rows(sh[k]))
  BY <1>3, RowsHold
<1>6. HasElements(Rows(fs), fs, n)
  BY RowsHold
<1>7. /\ \A k \in 1..c : \A m \in 1..Len(sh[k]) :
           m <= per /\ (k - 1) * per + m \in 1..n /\ sh[k][m] = fs[(k - 1) * per + m]
      /\ \A i \in 1..n : \E k \in 1..c : \E m \in 1..Len(sh[k]) : i = (k - 1) * per + m
  BY <1>3 DEF Dealt
<1>8. /\ \A i \in 1..n : IsInjective(fs[i])
      /\ \A i, j \in 1..n : i # j => ToSet(fs[i]) \cap ToSet(fs[j]) = {}
  BY DEF NowhereTwice
<1> HIDE DEF n
\* Two places of threads are the same only if the places in fs are.
<1>9. ASSUME NEW k \in 1..c, NEW j \in 1..c, NEW m \in 1..Len(sh[k]), NEW l \in 1..Len(sh[j]),
             k # j \/ m # l
      PROVE  ToSet(sh[k][m]) \cap ToSet(sh[j][l]) = {}
  <2>1. /\ m <= per /\ l <= per /\ 1 <= m /\ 1 <= l /\ m \in Nat /\ l \in Nat
        /\ k \in Nat \ {0} /\ j \in Nat \ {0}
    <3>1. m <= per /\ l <= per
      BY Zenon, <1>7
    <3>2. sh[k] \in Seq(Seq(V)) /\ sh[j] \in Seq(Seq(V))
      BY Zenon, <1>3
    <3>3. Len(sh[k]) \in Nat /\ Len(sh[j]) \in Nat
      BY <3>2
    <3> QED
      BY <1>4, <3>1, <3>3
  <2>2. (k - 1) * per + m # (j - 1) * per + l
    BY <1>4, <1>9, <2>1, PlaceUnique
  <2>3. /\ (k - 1) * per + m \in 1..n /\ (j - 1) * per + l \in 1..n
        /\ sh[k][m] = fs[(k - 1) * per + m] /\ sh[j][l] = fs[(j - 1) * per + l]
    BY <1>7
  <2> QED
    BY Zenon, <1>8, <2>2, <2>3
<1>10. ASSUME NEW k \in 1..c PROVE NowhereTwice(sh[k])
  <2>1. ASSUME NEW m \in 1..Len(sh[k]) PROVE IsInjective(sh[k][m])
    <3>1. (k - 1) * per + m \in 1..n /\ sh[k][m] = fs[(k - 1) * per + m]
      BY <1>7
    <3>2. IsInjective(fs[(k - 1) * per + m])
      BY Zenon, <1>8, <3>1
    <3> QED
      BY Zenon, <3>1, <3>2
  <2>2. \A m, l \in 1..Len(sh[k]) : m # l => ToSet(sh[k][m]) \cap ToSet(sh[k][l]) = {}
    BY <1>9
  <2> QED
    BY <2>1, <2>2 DEF NowhereTwice
<1>11. ASSUME NEW k \in 1..c
       PROVE  /\ \A m \in 1..Len(sh[k]) : ToSet(sh[k][m]) \subseteq ToSet(Rows(sh[k]))
              /\ \A r \in ToSet(Rows(sh[k])) : \E m \in 1..Len(sh[k]) : r \in ToSet(sh[k][m])
  BY <1>5 DEF HasElements
<1>12. /\ \A i \in 1..n : ToSet(fs[i]) \subseteq ToSet(Rows(fs))
       /\ \A r \in ToSet(Rows(fs)) : \E i \in 1..n : r \in ToSet(fs[i])
  BY <1>6 DEF HasElements
<1>13. ASSUME NEW k \in 1..c PROVE ToSet(Rows(sh[k])) \subseteq ToSet(Rows(fs))
  <2>1. \A m \in 1..Len(sh[k]) : ToSet(sh[k][m]) \subseteq ToSet(Rows(fs))
    BY Zenon, <1>7, <1>12
  <2> QED
    BY <1>11, <2>1
<1>14. ASSUME NEW k \in 1..c, NEW j \in 1..c, k # j
       PROVE  ToSet(Rows(sh[k])) \cap ToSet(Rows(sh[j])) = {}
  BY Zenon, <1>9, <1>11, <1>14
<1>15. ASSUME NEW r \in ToSet(Rows(fs)) PROVE \E k \in 1..c : r \in ToSet(Rows(sh[k]))
  <2>1. PICK i \in 1..n : r \in ToSet(fs[i])
    BY <1>12
  <2>2. PICK k \in 1..c : \E m \in 1..Len(sh[k]) : i = (k - 1) * per + m
    BY <1>7
  <2>3. PICK m \in 1..Len(sh[k]) : i = (k - 1) * per + m
    BY <2>2
  <2>4. sh[k][m] = fs[i]
    BY <1>7, <2>3
  <2> QED
    BY Zenon, <1>11, <2>1, <2>4
<1>16. Splits(sh, Rows(fs))
  BY <1>4, <1>5, <1>10, <1>13, <1>14, <1>15 DEF Splits
<1> QED
  BY <1>1, <1>3, <1>4, <1>16

\* One thread reads all files.
LEMMA OneShare ==
    ASSUME NEW W, NEW fs \in Seq(W), fs # <<>>, cores = 1
    PROVE  DOMAIN Shares(fs) = {1} /\ Shares(fs)[1] = fs
<1> DEFINE n == Len(fs)
<1>1. n \in Nat /\ n >= 1
  OBVIOUS
<1>2. PICK sh, per, c : sh = Shares(fs) /\ per = PerThread(n) /\ c = ShareCount(n)
  OBVIOUS
<1>3. Divided(sh, fs, per, c)
  BY <1>2, SharesDivide
<1>4. per = n
  BY <1>1, <1>2, PerThreadAtLeastOne
<1>5. c = 1
  <2>1. (n + n - 1) \div n = 1
    <3> HIDE DEF n
    <3> QED
      BY <1>1
  <2> QED
    BY <1>2, <1>4, <2>1 DEF ShareCount
<1>6. DOMAIN sh = {1}
  BY <1>3, <1>5 DEF Divided
<1>7. sh[1] = SubSeq(fs, (1 - 1) * per + 1, IF 1 * per <= n THEN 1 * per ELSE n)
  <2>1. \A k \in 1..c :
           sh[k] = SubSeq(fs, (k - 1) * per + 1, IF k * per <= n THEN k * per ELSE n)
    BY Zenon, <1>3 DEF Divided
  <2>2. 1 \in 1..c
    BY <1>5
  <2> QED
    BY Zenon, <2>1, <2>2
<1>8. (1 - 1) * per + 1 = 1 /\ (IF 1 * per <= n THEN 1 * per ELSE n) = n
  BY <1>1, <1>4
<1>9. sh[1] = SubSeq(fs, 1, n)
  BY <1>7, <1>8
<1>10. SubSeq(fs, 1, n) = fs
  <2> DEFINE s == SubSeq(fs, 1, n)
  <2>1. s \in Seq(W) /\ Len(s) = n /\ \A m \in 1..n : s[m] = fs[m]
    OBVIOUS
  <2> HIDE DEF s
  <2>2. s = fs
    BY <2>1
  <2> QED
    BY <2>2 DEF s
<1> QED
  BY <1>2, <1>6, <1>9, <1>10

----------------------------------------------------------------------------
(* The invariant.                                                          *)

R == Rows(files)

\* No row was inserted twice.
InsertedOnce == NowhereTwice(files) /\ \A i \in 1..Len(files) : ToSet(files[i]) \cap unused = {}

\* Threads run only while the scan receives from them, and only for a chunk
\* that begins among the rows counted.
ReadersInTime ==
    /\ pc # "receive" => DOMAIN shares = {}
    /\ pc = "receive" => start < total

\* INSERT only appends: the rows that were counted are still the first ones.
CountedFirst == ~dropped => total <= Len(R) /\ counted = { R[i] : i \in 1..total }

\* What the only thread has sent, or will send, to the chunk.
OneReader(rows) == Begins(rows, R) /\ Len(rows) >= total

\* With one thread the result is the beginning of the table, up to the chunk
\* that comes next or beyond what was counted.
OneThread ==
    cores = 1 /\ ~dropped =>
        /\ pc \in {"chunk", "receive", "done"} =>
               Begins(result, R) /\ (Len(result) >= start \/ Len(result) >= total)
        /\ pc = "done" => start >= total
        /\ pc = "receive" =>
               \/ DOMAIN shares = {1} /\ received = <<>> /\ OneReader(Rows(shares[1]))
               \/ DOMAIN shares = {} /\ OneReader(received)

\* What the threads have sent and will send has each row counted, and none twice.
Parted(sh, got) ==
    /\ IsInjective(got) /\ ToSet(got) \subseteq ToSet(R)
    /\ \A k \in DOMAIN sh :
           /\ IsInjective(Rows(sh[k]))
           /\ ToSet(Rows(sh[k])) \subseteq ToSet(R)
           /\ ToSet(Rows(sh[k])) \cap ToSet(got) = {}
    /\ \A k, j \in DOMAIN sh : k # j => ToSet(Rows(sh[k])) \cap ToSet(Rows(sh[j])) = {}
    /\ \A r \in counted : r \in ToSet(got) \/ \E k \in DOMAIN sh : r \in ToSet(Rows(sh[k]))

\* If the table fits in one chunk then the first chunk is the whole of it.
OneChunk ==
    ~dropped /\ Len(R) <= ChunkSize =>
        /\ pc = "chunk" => (start = 0 /\ result = <<>>) \/ (start >= total /\ Exact)
        /\ pc = "receive" => start = 0 /\ result = <<>> /\ Parted(shares, received)
        /\ pc = "done" => Exact

WellFormed == TypeOK /\ ReadersInTime /\ InsertedOnce
IInv == WellFormed /\ CountedFirst /\ OneThread /\ OneChunk

----------------------------------------------------------------------------
(* What the steps do to the rows.                                          *)

LEMMA SharesTyped ==
    ASSUME TypeOK
    PROVE  \A k \in DOMAIN Shares(files) : Shares(files)[k] \in Seq(Seq(Row))
<1>1. cores \in Nat \ {0} /\ files \in Seq(Seq(Row))
  BY CoreCountsAssumption DEF TypeOK
<1>2. PICK sh, per, c : sh = Shares(files) /\ per = PerThread(Len(files))
                        /\ c = ShareCount(Len(files))
  OBVIOUS
<1>3. Divided(sh, files, per, c)
  BY <1>1, <1>2, SharesDivide
<1>4. (\A k \in 1..c : sh[k] \in Seq(Seq(Row))) /\ DOMAIN sh = 1..c
  BY <1>1, <1>3, SharesDealt DEF Divided
<1> QED
  BY <1>2, <1>4

LEMMA SliceIs ==
    ASSUME NEW V, NEW rows \in Seq(V), start \in Nat
    PROVE  /\ Slice(rows) \in Seq(V) /\ Len(Slice(rows)) <= ChunkSize
           /\ start <= Len(rows) =>
                  Part(Slice(rows), rows, start + 1,
                       IF start + ChunkSize <= Len(rows) THEN start + ChunkSize ELSE Len(rows))
<1> DEFINE n == Len(rows)
           e == IF start + ChunkSize <= n THEN start + ChunkSize ELSE n
<1>1. n \in Nat /\ ChunkSize \in Nat /\ start + ChunkSize \in Nat
  BY ChunkSizeAssumption
<1>2. Min({start + ChunkSize, n}) = e
  BY <1>1, MinOfTwo
<1>3. Slice(rows) = SubSeq(rows, start + 1, e)
  BY <1>2 DEF Slice
<1> HIDE DEF n
<1>4. CASE start <= n
  <2>1. /\ start + 1 \in Nat /\ e \in Nat /\ 1 <= start + 1 /\ start + 1 <= e + 1 /\ e <= n
        /\ e + 1 - (start + 1) <= ChunkSize
    BY <1>1, <1>4
  <2> HIDE DEF e
  <2>2. SubSeq(rows, start + 1, e) \in Seq(V) /\ Part(SubSeq(rows, start + 1, e), rows, start + 1, e)
    BY <2>1, SubSeqPart DEF n
  <2>3. Len(SubSeq(rows, start + 1, e)) <= ChunkSize
    BY <2>1, <2>2 DEF Part
  <2> QED
    BY <1>3, <2>2, <2>3 DEF e, n
<1>5. CASE ~(start <= n)
  <2>1. e \in Nat /\ e < start + 1
    BY <1>1, <1>5
  <2> HIDE DEF e
  <2>2. SubSeq(rows, start + 1, e) = <<>>
    BY <2>1
  <2>3. Slice(rows) \in Seq(V) /\ Len(Slice(rows)) <= ChunkSize
    <3>1. Slice(rows) = <<>>
      BY Zenon, <1>3, <2>2
    <3> QED
      BY <1>1, <3>1
  <2> QED
    BY <1>5, <2>3 DEF n
<1> QED
  BY <1>4, <1>5

LEMMA InsertAppends ==
    ASSUME WellFormed, NEW batch \in SUBSET unused, Insert(batch)
    PROVE  /\ SetToSeq(batch) \in Seq(Row) /\ IsInjective(SetToSeq(batch))
           /\ ToSet(SetToSeq(batch)) \subseteq batch
           /\ files' = Append(files, SetToSeq(batch))
           /\ files \in Seq(Seq(Row)) /\ R' = R \o SetToSeq(batch)
<1> DEFINE f == SetToSeq(batch)
<1>1. f \in Seq(batch) /\ IsInjective(f) /\ ToSet(f) \subseteq batch
  BY SetAsList DEF Insert
<1>2. batch \subseteq Row /\ files \in Seq(Seq(Row))
  BY DEF WellFormed, TypeOK
<1> HIDE DEF f
<1>3. f \in Seq(Row)
  BY <1>1, <1>2
<1>4. files' = Append(files, f)
  BY DEF Insert, f
<1>5. Rows(Append(files, f)) = Rows(files) \o f
  BY <1>2, <1>3, RowsAppend
<1>6. R' = R \o f
  BY <1>4, <1>5 DEF R
<1> QED
  BY <1>1, <1>2, <1>3, <1>4, <1>6 DEF f

\* While the table is not dropped its rows stay where they are.
RowsGrow == R' \in Seq(Row) /\ Begins(R, R') /\ ToSet(R) \subseteq ToSet(R')

LEMMA RowsOnlyGrow ==
    ASSUME WellFormed, [Next]_vars, ~dropped'
    PROVE  R \in Seq(Row) /\ RowsGrow
<1>1. files \in Seq(Seq(Row))
  BY DEF WellFormed, TypeOK
<1>2. R \in Seq(Row)
  BY <1>1, RowsTyped DEF R
<1>3. CASE files' = files
  <2>1. R' = R
    BY <1>3 DEF R
  <2> QED
    BY <1>2, <2>1 DEF RowsGrow, Begins
<1>4. ASSUME NEW batch \in SUBSET unused, Insert(batch)
      PROVE  RowsGrow
  <2> DEFINE f == SetToSeq(batch)
  <2>1. f \in Seq(Row) /\ R' = R \o f
    BY <1>4, InsertAppends
  <2> HIDE DEF f
  <2>2. R \o f \in Seq(Row) /\ ToSet(R \o f) = ToSet(R) \cup ToSet(f)
    BY <1>2, <2>1, JoinedElements
  <2>3. Begins(R, R \o f)
    <3> DEFINE r == R
    <3>1. r \in Seq(Row)
      BY <1>2
    <3> HIDE DEF r
    <3>2. Begins(r, r \o f)
      BY <2>1, <3>1 DEF Begins
    <3> QED
      BY <3>2 DEF r
  <2> QED
    BY <2>1, <2>2, <2>3 DEF RowsGrow
<1>5. files' = files \/ \E batch \in SUBSET unused : Insert(batch)
  BY DEF Next, vars, table, ScanStep, DropAllTables, CreateTable, Begin, ReadChunk, EndChunk,
         End, Answer, Send, Cancelled
<1> QED
  BY <1>2, <1>3, <1>4, <1>5

----------------------------------------------------------------------------
(* The invariant holds at first.                                           *)

LEMMA InitHolds ==
    ASSUME Init
    PROVE  IInv
<1>1. <<>> \in Seq(Row) /\ <<>> \in Seq(Seq(Row)) /\ Len(<<>>) = 0
  OBVIOUS
<1>2. WellFormed
  <2>1. TypeOK
    <3>1. total \in Nat /\ start \in Nat /\ Len(result) <= start /\ start < total + ChunkSize
      BY <1>1, ChunkSizeAssumption DEF Init
    <3>2. \A k \in DOMAIN shares : shares[k] \in Seq(Seq(Row))
      BY DEF Init
    <3> QED
      BY Zenon, <1>1, <3>1, <3>2 DEF Init, TypeOK
  <2>2. ReadersInTime /\ InsertedOnce
    BY DEF Init, ReadersInTime, InsertedOnce, NowhereTwice
  <2> QED
    BY <2>1, <2>2 DEF WellFormed
<1>3. CountedFirst
  <2>1. files \in Seq(Seq(Row)) /\ R \in Seq(Row)
    BY <1>1, RowsTyped DEF Init, R
  <2>2. Len(R) \in Nat
    BY <2>1
  <2>3. total = 0 /\ counted = {}
    BY DEF Init
  <2> QED
    BY <2>2, <2>3 DEF CountedFirst
<1>4. pc = "idle"
  BY DEF Init
<1> QED
  BY <1>2, <1>3, <1>4 DEF IInv, OneThread, OneChunk

----------------------------------------------------------------------------
(* Every step keeps the rows typed and each row inserted once.             *)

LEMMA InsertKeepsOnce ==
    ASSUME WellFormed, NEW batch \in SUBSET unused, Insert(batch)
    PROVE  InsertedOnce'
<1> DEFINE f == SetToSeq(batch)
           n == Len(files)
<1>1. /\ IsInjective(f) /\ ToSet(f) \subseteq batch /\ f \in Seq(Row)
      /\ files' = Append(files, f) /\ files \in Seq(Seq(Row))
  BY InsertAppends
<1>2. unused' = unused \ batch
  BY DEF Insert
<1> HIDE DEF f
<1>3. /\ n \in Nat /\ Len(files') = n + 1 /\ files'[n + 1] = f
      /\ \A i \in 1..n : files'[i] = files[i]
  BY <1>1
<1>4. /\ \A i \in 1..n : IsInjective(files[i]) /\ ToSet(files[i]) \cap unused = {}
      /\ \A i, j \in 1..n : i # j => ToSet(files[i]) \cap ToSet(files[j]) = {}
  BY DEF WellFormed, InsertedOnce, NowhereTwice
<1> HIDE DEF n
<1>5. \A i \in 1..(n + 1) : i \in 1..n \/ i = n + 1
  BY <1>3
<1>6. \A i \in 1..n : ToSet(files[i]) \cap ToSet(f) = {}
  BY <1>1, <1>4
<1>7. \A i \in 1..(n + 1) : IsInjective(files'[i]) /\ ToSet(files'[i]) \cap unused' = {}
  <2> SUFFICES ASSUME NEW i \in 1..(n + 1)
               PROVE  IsInjective(files'[i]) /\ ToSet(files'[i]) \cap unused' = {}
    OBVIOUS
  <2>1. CASE i \in 1..n
    BY <1>2, <1>3, <1>4, <2>1
  <2>2. CASE i = n + 1
    BY <1>1, <1>2, <1>3, <2>2
  <2> QED
    BY <1>5, <2>1, <2>2
<1>8. ASSUME NEW i \in 1..(n + 1), NEW j \in 1..(n + 1), i # j
      PROVE  ToSet(files'[i]) \cap ToSet(files'[j]) = {}
  <2>1. CASE i \in 1..n /\ j \in 1..n
    BY Zenon, <1>3, <1>4, <1>8, <2>1
  <2>2. CASE i = n + 1 /\ j \in 1..n
    BY <1>3, <1>6, <2>2
  <2>3. CASE i \in 1..n /\ j = n + 1
    BY <1>3, <1>6, <2>3
  <2> QED
    BY <1>5, <1>8, <2>1, <2>2, <2>3
<1> QED
  BY <1>3, <1>7, <1>8 DEF InsertedOnce, NowhereTwice

LEMMA WellFormedStep ==
    ASSUME WellFormed, [Next]_vars
    PROVE  WellFormed'
<1> USE DEF TypeOK, ReadersInTime
<1>1. TypeOK /\ ReadersInTime /\ InsertedOnce
  BY DEF WellFormed
<1>2. UNCHANGED <<files, unused>> => InsertedOnce'
  BY <1>1 DEF InsertedOnce
<1>3. files \in Seq(Seq(Row)) /\ <<>> \in Seq(Row) /\ <<>> \in Seq(Seq(Row)) /\ Len(<<>>) = 0
  BY <1>1
<1>4. ASSUME NEW batch \in SUBSET unused, Insert(batch) PROVE WellFormed'
  <2>1. InsertedOnce'
    BY <1>4, InsertKeepsOnce
  <2>2. files' \in Seq(Seq(Row))
    <3>1. SetToSeq(batch) \in Seq(Row) /\ files' = Append(files, SetToSeq(batch))
      BY <1>4, InsertAppends
    <3> QED
      BY <1>3, <3>1
  <2>3. unused' \subseteq Row
    BY <1>1, <1>4 DEF Insert
  <2>4. TypeOK' /\ ReadersInTime'
    BY <1>1, <1>4, <2>2, <2>3 DEF Insert, scan
  <2> QED
    BY <2>1, <2>4 DEF WellFormed
<1>5. CASE DropAllTables
  <2>1. files' = <<>> /\ exists' = FALSE /\ dropped' = TRUE
        /\ UNCHANGED <<cores, unused, pc, total, start, received, result, counted>>
    BY <1>5 DEF DropAllTables
  <2>2. DOMAIN shares' = DOMAIN shares /\ \A k \in DOMAIN shares' : shares'[k] \in Seq(Seq(Row))
    <3>1. PICK opened \in SUBSET ToSet(files) :
              shares' = [k \in DOMAIN shares |->
                  Retained(shares[k], { i \in 1..Len(shares[k]) : shares[k][i] \in opened })]
      BY <1>5 DEF DropAllTables
    <3>2. \A k \in DOMAIN shares :
              Retained(shares[k], { i \in 1..Len(shares[k]) : shares[k][i] \in opened }) \in Seq(Seq(Row))
      BY <1>1, RetainedPicks
    <3> QED
      BY <3>1, <3>2
  <2>3. InsertedOnce'
    BY <2>1 DEF InsertedOnce, NowhereTwice
  <2>4. TypeOK' /\ ReadersInTime'
    BY <1>1, <1>3, <2>1, <2>2
  <2> QED
    BY <2>3, <2>4 DEF WellFormed
<1>6. CASE CreateTable
  BY <1>1, <1>2, <1>6 DEF CreateTable, scan, WellFormed
<1>7. CASE Begin
  <2>1. R \in Seq(Row)
    BY <1>3, RowsTyped DEF R
  <2>2. Len(R) \in Nat /\ ToSet(R) \subseteq Row
    BY <2>1 DEF ToSet
  <2>3. total' = Len(R) /\ counted' = ToSet(R)
    BY <1>7 DEF Begin, R
  <2>4. 0 < Len(R) + ChunkSize
    BY <2>2, ChunkSizeAssumption
  <2>5. start' = 0 /\ result' = <<>> /\ dropped' = FALSE /\ pc' = "chunk" /\ pc = "idle"
        /\ UNCHANGED <<cores, table, shares, received>>
    BY <1>7 DEF Begin
  <2>6. TypeOK' /\ ReadersInTime'
    <3>1. total' \in Nat /\ start' \in Nat /\ Len(result') <= start' /\ start' < total' + ChunkSize
      BY <1>3, <2>2, <2>3, <2>4, <2>5
    <3>2. UNCHANGED <<cores, exists, files, unused, shares, received>>
      BY <2>5 DEF table
    <3> QED
      BY <1>1, <1>3, <2>2, <2>3, <2>5, <3>1, <3>2
  <2> QED
    BY <1>2, <2>5, <2>6 DEF WellFormed, table
<1>8. CASE ReadChunk
  <2>1. /\ pc = "chunk" /\ start < total
        /\ UNCHANGED <<cores, table, total, start, result, counted, dropped>>
    BY <1>8 DEF ReadChunk
  <2>2. CASE pc' = "receive" /\ shares' = Shares(files) /\ received' = <<>>
    <3>1. \A k \in DOMAIN shares' : shares'[k] \in Seq(Seq(Row))
      BY <1>1, <2>2, SharesTyped
    <3>2. TypeOK' /\ ReadersInTime'
      BY <1>1, <1>3, <2>1, <2>2, <3>1 DEF table
    <3> QED
      BY <1>2, <2>1, <3>2 DEF WellFormed, table
  <2>3. CASE pc' = "failed" /\ UNCHANGED <<shares, received>>
    BY <1>1, <1>2, <2>1, <2>3 DEF WellFormed, table
  <2> QED
    BY <1>8, <2>2, <2>3 DEF ReadChunk
<1>9. CASE Cancelled
  BY <1>1, <1>2, <1>9 DEF Cancelled, table, WellFormed
<1>10. ASSUME NEW k \in DOMAIN shares, Send(k) PROVE WellFormed'
  <2>1. received' = received \o Rows(shares[k])
        /\ shares' = [j \in DOMAIN shares \ {k} |-> shares[j]]
        /\ pc = "receive" /\ UNCHANGED <<cores, table, pc, total, start, result, counted, dropped>>
    BY <1>10 DEF Send
  <2>2. shares[k] \in Seq(Seq(Row)) /\ received \in Seq(Row)
    BY <1>1
  <2>3. received' \in Seq(Row)
    <3>1. Rows(shares[k]) \in Seq(Row)
      BY <2>2, RowsTyped
    <3> QED
      BY <2>1, <2>2, <3>1
  <2>4. \A j \in DOMAIN shares' : shares'[j] \in Seq(Seq(Row))
    BY <1>1, <2>1
  <2>5. TypeOK' /\ ReadersInTime'
    BY <1>1, <2>1, <2>3, <2>4 DEF table
  <2> QED
    BY <1>2, <2>1, <2>5 DEF WellFormed, table
<1>11. CASE EndChunk
  <2>1. result' = result \o Slice(received) /\ start' = start + ChunkSize /\ received' = <<>>
        /\ pc = "receive" /\ pc' = "chunk" /\ DOMAIN shares = {}
        /\ UNCHANGED <<cores, table, total, shares, counted, dropped>>
    BY <1>11 DEF EndChunk, Closed
  <2> DEFINE s == Slice(received)
  <2>2. s \in Seq(Row) /\ Len(s) <= ChunkSize
    BY <1>1, SliceIs
  <2> HIDE DEF s
  <2>3. result' \in Seq(Row) /\ Len(result') = Len(result) + Len(s)
    BY <1>1, <2>1, <2>2, JoinedElements DEF s
  <2>4. Len(result') <= start' /\ start' < total' + ChunkSize /\ start' \in Nat
    <3>1. Len(result) \in Nat /\ Len(s) \in Nat /\ ChunkSize \in Nat
      BY <1>1, <2>2, ChunkSizeAssumption
    <3>2. start \in Nat /\ total \in Nat /\ Len(result) <= start /\ start < total /\ total' = total
      BY <1>1, <2>1
    <3> QED
      BY <2>1, <2>2, <2>3, <3>1, <3>2
  <2>5. TypeOK' /\ ReadersInTime'
    BY <1>1, <1>3, <2>1, <2>3, <2>4 DEF table
  <2> QED
    BY <1>2, <2>1, <2>5 DEF WellFormed, table
<1>12. CASE End
  BY <1>1, <1>2, <1>12 DEF End, table, WellFormed
<1>13. CASE Answer
  BY <1>1, <1>2, <1>13 DEF Answer, table, WellFormed
<1>14. CASE UNCHANGED vars
  BY <1>1, <1>2, <1>14 DEF vars, table, scan, WellFormed
<1> QED
  BY <1>4, <1>5, <1>6, <1>7, <1>8, <1>9, <1>10, <1>11, <1>12, <1>13, <1>14 DEF Next, ScanStep

----------------------------------------------------------------------------
(* Every step keeps what the scan has read in step with the table.         *)

LEMMA BeginsAgain ==
    ASSUME NEW V, NEW s \in Seq(V), NEW t \in Seq(V), NEW u \in Seq(V), Begins(s, t), Begins(t, u)
    PROVE  Begins(s, u)
<1>1. Len(s) \in Nat /\ Len(t) \in Nat /\ Len(u) \in Nat
  OBVIOUS
<1>2. Len(s) <= Len(t) /\ Len(t) <= Len(u) /\ \A i \in 1..Len(s) : s[i] = t[i]
  BY DEF Begins
<1>3. \A i \in 1..Len(t) : t[i] = u[i]
  BY DEF Begins
<1>4. \A i \in 1..Len(s) : i \in 1..Len(t)
  BY <1>1, <1>2
<1>5. \A i \in 1..Len(s) : s[i] = u[i]
  BY <1>2, <1>3, <1>4
<1> QED
  BY <1>1, <1>2, <1>5 DEF Begins

\* A step that begins no scan and keeps the table leaves what was counted alone.
LEMMA CountedStep ==
    ASSUME WellFormed, CountedFirst, [Next]_vars
    PROVE  CountedFirst'
<1> SUFFICES ASSUME ~dropped'
             PROVE  total' <= Len(R') /\ counted' = { R'[i] : i \in 1..total' }
  BY DEF CountedFirst
<1>1. R \in Seq(Row) /\ R' \in Seq(Row) /\ Begins(R, R') /\ Len(R) \in Nat /\ Len(R') \in Nat
  <2>1. R \in Seq(Row) /\ R' \in Seq(Row) /\ Begins(R, R')
    BY RowsOnlyGrow DEF RowsGrow
  <2> QED
    BY <2>1
<1>2. CASE Begin
  <2>1. total' = Len(R) /\ counted' = ToSet(R) /\ files' = files
    BY <1>2 DEF Begin, R, table
  <2>2. R' = R
    BY <2>1 DEF R
  <2>3. DOMAIN R = 1..Len(R)
    BY <1>1
  <2>4. counted' = { R[i] : i \in 1..Len(R) }
    BY <2>1, <2>3 DEF ToSet
  <2> QED
    BY <1>1, <2>1, <2>2, <2>4
<1>3. CASE UNCHANGED <<total, counted, dropped>>
  <2>1. total <= Len(R) /\ counted = { R[i] : i \in 1..total }
    BY <1>3 DEF CountedFirst
  <2>2. total \in Nat
    BY DEF WellFormed, TypeOK
  <2>3. \A i \in 1..total : R'[i] = R[i]
    <3>1. \A i \in 1..total : i \in 1..Len(R)
      BY <1>1, <2>1, <2>2
    <3> QED
      BY <1>1, <3>1 DEF Begins
  <2>4. { R'[i] : i \in 1..total } = { R[i] : i \in 1..total }
    BY <2>3
  <2>5. total <= Len(R')
    <3>1. Len(R) <= Len(R')
      BY <1>1 DEF Begins
    <3> QED
      BY <1>1, <2>1, <2>2, <3>1
  <2> QED
    BY <1>3, <2>1, <2>4, <2>5
<1> QED
  BY <1>2, <1>3 DEF Next, vars, scan, ScanStep, Insert, DropAllTables, CreateTable, ReadChunk,
                    EndChunk, End, Answer, Send, Cancelled

\* What begins the table still does when it grows.
LEMMA BeginningStays ==
    ASSUME WellFormed, [Next]_vars, ~dropped'
    PROVE  \A s \in Seq(Row) : Begins(s, R) => Begins(s, R')
<1>1. R \in Seq(Row) /\ R' \in Seq(Row) /\ Begins(R, R')
  BY RowsOnlyGrow DEF RowsGrow
<1> QED
  BY <1>1, BeginsAgain

\* The chunk of one reader continues the result.
LEMMA ChunkContinues ==
    ASSUME WellFormed, cores = 1, ~dropped, OneThread, EndChunk
    PROVE  LET next == result \o Slice(received)
           IN  /\ Begins(next, R)
               /\ Len(next) >= start + ChunkSize \/ Len(next) >= total
<1> DEFINE s == Slice(received)
           n == Len(received)
           e == IF start + ChunkSize <= n THEN start + ChunkSize ELSE n
<1>1. /\ received \in Seq(Row) /\ result \in Seq(Row) /\ start \in Nat /\ total \in Nat
      /\ Len(result) <= start
  BY DEF WellFormed, TypeOK
<1>2. start < total
  BY DEF WellFormed, ReadersInTime, EndChunk
<1>3. OneReader(received)
  BY DEF OneThread, EndChunk, Closed
<1>4. Begins(result, R) /\ (Len(result) >= start \/ Len(result) >= total)
  BY DEF OneThread, EndChunk
<1>5. Len(result) = start
  <2>1. Len(result) \in Nat
    BY <1>1
  <2> QED
    BY <1>1, <1>2, <1>4, <2>1
<1>6. R \in Seq(Row)
  BY RowsTyped DEF WellFormed, TypeOK, R
<1>7. PICK r : r = R
  OBVIOUS
<1>8. r \in Seq(Row) /\ Len(r) \in Nat /\ n \in Nat /\ ChunkSize \in Nat \ {0}
  BY <1>1, <1>6, <1>7, ChunkSizeAssumption
<1>9. n <= Len(r) /\ n >= total /\ \A i \in 1..n : received[i] = r[i]
  BY <1>3, <1>7 DEF OneReader, Begins
<1>10. \A i \in 1..start : result[i] = r[i]
  BY <1>4, <1>5, <1>7 DEF Begins
<1>11. start <= n
  BY <1>1, <1>2, <1>8, <1>9
<1>12. s \in Seq(Row) /\ Part(s, received, start + 1, e)
  BY <1>1, <1>11, SliceIs
<1> HIDE DEF s, n
<1>13. e \in Nat /\ e <= n /\ start <= e /\ (e >= start + ChunkSize \/ e >= total)
  BY <1>1, <1>2, <1>8, <1>9, <1>11
<1> HIDE DEF e
<1>14. Len(s) = e - start /\ \A m \in 1..Len(s) : s[m] = received[start + m]
  <2>1. Len(s) = e + 1 - (start + 1) /\ \A m \in 1..Len(s) : s[m] = received[start + 1 + m - 1]
    BY <1>12 DEF Part
  <2>2. \A m \in 1..Len(s) : start + 1 + m - 1 = start + m
    BY <1>1, <1>12
  <2>3. \A m \in 1..Len(s) : s[m] = received[start + m]
    BY <2>1, <2>2
  <2> QED
    BY <1>1, <1>13, <2>1, <2>3
<1>15. Len(result \o s) = e /\ \A i \in 1..e : (result \o s)[i] = IF i <= start THEN result[i] ELSE s[i - start]
  BY <1>1, <1>5, <1>12, <1>13, <1>14
<1>16. \A i \in 1..e : (result \o s)[i] = r[i]
  <2> SUFFICES ASSUME NEW i \in 1..e PROVE (result \o s)[i] = r[i]
    OBVIOUS
  <2>1. CASE i <= start
    <3>1. i \in 1..start
      BY <1>13, <2>1
    <3> QED
      BY <1>10, <1>15, <2>1, <3>1
  <2>2. CASE ~(i <= start)
    <3>1. i - start \in 1..Len(s) /\ start + (i - start) = i /\ i \in 1..n
      BY <1>1, <1>8, <1>13, <1>14, <2>2
    <3>2. s[i - start] = received[i]
      BY <1>14, <3>1
    <3> QED
      BY <1>9, <1>15, <2>2, <3>1, <3>2
  <2> QED
    BY <2>1, <2>2
<1>17. Begins(result \o s, r)
  <2>1. e <= Len(r)
    BY <1>8, <1>9, <1>13
  <2> QED
    BY <1>15, <1>16, <2>1 DEF Begins
<1> QED
  BY <1>7, <1>13, <1>15, <1>17 DEF s

LEMMA OneThreadStep ==
    ASSUME WellFormed, CountedFirst, OneThread, [Next]_vars
    PROVE  OneThread'
<1> SUFFICES ASSUME cores' = 1, ~dropped'
             PROVE  /\ pc' \in {"chunk", "receive", "done"} =>
                           /\ Begins(result', R')
                           /\ Len(result') >= start' \/ Len(result') >= total'
                    /\ pc' = "done" => start' >= total'
                    /\ pc' = "receive" =>
                           \/ /\ DOMAIN shares' = {1} /\ received' = <<>>
                              /\ Begins(Rows(shares'[1]), R') /\ Len(Rows(shares'[1])) >= total'
                           \/ DOMAIN shares' = {} /\ Begins(received', R') /\ Len(received') >= total'
  BY DEF OneThread, OneReader
<1>1. \A s \in Seq(Row) : Begins(s, R) => Begins(s, R')
  BY BeginningStays
<1>2. /\ result \in Seq(Row) /\ received \in Seq(Row) /\ start \in Nat /\ total \in Nat
      /\ \A k \in DOMAIN shares : shares[k] \in Seq(Seq(Row))
      /\ files \in Seq(Seq(Row))
  BY DEF WellFormed, TypeOK
<1>3. \A k \in DOMAIN shares : Rows(shares[k]) \in Seq(Row)
  BY <1>2, RowsTyped
<1>4. cores = 1
  BY DEF Next, vars, scan, table, ScanStep, Insert, DropAllTables, CreateTable, Begin, ReadChunk,
         EndChunk, End, Answer, Send, Cancelled
<1>5. ~dropped =>
        /\ pc \in {"chunk", "receive", "done"} =>
               Begins(result, R) /\ (Len(result) >= start \/ Len(result) >= total)
        /\ pc = "done" => start >= total
        /\ pc = "receive" =>
               \/ /\ DOMAIN shares = {1} /\ received = <<>>
                  /\ Begins(Rows(shares[1]), R) /\ Len(Rows(shares[1])) >= total
               \/ DOMAIN shares = {} /\ Begins(received, R) /\ Len(received) >= total
  BY <1>4 DEF OneThread, OneReader
<1>6. CASE UNCHANGED <<scan, dropped>>
  BY <1>1, <1>2, <1>3, <1>5, <1>6 DEF scan
<1>7. CASE Begin
  <2>1. pc' = "chunk" /\ start' = 0 /\ result' = <<>> /\ total' = Len(R)
    BY <1>7 DEF Begin, R
  <2>2. R' \in Seq(Row)
    BY RowsOnlyGrow DEF RowsGrow
  <2>3. Begins(<<>>, R') /\ Len(<<>>) >= 0
    BY <2>2 DEF Begins
  <2> QED
    BY <2>1, <2>3
<1>8. CASE ReadChunk
  <2>1. /\ pc = "chunk" /\ start < total
        /\ UNCHANGED <<cores, table, total, start, result, counted, dropped>>
    BY <1>8 DEF ReadChunk
  <2>2. Begins(result', R') /\ (Len(result') >= start' \/ Len(result') >= total')
    BY <1>1, <1>2, <1>5, <2>1
  <2>3. CASE pc' = "receive" /\ shares' = Shares(files) /\ received' = <<>>
    <3>1. R \in Seq(Row) /\ total <= Len(R)
      BY <1>2, <2>1, RowsTyped DEF R, CountedFirst
    <3>2. files # <<>>
      <4>1. ASSUME files = <<>> PROVE FALSE
        <5>1. HasElements(R, files, Len(files)) /\ Len(files) = 0
          BY <1>2, <4>1, RowsHold DEF R
        <5>2. ToSet(R) = {}
          BY <5>1 DEF HasElements
        <5>3. Len(R) > 0 /\ Len(R) \in Nat /\ DOMAIN R = 1..Len(R)
          BY <1>2, <2>1, <3>1
        <5>4. 1 \in DOMAIN R
          BY <5>3
        <5> QED
          BY <5>2, <5>4 DEF ToSet
      <4> QED
        BY <4>1
    <3>3. DOMAIN Shares(files) = {1} /\ Shares(files)[1] = files
      BY <1>2, <1>4, <3>2, OneShare
    <3>4. Rows(shares'[1]) = R /\ R' = R
      BY <2>1, <2>3, <3>3 DEF R, table
    <3>5. Begins(R, R) /\ Len(R) >= total
      BY <1>2, <3>1 DEF Begins
    <3>6. DOMAIN shares' = {1} /\ Begins(Rows(shares'[1]), R') /\ Len(Rows(shares'[1])) >= total'
      BY <2>1, <2>3, <3>3, <3>4, <3>5
    <3> QED
      BY <2>2, <2>3, <3>6
  <2>4. CASE pc' = "failed"
    BY <2>4
  <2> QED
    BY <1>8, <2>3, <2>4 DEF ReadChunk
<1>9. CASE Cancelled
  BY <1>9 DEF Cancelled
<1>10. ASSUME NEW k \in DOMAIN shares, Send(k)
       PROVE  /\ pc' = "receive"
              /\ Begins(result', R') /\ (Len(result') >= start' \/ Len(result') >= total')
              /\ DOMAIN shares' = {} /\ Begins(received', R') /\ Len(received') >= total'
  <2>1. /\ pc = "receive" /\ received' = received \o Rows(shares[k])
        /\ shares' = [j \in DOMAIN shares \ {k} |-> shares[j]]
        /\ UNCHANGED <<cores, table, pc, total, start, result, counted, dropped>>
    BY <1>10 DEF Send
  <2>2. /\ DOMAIN shares = {1} /\ received = <<>> /\ k = 1
        /\ Begins(Rows(shares[1]), R) /\ Len(Rows(shares[1])) >= total
    BY <1>5, <1>10, <2>1
  <2>3. DOMAIN shares' = {}
    BY <2>1, <2>2
  <2>4. received' = Rows(shares[1])
    <3>1. Rows(shares[1]) \in Seq(Row)
      BY <1>3, <2>2
    <3> QED
      BY <2>1, <2>2, <3>1
  <2>5. Begins(received', R') /\ Len(received') >= total'
    BY <1>1, <1>3, <2>1, <2>2, <2>4
  <2>6. Begins(result', R') /\ (Len(result') >= start' \/ Len(result') >= total')
    BY <1>1, <1>2, <1>5, <2>1
  <2> QED
    BY <2>1, <2>3, <2>5, <2>6
<1>11. CASE EndChunk
  <2>1. /\ pc' = "chunk" /\ result' = result \o Slice(received) /\ start' = start + ChunkSize
        /\ UNCHANGED <<cores, table, total, shares, counted, dropped>>
    BY <1>11 DEF EndChunk
  <2>2. R' = R
    BY <2>1 DEF R, table
  <2>3. /\ Begins(result', R)
        /\ Len(result') >= start + ChunkSize \/ Len(result') >= total
    BY <1>4, <1>11, <2>1, ChunkContinues
  <2> QED
    BY <2>1, <2>2, <2>3
<1>12. CASE End
  <2>1. pc = "chunk" /\ pc' = "done" /\ start >= total
        /\ UNCHANGED <<cores, table, total, start, shares, received, result, counted, dropped>>
    BY <1>12 DEF End
  <2> QED
    BY <1>1, <1>2, <1>5, <2>1
<1>13. CASE Answer
  BY <1>13 DEF Answer
<1>14. (\E batch \in SUBSET unused : Insert(batch)) \/ CreateTable \/ UNCHANGED vars
       => UNCHANGED <<scan, dropped>>
  BY DEF Insert, CreateTable, vars, scan
<1>15. ~DropAllTables
  BY DEF DropAllTables
<1> QED
  BY <1>6, <1>7, <1>8, <1>9, <1>10, <1>11, <1>12, <1>13, <1>14, <1>15 DEF Next, ScanStep

\* A thread has sent its rows.
LEMMA SendKeepsParts ==
    ASSUME WellFormed, NEW k \in DOMAIN shares, Send(k), Parted(shares, received)
    PROVE  Parted(shares', received')
<1> DEFINE rows == Rows(shares[k])
<1>1. /\ received' = received \o rows
      /\ shares' = [j \in DOMAIN shares \ {k} |-> shares[j]]
  BY DEF Send
<1>2. received \in Seq(Row) /\ rows \in Seq(Row)
  <2>1. received \in Seq(Row) /\ shares[k] \in Seq(Seq(Row))
    BY DEF WellFormed, TypeOK
  <2> QED
    BY <2>1, RowsTyped
<1>3. PICK rest : rest = shares'
  OBVIOUS
<1>4. DOMAIN rest = DOMAIN shares \ {k} /\ \A j \in DOMAIN rest : rest[j] = shares[j]
  BY <1>1, <1>3
<1>5. /\ IsInjective(received) /\ ToSet(received) \subseteq ToSet(R)
      /\ IsInjective(rows) /\ ToSet(rows) \subseteq ToSet(R) /\ ToSet(rows) \cap ToSet(received) = {}
  BY DEF Parted
<1>6. \A j \in DOMAIN shares :
        /\ IsInjective(Rows(shares[j])) /\ ToSet(Rows(shares[j])) \subseteq ToSet(R)
        /\ ToSet(Rows(shares[j])) \cap ToSet(received) = {}
        /\ j # k => ToSet(Rows(shares[j])) \cap ToSet(rows) = {}
        /\ \A i \in DOMAIN shares : i # j => ToSet(Rows(shares[i])) \cap ToSet(Rows(shares[j])) = {}
  BY DEF Parted
<1>7. \A r \in counted : r \in ToSet(received) \/ \E j \in DOMAIN shares : r \in ToSet(Rows(shares[j]))
  BY DEF Parted
<1> HIDE DEF rows
<1>8. ToSet(received \o rows) = ToSet(received) \cup ToSet(rows) /\ IsInjective(received \o rows)
  <2>1. ToSet(received) \cap ToSet(rows) = {}
    BY <1>5
  <2> QED
    BY <1>2, <1>5, <2>1, JoinedElements, JoinedInjective
<1>9. \A j \in DOMAIN rest :
        /\ IsInjective(Rows(rest[j])) /\ ToSet(Rows(rest[j])) \subseteq ToSet(R)
        /\ ToSet(Rows(rest[j])) \cap ToSet(received \o rows) = {}
        /\ \A i \in DOMAIN rest : i # j => ToSet(Rows(rest[i])) \cap ToSet(Rows(rest[j])) = {}
  BY <1>4, <1>6, <1>8
<1>10. \A r \in counted : r \in ToSet(received \o rows) \/ \E j \in DOMAIN rest : r \in ToSet(Rows(rest[j]))
  BY <1>4, <1>7, <1>8 DEF rows
<1>11. Parted(rest, received \o rows)
  BY <1>5, <1>8, <1>9, <1>10 DEF Parted
<1> QED
  BY <1>1, <1>3, <1>11 DEF rows

\* Parts of the table are parts of it when it has grown.
LEMMA PartsStay ==
    ASSUME WellFormed, [Next]_vars, ~dropped', counted' = counted, NEW sh, NEW got, Parted(sh, got)
    PROVE  /\ IsInjective(got) /\ ToSet(got) \subseteq ToSet(R')
           /\ \A k \in DOMAIN sh :
                  /\ IsInjective(Rows(sh[k]))
                  /\ ToSet(Rows(sh[k])) \subseteq ToSet(R')
                  /\ ToSet(Rows(sh[k])) \cap ToSet(got) = {}
           /\ \A k, j \in DOMAIN sh : k # j => ToSet(Rows(sh[k])) \cap ToSet(Rows(sh[j])) = {}
           /\ \A r \in counted' : r \in ToSet(got) \/ \E k \in DOMAIN sh : r \in ToSet(Rows(sh[k]))
<1>1. ToSet(R) \subseteq ToSet(R')
  BY RowsOnlyGrow DEF RowsGrow
<1> QED
  BY <1>1 DEF Parted

LEMMA OneChunkStep ==
    ASSUME WellFormed, CountedFirst, OneChunk, [Next]_vars
    PROVE  OneChunk'
<1> SUFFICES ASSUME ~dropped', Len(R') <= ChunkSize
             PROVE  /\ pc' = "chunk" =>
                           (start' = 0 /\ result' = <<>>) \/ (start' >= total' /\ Exact')
                    /\ pc' = "receive" => start' = 0 /\ result' = <<>> /\ Parted(shares, received)'
                    /\ pc' = "done" => Exact'
  BY DEF OneChunk
<1>1. R \in Seq(Row) /\ R' \in Seq(Row) /\ Len(R) <= ChunkSize /\ Len(R) \in Nat /\ ChunkSize \in Nat \ {0}
  <2>1. R \in Seq(Row) /\ R' \in Seq(Row) /\ Begins(R, R')
    BY RowsOnlyGrow DEF RowsGrow
  <2>2. Len(R) <= Len(R') /\ Len(R) \in Nat /\ Len(R') \in Nat
    BY <2>1 DEF Begins
  <2> QED
    BY <2>1, <2>2, ChunkSizeAssumption
<1>2. /\ result \in Seq(Row) /\ received \in Seq(Row) /\ start \in Nat /\ total \in Nat
      /\ files \in Seq(Seq(Row)) /\ cores \in Nat \ {0}
  BY CoreCountsAssumption DEF WellFormed, TypeOK
<1>3. ~dropped =>
        /\ pc = "chunk" => (start = 0 /\ result = <<>>) \/ (start >= total /\ Exact)
        /\ pc = "receive" => start = 0 /\ result = <<>> /\ Parted(shares, received)
        /\ pc = "done" => Exact
        /\ total <= Len(R) /\ counted = { R[i] : i \in 1..total }
  BY <1>1 DEF OneChunk, CountedFirst
<1>4. UNCHANGED <<result, counted>> => (Exact => Exact')
  BY DEF Exact
<1>5. CASE UNCHANGED <<scan, dropped>>
  <2>1. UNCHANGED <<pc, total, start, shares, received, result, counted, dropped>>
    BY <1>5 DEF scan
  <2>2. ASSUME pc' = "receive" PROVE Parted(shares, received)'
    <3>1. Parted(shares, received)
      BY <1>3, <2>1, <2>2
    <3> QED
      BY <2>1, <3>1, PartsStay DEF Parted
  <2> QED
    BY <1>3, <1>4, <2>1, <2>2
<1>6. CASE Begin
  BY <1>6 DEF Begin
<1>7. CASE ReadChunk
  <2>1. /\ pc = "chunk" /\ start < total
        /\ UNCHANGED <<cores, table, total, start, result, counted, dropped>>
    BY <1>7 DEF ReadChunk
  <2>2. start = 0 /\ result = <<>>
    BY <1>2, <1>3, <2>1
  <2>3. CASE pc' = "receive" /\ shares' = Shares(files) /\ received' = <<>>
    <3>1. PICK sh : sh = Shares(files)
      OBVIOUS
    <3>2. Splits(sh, R)
      <4>1. NowhereTwice(files)
        BY DEF WellFormed, InsertedOnce
      <4> QED
        BY <1>2, <3>1, <4>1, SharesSplit DEF R
    <3>3. counted \subseteq ToSet(R)
      <4>1. DOMAIN R = 1..Len(R) /\ \A i \in 1..total : i \in 1..Len(R)
        BY <1>1, <1>2, <1>3, <2>1
      <4> QED
        BY <1>3, <2>1, <4>1 DEF ToSet
    <3>4. IsInjective(<<>>) /\ ToSet(<<>>) = {}
      BY DEF IsInjective, ToSet
    <3>5. Parted(sh, <<>>)
      BY <3>2, <3>3, <3>4 DEF Parted, Splits
    <3>6. R' = R
      BY <2>1 DEF R, table
    <3>7. Parted(shares, received)'
      BY <2>1, <2>3, <3>1, <3>5, <3>6 DEF Parted
    <3> QED
      BY <2>1, <2>2, <2>3, <3>7
  <2>4. CASE pc' = "failed"
    BY <2>4
  <2> QED
    BY <1>7, <2>3, <2>4 DEF ReadChunk
<1>8. CASE Cancelled
  BY <1>8 DEF Cancelled
<1>9. ASSUME NEW k \in DOMAIN shares, Send(k)
      PROVE  pc' = "receive" /\ start' = 0 /\ result' = <<>> /\ Parted(shares, received)'
  <2>1. /\ pc = "receive"
        /\ UNCHANGED <<cores, table, pc, total, start, result, counted, dropped>>
    BY <1>9 DEF Send
  <2>2. start = 0 /\ result = <<>> /\ Parted(shares, received)
    BY <1>3, <2>1
  <2>3. Parted(shares', received')
    BY <1>9, <2>2, SendKeepsParts
  <2>4. R' = R
    BY <2>1 DEF R, table
  <2>5. Parted(shares, received)'
    BY <2>1, <2>3, <2>4 DEF Parted
  <2> QED
    BY <2>1, <2>2, <2>5
<1>10. CASE EndChunk
  <2>1. /\ pc = "receive" /\ pc' = "chunk" /\ result' = result \o Slice(received)
        /\ start' = start + ChunkSize /\ DOMAIN shares = {}
        /\ UNCHANGED <<cores, table, total, shares, counted, dropped>>
    BY <1>10 DEF EndChunk, Closed
  <2>2. start = 0 /\ result = <<>> /\ Parted(shares, received)
    BY <1>3, <2>1
  <2>3. /\ IsInjective(received) /\ ToSet(received) \subseteq ToSet(R)
        /\ counted \subseteq ToSet(received)
    BY <2>1, <2>2 DEF Parted
  <2>4. Len(received) <= Len(R) /\ Len(received) \in Nat
    BY <1>1, <1>2, <2>3, InjectiveShorter
  <2>5. Slice(received) \in Seq(Row)
        /\ Part(Slice(received), received, start + 1,
                IF start + ChunkSize <= Len(received) THEN start + ChunkSize ELSE Len(received))
    <3>1. start <= Len(received)
      BY <2>2, <2>4
    <3> QED
      BY <1>2, <3>1, SliceIs
  <2>6. Slice(received) = received
    <3> DEFINE s == Slice(received)
               n == Len(received)
    <3>1. start + 1 = 1 /\ (IF start + ChunkSize <= n THEN start + ChunkSize ELSE n) = n
      BY <1>1, <2>2, <2>4
    <3>2. Part(s, received, 1, n) /\ s \in Seq(Row)
      BY <2>5, <3>1
    <3> HIDE DEF s
    <3>3. Len(s) = n
      BY <2>4, <3>2 DEF Part
    <3>4. \A m \in 1..n : s[m] = received[m]
      <4>1. \A m \in 1..n : s[m] = received[1 + m - 1]
        BY <3>2, <3>3 DEF Part
      <4>2. \A m \in 1..n : 1 + m - 1 = m
        BY <2>4
      <4> QED
        BY <4>1, <4>2
    <3>5. s = received
      <4>1. s \in Seq(Row) /\ received \in Seq(Row)
        BY <1>2, <3>2
      <4> QED
        BY <3>3, <3>4, <4>1
    <3> QED
      BY <3>5 DEF s
  <2>7. result' = received
    BY <1>2, <2>1, <2>2, <2>6
  <2>8. Exact'
    BY <2>1, <2>3, <2>7 DEF Exact
  <2>9. start' >= total'
    BY <1>1, <1>2, <1>3, <2>1, <2>2
  <2> QED
    BY <2>1, <2>8, <2>9
<1>11. CASE End
  <2>1. /\ pc = "chunk" /\ pc' = "done" /\ start >= total
        /\ UNCHANGED <<cores, table, total, start, shares, received, result, counted, dropped>>
    BY <1>11 DEF End
  <2>2. CASE Exact
    BY <1>4, <2>1, <2>2
  <2>3. CASE start = 0 /\ result = <<>>
    <3>1. total = 0
      BY <1>2, <2>1, <2>3
    <3>2. counted = {}
      BY <1>3, <2>1, <3>1
    <3>3. Exact
      BY <2>3, <3>2 DEF Exact, IsInjective
    <3> QED
      BY <1>4, <2>1, <3>3
  <2> QED
    BY <1>3, <2>1, <2>2, <2>3
<1>12. CASE Answer
  BY <1>12 DEF Answer
<1>13. (\E batch \in SUBSET unused : Insert(batch)) \/ CreateTable \/ UNCHANGED vars
       => UNCHANGED <<scan, dropped>>
  BY DEF Insert, CreateTable, vars, scan
<1>14. ~DropAllTables
  BY DEF DropAllTables
<1> QED
  BY <1>5, <1>6, <1>7, <1>8, <1>9, <1>10, <1>11, <1>12, <1>13, <1>14 DEF Next, ScanStep

----------------------------------------------------------------------------
(* The theorems.                                                           *)

\* The scan is well typed, and what it has returned never runs ahead of the
\* chunks it asked for: for any rows, batches, machine and chunk size.
THEOREM TypeCorrect == Spec => []TypeOK
<1>1. Init => WellFormed
  BY InitHolds DEF IInv
<1>2. WellFormed /\ [Next]_vars => WellFormed'
  BY WellFormedStep
<1>3. WellFormed => TypeOK
  BY DEF WellFormed
<1> QED
  BY <1>1, <1>2, <1>3, PTL DEF Spec

LEMMA Invariant == Spec => []IInv
<1>1. Init => IInv
  BY InitHolds
<1>2. IInv /\ [Next]_vars => IInv'
  BY WellFormedStep, CountedStep, OneThreadStep, OneChunkStep DEF IInv
<1> QED
  BY <1>1, <1>2, PTL DEF Spec

\* The rows of the table are there once.
LEMMA TableInjective ==
    ASSUME WellFormed
    PROVE  R \in Seq(Row) /\ IsInjective(R)
BY RowsTyped, RowsHold DEF WellFormed, TypeOK, InsertedOnce, R

\* scan_table_chunk cuts a fresh reading of the table by position, and still no
\* row counted is lost or repeated if one thread reads the files, or if the
\* table fits in one chunk: INSERT may add any batch at any time.
THEOREM ScanExact == Spec => []ExactWhenOrdered
<1>1. IInv => ExactWhenOrdered
  <2> SUFFICES ASSUME IInv, pc = "done", ~dropped, cores = 1 \/ Len(R) <= ChunkSize
               PROVE  Exact
    BY DEF ExactWhenOrdered, R
  <2>1. CASE Len(R) <= ChunkSize
    BY <2>1 DEF IInv, OneChunk
  <2>2. CASE cores = 1
    <3>1. PICK r : r = R
      OBVIOUS
    <3>2. r \in Seq(Row) /\ IsInjective(r)
      BY <3>1, TableInjective DEF IInv
    <3>3. result \in Seq(Row) /\ start \in Nat /\ total \in Nat
      BY DEF IInv, WellFormed, TypeOK
    <3>4. Begins(result, r) /\ (Len(result) >= start \/ Len(result) >= total) /\ start >= total
      BY <2>2, <3>1 DEF IInv, OneThread
    <3>5. counted = { r[i] : i \in 1..total }
      BY <3>1 DEF IInv, CountedFirst
    <3>6. /\ Len(result) \in Nat /\ Len(r) \in Nat
          /\ DOMAIN result = 1..Len(result) /\ DOMAIN r = 1..Len(r)
      BY <3>2, <3>3
    <3>7. Len(result) >= total
      BY <3>3, <3>4, <3>6
    <3>8. Len(result) <= Len(r) /\ \A i \in 1..Len(result) : result[i] = r[i] /\ i \in 1..Len(r)
      <4>1. Len(result) <= Len(r) /\ \A i \in 1..Len(result) : result[i] = r[i]
        BY <3>4 DEF Begins
      <4> QED
        BY <3>6, <4>1
    <3>9. counted \subseteq ToSet(result)
      <4>1. \A i \in 1..total : i \in 1..Len(result)
        BY <3>3, <3>6, <3>7
      <4> QED
        BY <3>5, <3>6, <3>8, <4>1 DEF ToSet
    <3>10. IsInjective(result)
      <4>1. \A i, j \in 1..Len(r) : r[i] = r[j] => i = j
        BY <3>2, <3>6 DEF IsInjective
      <4>2. \A i, j \in 1..Len(result) : result[i] = result[j] => i = j
        BY Zenon, <3>8, <4>1
      <4> QED
        BY <3>6, <4>2 DEF IsInjective
    <3> QED
      BY <3>9, <3>10 DEF Exact
  <2> QED
    BY <2>1, <2>2
<1> QED
  BY <1>1, Invariant, PTL

----------------------------------------------------------------------------
(* ScanEnds without its fairness: the scan asks for a bounded number of    *)
(* steps, however fast rows arrive.                                        *)

\* The files are never divided among more threads than the machine has cores.
LEMMA FewShares ==
    ASSUME NEW n \in Nat, cores \in Nat \ {0}
    PROVE  ShareCount(n) \in Nat /\ ShareCount(n) <= cores
<1> DEFINE t == Threads(n)
           q == (n + t - 1) \div t
           per == PerThread(n)
           c == (n + per - 1) \div per
<1>1. t \in Nat /\ t >= 1 /\ t <= cores
  <2> DEFINE m == Max({n, 1})
  <2>1. m \in Nat
    BY MaxOfTwo
  <2> HIDE DEF m
  <2>2. Min({cores, m}) = IF cores <= m THEN cores ELSE m
    BY <2>1, MinOfTwo
  <2>3. t <= cores
    BY <2>1, <2>2 DEF Threads, m
  <2> QED
    BY <2>3, ThreadsAtLeastOne
<1>2. per \in Nat /\ per >= 1
  BY PerThreadAtLeastOne
<1> HIDE DEF t
<1>3. q \in Nat /\ n <= q * t
  BY <1>1
<1>4. per = Max({q, 1})
  BY DEF PerThread, t
<1> HIDE DEF q, per
<1>5. q <= per
  BY <1>3, <1>4, MaxOfTwo
<1>6. n <= t * per /\ t * per \in Nat
  <2>1. q * t <= per * t
    BY <1>1, <1>2, <1>3, <1>5
  <2> QED
    BY <1>1, <1>2, <1>3, <2>1
<1>7. c \in Nat /\ c * per <= n + per - 1
  BY <1>2
<1> HIDE DEF c
<1>8. c <= t
  <2> SUFFICES ASSUME c >= t + 1 PROVE FALSE
    BY <1>1, <1>7
  <2>1. (t + 1) * per <= c * per
    <3> DEFINE d == t + 1
    <3>1. d \in Nat /\ d <= c
      BY <1>1, <1>7
    <3> HIDE DEF d
    <3>2. d * per <= c * per
      BY <1>2, <1>7, <3>1
    <3> QED
      BY <3>2 DEF d
  <2>2. (t + 1) * per = t * per + per
    BY <1>1, <1>2
  <2> DEFINE x == t * per
             y == c * per
  <2>3. x \in Nat /\ y \in Nat /\ x + per <= y /\ y <= n + per - 1 /\ n <= x
    BY <1>2, <1>6, <1>7, <2>1, <2>2
  <2> HIDE DEF x, y
  <2> QED
    BY <1>2, <2>3
<1>9. ShareCount(n) = c
  BY DEF ShareCount, c, per
<1> QED
  BY <1>1, <1>7, <1>8, <1>9

FewThreads == IsFiniteSet(DOMAIN shares) /\ Cardinality(DOMAIN shares) \in 0..cores

\* The rows counted that lie beyond the chunks asked for: each chunk takes one.
Ahead == IF start < total THEN total - start ELSE 0

\* The steps that are left, while no new query is asked: to read a chunk, to
\* receive from each thread and to end the chunk; to end the scan and to answer.
StepsLeft ==
    IF pc = "chunk" THEN Ahead * (cores + 2) + 2
    ELSE IF pc = "receive" THEN (Ahead - 1) * (cores + 2) + 3 + Cardinality(DOMAIN shares)
    ELSE IF pc \in {"done", "failed"} THEN 1
    ELSE 0

\* A step of the scan leaves fewer steps, and no other statement adds one.
ScanAdvances ==
    /\ StepsLeft \in Nat /\ StepsLeft' \in Nat
    /\ ScanStep \/ Cancelled => StepsLeft' < StepsLeft
    /\ pc # "idle" => StepsLeft' <= StepsLeft

LEMMA FewThreadsInit == Init => FewThreads
<1> SUFFICES ASSUME Init PROVE FewThreads
  OBVIOUS
<1>1. DOMAIN shares = {} /\ cores \in Nat
  BY CoreCountsAssumption DEF Init
<1> QED
  BY <1>1, FS_EmptySet DEF FewThreads

LEMMA FewThreadsStep ==
    ASSUME WellFormed, FewThreads, [Next]_vars
    PROVE  FewThreads'
<1>1. cores \in Nat \ {0} /\ Len(files) \in Nat /\ files \in Seq(Seq(Row))
  BY CoreCountsAssumption DEF WellFormed, TypeOK
<1>2. cores' = cores
  BY DEF Next, ScanStep, Insert, DropAllTables, CreateTable, Begin, ReadChunk, EndChunk, End,
         Answer, Send, Cancelled, vars
<1>3. CASE DOMAIN shares' = DOMAIN shares
  BY <1>2, <1>3 DEF FewThreads
<1>4. CASE shares' = Shares(files)
  <2>1. PICK c : c = ShareCount(Len(files))
    OBVIOUS
  <2>2. DOMAIN shares' = 1..c
    BY <1>1, <1>4, <2>1, SharesDivide DEF Divided
  <2>3. c \in Nat /\ c <= cores
    BY <1>1, <2>1, FewShares
  <2>4. IsFiniteSet(1..c) /\ Cardinality(1..c) = c
    BY <2>3, FS_Interval
  <2> QED
    BY <1>1, <1>2, <2>2, <2>3, <2>4 DEF FewThreads
<1>5. ASSUME NEW k \in DOMAIN shares, shares' = [j \in DOMAIN shares \ {k} |-> shares[j]]
      PROVE  FewThreads'
  <2>1. DOMAIN shares' = DOMAIN shares \ {k}
    BY <1>5
  <2>2. /\ IsFiniteSet(DOMAIN shares \ {k})
        /\ Cardinality(DOMAIN shares \ {k}) = Cardinality(DOMAIN shares) - 1
    BY FS_RemoveElement DEF FewThreads
  <2>3. Cardinality(DOMAIN shares \ {k}) \in Nat
    BY <2>2, FS_CardinalityType
  <2> QED
    BY <1>1, <1>2, <2>1, <2>2, <2>3 DEF FewThreads
<1>6. \/ DOMAIN shares' = DOMAIN shares
      \/ shares' = Shares(files)
      \/ \E k \in DOMAIN shares : shares' = [j \in DOMAIN shares \ {k} |-> shares[j]]
  <2>1. DropAllTables => DOMAIN shares' = DOMAIN shares
    BY DEF DropAllTables
  <2>2. (\E batch \in SUBSET unused : Insert(batch)) \/ CreateTable \/ Begin \/ Cancelled
        \/ EndChunk \/ End \/ Answer \/ UNCHANGED vars => shares' = shares
    BY DEF Insert, CreateTable, Begin, Cancelled, EndChunk, End, Answer, scan, vars
  <2>3. ReadChunk => shares' = Shares(files) \/ shares' = shares
    BY DEF ReadChunk
  <2>4. \A k \in DOMAIN shares : Send(k) => shares' = [j \in DOMAIN shares \ {k} |-> shares[j]]
    BY DEF Send
  <2> QED
    BY Zenon, <2>1, <2>2, <2>3, <2>4 DEF Next, ScanStep
<1> QED
  BY <1>3, <1>4, <1>5, <1>6

\* What the proof counts with: w steps for a chunk of the rows ahead.
LEMMA StepsLeftType ==
    ASSUME WellFormed, FewThreads
    PROVE  /\ StepsLeft \in Nat /\ Ahead \in Nat /\ Cardinality(DOMAIN shares) \in 0..cores
           /\ cores \in Nat \ {0} /\ start \in Nat /\ total \in Nat
           /\ pc = "receive" => Ahead >= 1
           /\ pc # "receive" => DOMAIN shares = {}
<1> DEFINE n == Cardinality(DOMAIN shares)
<1>1. n \in 0..cores /\ cores \in Nat \ {0} /\ start \in Nat /\ total \in Nat
  BY CoreCountsAssumption DEF WellFormed, TypeOK, FewThreads
<1>2. Ahead \in Nat
  BY <1>1 DEF Ahead
<1>3. pc = "receive" => Ahead >= 1
  BY <1>1 DEF Ahead, WellFormed, ReadersInTime
<1>4. pc # "receive" => DOMAIN shares = {}
  BY DEF WellFormed, ReadersInTime
<1> HIDE DEF n
<1>5. Ahead * (cores + 2) \in Nat
  BY <1>1, <1>2
<1>6. pc = "receive" => (Ahead - 1) * (cores + 2) \in Nat
  BY <1>1, <1>2, <1>3
<1>7. StepsLeft \in Nat
  <2> DEFINE x == Ahead * (cores + 2)
             y == (Ahead - 1) * (cores + 2)
  <2>1. x \in Nat /\ (pc = "receive" => y \in Nat) /\ n \in Nat
    BY <1>1, <1>5, <1>6
  <2>2. StepsLeft = IF pc = "chunk" THEN x + 2
                    ELSE IF pc = "receive" THEN y + 3 + n
                    ELSE IF pc \in {"done", "failed"} THEN 1 ELSE 0
    BY DEF StepsLeft, n
  <2> HIDE DEF x, y
  <2> QED
    BY <2>1, <2>2
<1> QED
  BY <1>1, <1>2, <1>3, <1>4, <1>7 DEF n

LEMMA ReadCounts ==
    ASSUME WellFormed, FewThreads, FewThreads', ReadChunk
    PROVE  StepsLeft' < StepsLeft
<1>1. /\ pc = "chunk" /\ start < total /\ pc' \in {"receive", "failed"}
      /\ UNCHANGED <<cores, total, start>>
  BY DEF ReadChunk
<1> DEFINE a == Ahead
           n == Cardinality(DOMAIN shares')
           x == a * (cores + 2)
           y == (a - 1) * (cores + 2)
<1>2. a \in Nat /\ a >= 1 /\ cores \in Nat /\ n \in 0..cores /\ Ahead' = a
  BY <1>1, StepsLeftType DEF Ahead, FewThreads
<1>3. StepsLeft = x + 2 /\ StepsLeft' = IF pc' = "receive" THEN y + 3 + n ELSE 1
  BY <1>1, <1>2 DEF StepsLeft
<1> HIDE DEF a, n
<1>4. x \in Nat /\ y \in Int /\ x = y + cores + 2
  BY <1>2
<1> HIDE DEF x, y
<1> QED
  BY <1>2, <1>3, <1>4

LEMMA EndChunkCounts ==
    ASSUME WellFormed, FewThreads, EndChunk
    PROVE  StepsLeft' < StepsLeft
<1>1. /\ pc = "receive" /\ pc' = "chunk" /\ DOMAIN shares = {} /\ start' = start + ChunkSize
      /\ UNCHANGED <<cores, total, shares>>
  BY DEF EndChunk, Closed
<1> DEFINE a == Ahead
           b == Ahead'
           w == cores + 2
           x == b * w
           y == (a - 1) * w
<1>2. a \in Nat /\ a >= 1 /\ cores \in Nat /\ start \in Nat /\ total \in Nat
  BY <1>1, StepsLeftType
<1>3. b \in Nat /\ b <= a - 1
  BY <1>1, <1>2, ChunkSizeAssumption DEF Ahead
<1>4. Cardinality(DOMAIN shares) = 0
  BY <1>1, FS_EmptySet
<1>5. StepsLeft = y + 3 /\ StepsLeft' = x + 2
  <2>1. y \in Int
    BY <1>2
  <2> QED
    BY <1>1, <1>4, <2>1 DEF StepsLeft
<1>6. w \in Nat
  BY <1>2
<1> HIDE DEF a, b, w
<1>7. x <= y /\ x \in Nat /\ y \in Nat
  <2> DEFINE d == a - 1
  <2>1. d \in Nat /\ b <= d
    BY <1>2, <1>3
  <2> HIDE DEF d
  <2>2. b * w <= d * w /\ b * w \in Nat /\ d * w \in Nat
    BY <1>3, <1>6, <2>1
  <2> QED
    BY <2>2 DEF d
<1> HIDE DEF x, y
<1> QED
  BY <1>5, <1>7

LEMMA SendCounts ==
    ASSUME WellFormed, FewThreads, FewThreads', NEW k \in DOMAIN shares, Send(k)
    PROVE  StepsLeft' < StepsLeft
<1>1. /\ pc = "receive" /\ UNCHANGED <<cores, pc, total, start>>
      /\ DOMAIN shares' = DOMAIN shares \ {k}
  BY DEF Send
<1> DEFINE m == Cardinality(DOMAIN shares)
           n == Cardinality(DOMAIN shares')
           y == (Ahead - 1) * (cores + 2)
<1>2. n = m - 1 /\ m \in Nat
  BY <1>1, FS_RemoveElement DEF FewThreads
<1>3. Ahead' = Ahead /\ y \in Int
  BY <1>1, StepsLeftType DEF Ahead
<1>4. StepsLeft = y + 3 + m /\ StepsLeft' = y + 3 + n
  BY <1>1, <1>3 DEF StepsLeft
<1> HIDE DEF m, n, y
<1> QED
  BY <1>2, <1>3, <1>4

\* Only Begin gives the scan something to do.
LEMMA OthersCount ==
    ASSUME WellFormed, FewThreads,
           DropAllTables \/ UNCHANGED <<cores, scan>> \/ Cancelled \/ End \/ Answer
    PROVE  /\ StepsLeft' <= StepsLeft
           /\ Cancelled \/ End \/ Answer => StepsLeft' < StepsLeft
<1>1. StepsLeft \in Nat /\ Ahead \in Nat /\ cores \in Nat \ {0}
  BY StepsLeftType
<1>2. CASE DropAllTables \/ UNCHANGED <<cores, scan>>
  <2>1. /\ UNCHANGED <<cores, pc, total, start>>
        /\ Cardinality(DOMAIN shares') = Cardinality(DOMAIN shares)
    <3>1. CASE DropAllTables
      <4>1. DOMAIN shares' = DOMAIN shares /\ UNCHANGED <<cores, pc, total, start>>
        BY <3>1 DEF DropAllTables
      <4> QED
        BY <4>1
    <3>2. CASE UNCHANGED <<cores, scan>>
      BY <3>2 DEF scan
    <3> QED
      BY <1>2, <3>1, <3>2
  <2>2. StepsLeft' = StepsLeft
    <3>1. Ahead' = Ahead
      BY <2>1 DEF Ahead
    <3> QED
      BY <2>1, <3>1 DEF StepsLeft
  <2>3. ~(Cancelled \/ End \/ Answer)
    BY <2>1 DEF Cancelled, End, Answer
  <2> QED
    BY <1>1, <2>2, <2>3
<1>3. CASE Cancelled \/ End
  <2>1. pc = "chunk" /\ pc' \in {"failed", "done"}
    BY <1>3 DEF Cancelled, End
  <2>2. Ahead * (cores + 2) \in Nat
    BY <1>1
  <2>3. StepsLeft >= 2 /\ StepsLeft' = 1
    <3> DEFINE x == Ahead * (cores + 2)
    <3>1. StepsLeft = x + 2 /\ StepsLeft' = 1
      BY <2>1 DEF StepsLeft
    <3> HIDE DEF x
    <3> QED
      BY <2>2, <3>1 DEF x
  <2> QED
    BY <1>1, <2>3
<1>4. CASE Answer
  BY <1>4 DEF Answer, StepsLeft
<1> QED
  BY <1>1, <1>2, <1>3, <1>4

\* The scan makes at most cores + 2 steps for every row counted, and two more:
\* the bound falls with each of its steps, and neither an INSERT nor DROP ALL
\* TABLES raises it, since total_rows is not counted again.
THEOREM ScanBounded == Spec => [][ScanAdvances]_vars
<1>1. Init => FewThreads
  BY FewThreadsInit
<1>2. WellFormed /\ FewThreads /\ [Next]_vars => FewThreads'
  BY FewThreadsStep
<1>3. IInv => WellFormed
  BY DEF IInv
<1>4. WellFormed /\ FewThreads => StepsLeft \in Nat
  BY StepsLeftType
<1>5. ASSUME WellFormed, FewThreads, FewThreads', StepsLeft \in Nat, StepsLeft' \in Nat, Next
      PROVE  ScanAdvances
  <2>1. CASE ReadChunk \/ EndChunk \/ \E k \in DOMAIN shares : Send(k)
    <3>1. StepsLeft' < StepsLeft
      BY <1>5, <2>1, ReadCounts, EndChunkCounts, SendCounts
    <3> QED
      BY <1>5, <3>1 DEF ScanAdvances
  <2>2. CASE DropAllTables \/ UNCHANGED <<cores, scan>> \/ Cancelled \/ End \/ Answer
    <3>1. ASSUME ScanStep \/ Cancelled PROVE StepsLeft' < StepsLeft
      BY <1>5, <3>1, ReadCounts, EndChunkCounts, SendCounts, OthersCount DEF ScanStep
    <3>2. StepsLeft' <= StepsLeft
      BY <1>5, <2>2, OthersCount
    <3> QED
      BY <1>5, <3>1, <3>2 DEF ScanAdvances
  <2>3. CASE Begin
    <3>1. pc = "idle" /\ pc' = "chunk"
      BY <2>3 DEF Begin
    <3>2. ~(ScanStep \/ Cancelled)
      BY <3>1 DEF ScanStep, Cancelled, ReadChunk, EndChunk, End, Answer, Send
    <3> QED
      BY <1>5, <3>1, <3>2 DEF ScanAdvances
  <2>4. (\E batch \in SUBSET unused : Insert(batch)) \/ CreateTable => UNCHANGED <<cores, scan>>
    BY DEF Insert, CreateTable
  <2> QED
    BY <1>5, <2>1, <2>2, <2>3, <2>4 DEF Next, ScanStep
<1>6. WellFormed /\ FewThreads /\ FewThreads' /\ StepsLeft \in Nat /\ (StepsLeft \in Nat)' /\ [Next]_vars
      => [ScanAdvances]_vars
  BY <1>5
<1> QED
  BY <1>1, <1>2, <1>3, <1>4, <1>6, Invariant, PTL DEF Spec
=============================================================================
