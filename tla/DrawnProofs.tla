----------------------------- MODULE DrawnProofs -----------------------------
(***************************************************************************)
(* Theorems about what the pages of MCPages draw, for any UEs, causes,     *)
(* retries, points, times, rates and widths: the charts, the figures of a  *)
(* run and the topology; and about the actions of the dashboard beside the *)
(* topology (Lab), for any subscribers, templates and bounds.              *)
(***************************************************************************)
EXTENDS PageProofs, MCLab, FunctionTheorems

-----------------------------------------------------------------------------
(* The charts. *)

ChartInv == s1 \in Times \cup {0} /\ s2 \in Peaks /\ s3 \in Widths

LEMMA ChartInit == K!Init => ChartInv
  BY DEF K!Init, ChartInv

LEMMA ChartStep == ChartInv /\ K!Next => ChartInv'
<1> SUFFICES ASSUME ChartInv, K!Next PROVE ChartInv'
  OBVIOUS
<1>1. CASE K!Read
  BY <1>1 DEF ChartInv, K!Read
<1>2. CASE K!Resized
  BY <1>2 DEF ChartInv, K!Resized
<1>3. CASE K!Moved
  BY <1>3 DEF ChartInv, K!Moved
<1>4. CASE K!Left
  BY <1>4 DEF ChartInv, K!Left
<1> QED  BY <1>1, <1>2, <1>3, <1>4 DEF K!Next

\* Division.
LEMMA Divided ==
  ASSUME NEW a \in Nat, NEW b \in Nat \ {0}
  PROVE  /\ a \div b \in Nat /\ a % b \in 0 .. b - 1
         /\ b * (a \div b) <= a /\ a < b * (a \div b) + b
         /\ a % b = 0 => a = b * (a \div b)
         /\ a = b * (a \div b) + (a % b)
<1>1. a \div b \in Nat
  OBVIOUS
<1>2. a % b \in 0 .. b - 1
  OBVIOUS
<1>3. a = b * (a \div b) + (a % b)
  OBVIOUS
<1> QED  BY <1>1, <1>2, <1>3

LEMMA DividedUnder ==
  ASSUME NEW a \in Nat, NEW b \in Nat \ {0}, NEW q \in Nat, a < b * q PROVE a \div b < q
  OBVIOUS
LEMMA DividedOver ==
  ASSUME NEW a \in Nat, NEW b \in Nat \ {0}, NEW q \in Nat, b * q <= a PROVE q <= a \div b
  OBVIOUS

\* The least of some numbers.
LEMMA LeastOf ==
  ASSUME NEW Q \in SUBSET Nat, Q # {}
  PROVE  K!Min(Q) \in Q /\ \A i \in Q : K!Min(Q) <= i
<1>1. \E i \in Q : \A j \in Q : i <= j
  BY LeastNat
<1> QED  BY <1>1 DEF K!Min

LEMMA UpToTwenty ==
  \A k \in 0 .. 20 : k \in {0, 1, 2, 3, 4, 5, 6, 7, 8, 9, 10, 11, 12, 13, 14, 15, 16, 17, 18, 19, 20}
  OBVIOUS

LEMMA DoublingsAre ==
    /\ K!Doublings \subseteq Nat \ {0} /\ 2 ^ 20 \in K!Doublings /\ 2 ^ 20 \in Nat \ {0}
    /\ \A w \in K!Doublings : w = 1 \/ \E v \in K!Doublings : w = 2 * v
<1>1. K!Doublings = {2^0, 2^1, 2^2, 2^3, 2^4, 2^5, 2^6, 2^7, 2^8, 2^9, 2^10, 2^11, 2^12, 2^13, 2^14, 2^15, 2^16,
                     2^17, 2^18, 2^19, 2^20}
  BY UpToTwenty, SMT DEF K!Doublings
<1> QED  BY <1>1, SMT

\* However many seconds, they fit in; and if some are left over, in more than one point.
LEMMA WidthOK ==
  ASSUME NEW s \in Times \cup {0}, NEW w, w = K!PointWidth(s)
  PROVE  /\ s \in Nat /\ w \in Nat \ {0}
         /\ s % w # 0 => 2 <= s \div w
<1> DEFINE fit == {v \in K!Doublings : s \div v < ChartPoints}
           most == 2 ^ 20
<1>a. Times \subseteq 0 .. ChartPoints * most - 1 /\ ChartPoints \in Nat /\ ChartPoints >= 4 /\ ChartPoints % 2 = 0
  BY ChartsOK, Zenon
<1>b. most \in K!Doublings /\ most \in Nat \ {0}
  BY DoublingsAre
<1> HIDE DEF most
<1>c. ChartPoints * most \in Nat /\ ChartPoints * most > 0 /\ ChartPoints * most = most * ChartPoints
  BY <1>a, <1>b
<1>1. s \in Nat /\ s < most * ChartPoints /\ ChartPoints \in Nat
  BY <1>a, <1>b, <1>c
<1>2. PICK p \in Nat : ChartPoints = 2 * p /\ p >= 2
  <2>2. ChartPoints = 2 * (ChartPoints \div 2) /\ ChartPoints \div 2 \in Nat
    BY <1>a
  <2> QED  BY <1>a, <2>2
<1>3. most \in fit
  <2>1. s \div most < ChartPoints
    BY <1>1, <1>b, DividedUnder
  <2> QED  BY <1>b, <2>1
<1>4. fit \in SUBSET Nat
  BY DoublingsAre
<1>5. w \in fit /\ \A v \in fit : w <= v
  <2>1. w = K!Min(fit)
    BY DEF K!PointWidth
  <2> HIDE DEF fit
  <2> QED  BY <1>3, <1>4, <2>1, LeastOf
<1>6. w \in K!Doublings /\ w \in Nat \ {0}
  BY <1>5, DoublingsAre
<1>7. CASE w = 1
  BY <1>1, <1>7
<1>8. ASSUME w # 1 PROVE 2 <= s \div w
  <2>1. PICK v \in K!Doublings : w = 2 * v
    BY <1>6, <1>8, DoublingsAre
  <2>2. v \in Nat \ {0} /\ v < w
    BY <2>1, DoublingsAre
  <2>3. v \notin fit
    BY <1>5, <1>6, <2>2
  <2>4. ~(s \div v < ChartPoints)
    BY <2>1, <2>3
  <2>5. ~(s < v * ChartPoints)
    BY <1>1, <2>2, <2>4, DividedUnder
  <2>6. v * ChartPoints = w * p
    BY <1>2, <2>1, <2>2
  <2>7. w * p <= s /\ w * p \in Nat
    BY <1>1, <1>2, <1>6, <2>2, <2>5, <2>6
  <2>8. p <= s \div w
    BY <1>1, <1>2, <1>6, <2>7, DividedOver
  <2>9. s \div w \in Nat
    BY <1>1, <1>6
  <2> QED  BY <1>2, <2>8, <2>9
<1> QED  BY <1>1, <1>6, <1>7, <1>8

\* The curve: its full points, and what is left over.
LEMMA SeriesIs ==
  ASSUME NEW s \in Times \cup {0}, NEW w, w = K!PointWidth(s), NEW f, f = K!Series(s)
  PROVE  LET n == s \div w IN
         /\ n \in Nat /\ f \in Seq(Nat)
         /\ Len(f) = (IF s % w = 0 THEN n ELSE n + 1)
         /\ \A i \in 1 .. n : f[i] = i * w
         /\ s % w # 0 => f[n + 1] = s
         /\ Len(f) >= 1 => f[Len(f)] = s
<1> DEFINE n == s \div w
           full == [i \in 1 .. n |-> i * w]
<1>1. s \in Nat /\ w \in Nat \ {0}
  BY WidthOK
<1>2. n \in Nat /\ s = w * n + (s % w) /\ s % w \in 0 .. w - 1
  BY <1>1, Divided
<1>3. f = IF s % w = 0 THEN full ELSE Append(full, s)
  BY DEF K!Series
<1> HIDE DEF n
<1>4. full \in [1 .. n -> Nat]
  BY <1>1, <1>2
<1>5. full \in Seq(Nat) /\ Len(full) = n /\ \A i \in 1 .. n : full[i] = i * w
  BY <1>2, <1>4
<1> HIDE DEF full
<1>6. CASE s % w = 0
  <2>1. f \in Seq(Nat) /\ Len(f) = n /\ \A i \in 1 .. n : f[i] = i * w
    BY <1>3, <1>5, <1>6
  <2>2. n >= 1 => f[n] = s
    <3>1. n >= 1 => f[n] = n * w
      BY <1>2, <2>1
    <3>2. s = w * n
      BY <1>1, <1>6, Divided DEF n
    <3>3. n * w = w * n
      BY <1>1, <1>2
    <3> QED  BY <3>1, <3>2, <3>3
  <2>3. n = 0 => s = 0
    BY <1>1, <1>2, <1>6
  <2> QED  BY <1>1, <1>2, <1>6, <2>1, <2>2 DEF n
<1>7. CASE s % w # 0
  <2>1. f \in Seq(Nat) /\ Len(f) = n + 1 /\ f[n + 1] = s /\ \A i \in 1 .. n : f[i] = full[i]
    <3>1. f = Append(full, s) /\ s \in Nat
      BY <1>1, <1>3, <1>7
    <3> QED  BY <1>2, <1>5, <3>1
  <2> QED  BY <1>1, <1>2, <1>5, <1>7, <2>1 DEF n
<1> QED  BY <1>6, <1>7

LEMMA ChartsSame == \A Q : K!Cardinality(Q) = Cardinality(Q)
  BY DEF K!Cardinality, Cardinality

\* The gaps of a curve are as wide as its points, but for the last if some seconds are left over.
LEMMA StepOK == ChartInv => K!StepIsWidth
<1> SUFFICES ASSUME ChartInv, ~K!Empty PROVE K!SampleStep = K!PointWidth(s1)
  BY DEF K!StepIsWidth
<1> DEFINE w == K!PointWidth(s1)
           f == K!Series(s1)
           m == s1 \div w
           n == Len(f) - 1
           gap == [i \in 1 .. n |-> f[i + 1] - f[i]]
           Below(g) == {i \in 1 .. n : gap[i] < g}
           UpToIt(g) == {i \in 1 .. n : gap[i] <= g}
           IsStep(g) == Cardinality(Below(g)) <= n \div 2 /\ n \div 2 < Cardinality(UpToIt(g))
<1>1. s1 \in Times \cup {0}
  BY DEF ChartInv
<1>2. s1 \in Nat /\ w \in Nat \ {0} /\ (s1 % w # 0 => 2 <= m)
  BY <1>1, WidthOK
<1>3. /\ m \in Nat /\ f \in Seq(Nat) /\ Len(f) = (IF s1 % w = 0 THEN m ELSE m + 1)
      /\ \A i \in 1 .. m : f[i] = i * w
      /\ s1 % w # 0 => f[m + 1] = s1
  BY <1>1, SeriesIs
<1>4. s1 = w * m + (s1 % w) /\ s1 % w \in 0 .. w - 1
  BY <1>2, Divided
<1>5. Len(f) \in Nat /\ Len(f) >= 2
  BY <1>3 DEF K!Empty, K!series
<1>6. n \in Nat /\ n >= 1
  BY <1>5
<1>7. K!SampleStep = CHOOSE g \in {gap[i] : i \in 1 .. n} : IsStep(g)
  BY ChartsSame DEF K!SampleStep, K!series
<1> HIDE DEF w, f, m
<1>8. \A i \in 1 .. m - 1 : f[i + 1] - f[i] = w
  <2> SUFFICES ASSUME NEW i \in 1 .. m - 1 PROVE f[i + 1] - f[i] = w
    OBVIOUS
  <2>1. i \in 1 .. m /\ i + 1 \in 1 .. m
    BY <1>3
  <2>2. f[i] = i * w /\ f[i + 1] = (i + 1) * w
    BY <1>3, <2>1
  <2>3. (i + 1) * w = i * w + w /\ i * w \in Nat
    BY <1>2, <1>3
  <2> QED  BY <1>2, <2>2, <2>3
<1>9. n >= m - 1 /\ gap[1] = w /\ \A i \in 1 .. m - 1 : gap[i] = w
  <2>1. m \in Nat /\ m >= 2
    <3>1. CASE s1 % w = 0
      BY <1>3, <1>5, <3>1
    <3>2. CASE s1 % w # 0
      BY <1>2, <1>3, <3>2
    <3> QED  BY <3>1, <3>2
  <2>2. Len(f) = m \/ Len(f) = m + 1
    BY <1>3
  <2>3. n >= m - 1
    BY <1>5, <2>1, <2>2
  <2>4. 1 \in 1 .. m - 1
    BY <2>1
  <2>5. \A i \in 1 .. m - 1 : i \in 1 .. n
    BY <1>6, <2>1, <2>3
  <2> HIDE DEF n
  <2> QED  BY <1>8, <2>3, <2>4, <2>5
<1>10. CASE s1 % w = 0
  <2>1. n = m - 1
    BY <1>3, <1>10
  <2>2. \A i \in 1 .. n : gap[i] = w
    BY <1>9, <2>1
  <2> HIDE DEF gap, n
  <2>3. Below(w) = {} /\ UpToIt(w) = 1 .. n
    BY <1>2, <2>2
  <2>4. Cardinality(Below(w)) = 0 /\ Cardinality(UpToIt(w)) = n
    BY <1>6, <2>3, FS_EmptySet, UpTo
  <2>5. IsStep(w)
    BY <1>6, <2>4
  <2>6. {gap[i] : i \in 1 .. n} = {w}
    BY <1>6, <2>2
  <2> HIDE DEF IsStep
  <2> QED  BY <1>7, <2>5, <2>6 DEF w
<1>11. CASE s1 % w # 0
  <2> DEFINE r == s1 % w
  <2>1. n = m /\ m >= 2
    BY <1>2, <1>3, <1>11
  <2>2. r \in 1 .. w - 1
    BY <1>2, <1>4, <1>11
  <2>3. gap[m] = r
    <3>1. f[m] = m * w /\ f[m + 1] = s1
      BY <1>3, <1>11, <2>1
    <3>2. m * w = w * m /\ w * m \in Nat
      BY <1>2, <1>3
    <3>3. f[m + 1] - f[m] = r
      BY <1>2, <1>4, <2>2, <3>1, <3>2
    <3> QED  BY <1>3, <2>1, <3>3
  <2> HIDE DEF gap, n, r
  <2>4. Below(w) = {m} /\ UpToIt(w) = 1 .. m
    <3>1. \A i \in 1 .. m : gap[i] = w \/ i = m
      <4>1. \A i \in 1 .. m : i = m \/ i \in 1 .. m - 1
        BY <1>3
      <4> QED  BY <1>9, <4>1
    <3>2. r < w /\ ~(w < w) /\ w <= w /\ r <= w /\ m \in 1 .. m
      BY <1>2, <1>3, <2>1, <2>2
    <3>3. \A i \in 1 .. m : (gap[i] < w <=> i = m) /\ gap[i] <= w
      BY <2>3, <3>1, <3>2
    <3> QED  BY <2>1, <3>2, <3>3
  <2>5. UpToIt(r) = {m}
    <3>1. \A i \in 1 .. m : gap[i] = w \/ i = m
      <4>1. \A i \in 1 .. m : i = m \/ i \in 1 .. m - 1
        BY <1>3
      <4> QED  BY <1>9, <4>1
    <3>2. ~(w <= r) /\ r <= r /\ m \in 1 .. m
      BY <1>2, <1>3, <2>1, <2>2
    <3>3. \A i \in 1 .. m : gap[i] <= r <=> i = m
      BY <2>3, <3>1, <3>2
    <3> QED  BY <2>1, <3>2, <3>3
  <2>6. Cardinality(Below(w)) = 1 /\ Cardinality(UpToIt(w)) = m /\ Cardinality(UpToIt(r)) = 1
    BY <1>3, <2>4, <2>5, FS_Singleton, UpTo
  <2>7. 1 <= n \div 2 /\ n \div 2 < m
    BY <1>3, <2>1
  <2>8. IsStep(w) /\ ~IsStep(r)
    <3>1. n \in Nat /\ n \div 2 \in Nat /\ 1 <= n \div 2 /\ n \div 2 < m
      BY <1>3, <2>1, <2>7
    <3>2. ~(n \div 2 < 1)
      BY <3>1
    <3> QED  BY <2>6, <3>1, <3>2
  <2>9. {gap[i] : i \in 1 .. n} = {w, r}
    <3>1. \A i \in 1 .. n : gap[i] = w \/ gap[i] = r
      BY <1>3, <1>9, <2>1, <2>3
    <3>2. 1 \in 1 .. n /\ m \in 1 .. n
      BY <1>3, <2>1
    <3> QED  BY <1>9, <2>3, <3>1, <3>2
  <2> HIDE DEF IsStep
  <2> QED  BY <1>7, <2>8, <2>9 DEF w
<1> QED  BY <1>10, <1>11

-----------------------------------------------------------------------------
(* The axes. *)

LEMMA PowersAre ==
    K!Powers = {4 * 10 ^ 0, 4 * 10 ^ 1, 4 * 10 ^ 2, 4 * 10 ^ 3, 4 * 10 ^ 4, 4 * 10 ^ 5, 4 * 10 ^ 6, 4 * 10 ^ 7,
                4 * 10 ^ 8}
<1>1. \A k \in 0 .. 8 : k \in {0, 1, 2, 3, 4, 5, 6, 7, 8}
  OBVIOUS
<1> QED  BY <1>1, SMT DEF K!Powers

\* The step's power of ten.
LEMMA PowerOf ==
  ASSUME NEW v \in Nat, 10 <= v, v < 4 * 10 ^ 9
  PROVE  /\ \E p \in K!Powers : p <= v /\ v < 10 * p
         /\ \A p \in K!Powers : \E q \in Nat \ {0} : p = 4 * q
<1>1. \A p \in K!Powers : \E q \in Nat \ {0} : p = 4 * q
  BY PowersAre, SMT
<1>2. \E p \in K!Powers : p <= v /\ v < 10 * p
  BY PowersAre, SMT
<1> QED  BY <1>1, <1>2

\* A step is at least what is asked for and less than twice as much.
LEMMA NiceOK ==
  ASSUME NEW v \in Nat, 10 <= v, v < 4 * 10 ^ 9
  PROVE  /\ K!NiceStep(v) \in Nat \ {0}
         /\ v <= K!NiceStep(v) /\ K!NiceStep(v) < 2 * v
<1> DEFINE p == CHOOSE p \in K!Powers : p <= v /\ v < 10 * p
           big == {m \in K!Multiples : m * p >= 10 * v}
           m == K!Min(big)
<1>1. p \in K!Powers /\ p <= v /\ v < 10 * p
  BY PowerOf
<1>2. K!NiceStep(v) = (m * p) \div 10
  BY DEF K!NiceStep
<1> HIDE DEF p
<1>3. PICK q \in Nat \ {0} : p = 4 * q
  BY <1>1, PowerOf
<1>4. big \in SUBSET Nat /\ 100 \in big
  BY <1>1, <1>3 DEF K!Multiples
<1>5. m \in big /\ \A i \in big : m <= i
  <2> HIDE DEF big
  <2> QED  BY <1>4, LeastOf
<1> HIDE DEF m
<1>6. m \in {10, 20, 25, 50, 100} /\ m * p >= 10 * v
  BY <1>5 DEF K!Multiples
<1>7. \A i \in {10, 20, 25, 50, 100} : i < m => i * p < 10 * v
  <2> SUFFICES ASSUME NEW i \in {10, 20, 25, 50, 100}, i < m PROVE i * p < 10 * v
    OBVIOUS
  <2>1. i \in K!Multiples /\ i \in Nat /\ m \in Nat
    BY <1>6 DEF K!Multiples
  <2>2. i \notin big
    BY <1>5, <2>1
  <2>3. ~(i * p >= 10 * v)
    BY <2>1, <2>2
  <2>4. i * p \in Nat /\ 10 * v \in Nat
    BY <1>3, <2>1
  <2> QED  BY <2>3, <2>4
<1> HIDE DEF big
<1>8. CASE m = 10
  <2>1. K!NiceStep(v) = 4 * q
    BY <1>2, <1>3, <1>8
  <2> QED  BY <1>1, <1>3, <1>6, <1>8, <2>1
<1>9. CASE m = 20
  <2>1. K!NiceStep(v) = 8 * q
    BY <1>2, <1>3, <1>9
  <2>2. 10 * p < 10 * v
    BY <1>7, <1>9
  <2> QED  BY <1>1, <1>3, <1>6, <1>9, <2>1, <2>2
<1>10. CASE m = 25
  <2>1. K!NiceStep(v) = 10 * q
    BY <1>2, <1>3, <1>10
  <2>2. 20 * p < 10 * v
    BY <1>7, <1>10
  <2> QED  BY <1>1, <1>3, <1>6, <1>10, <2>1, <2>2
<1>11. CASE m = 50
  <2>1. K!NiceStep(v) = 20 * q
    BY <1>2, <1>3, <1>11
  <2>2. 25 * p < 10 * v
    BY <1>7, <1>11
  <2> QED  BY <1>1, <1>3, <1>6, <1>11, <2>1, <2>2
<1>12. CASE m = 100
  <2>1. K!NiceStep(v) = 40 * q
    BY <1>2, <1>3, <1>12
  <2>2. 50 * p < 10 * v
    BY <1>7, <1>12
  <2> QED  BY <1>1, <1>3, <1>6, <1>12, <2>1, <2>2
<1> QED  BY <1>6, <1>8, <1>9, <1>10, <1>11, <1>12

LEMMA GridOK == ChartInv => K!GridLines \in 3 .. 4 /\ K!Top >= 40 * s2 /\ K!NiceMax >= K!Top
<1> SUFFICES ASSUME ChartInv PROVE K!GridLines \in 3 .. 4 /\ K!Top >= 40 * s2 /\ K!NiceMax >= K!Top
  OBVIOUS
<1> DEFINE v == 10 * s2
           g == K!NiceStep(10 * s2)
           a == 40 * s2 + g - 1
           n == a \div g
<1>1. v \in Nat /\ 10 <= v /\ v < 4 * 10 ^ 9 /\ s2 \in Nat
  <2>1. s2 \in 1 .. 4 * 10 ^ 8 - 1
    <3>1. Peaks \subseteq 1 .. 4 * 10 ^ 8 - 1
      BY ChartsOK
    <3> QED  BY <3>1 DEF ChartInv
  <2> QED  BY <2>1, SMT
<1>2. g \in Nat \ {0} /\ v <= g /\ g < 2 * v
  BY <1>1, NiceOK
<1>3. K!GridLines = n /\ K!Top = n * g /\ K!NiceMax = 4 * g
  BY DEF K!GridLines, K!GridStep, K!Top, K!NiceMax
<1> HIDE DEF g
<1>4. 40 * s2 = 4 * v
  BY <1>1
<1> HIDE DEF v
<1>5. a \in Nat /\ g * 3 <= a /\ a < g * 5 /\ a = 4 * v + g - 1
  BY <1>1, <1>2, <1>4
<1> HIDE DEF a
<1>6. n \in Nat /\ 3 <= n /\ n < 5 /\ a < g * n + g
  <2>1. n \in Nat /\ a < g * n + g
    BY <1>2, <1>5, Divided
  <2>2. 3 <= n
    BY <1>2, <1>5, DividedOver
  <2>3. n < 5
    BY <1>2, <1>5, DividedUnder
  <2> QED  BY <2>1, <2>2, <2>3
<1> HIDE DEF n
<1>7. n \in 3 .. 4
  BY <1>6
<1>8. n = 3 \/ n = 4
  BY <1>7
<1>9. n * g >= 4 * v /\ 4 * g >= n * g
  <2>1. CASE n = 3
    BY <1>1, <1>2, <1>5, <1>6, <2>1
  <2>2. CASE n = 4
    BY <1>1, <1>2, <1>5, <1>6, <2>2
  <2> QED  BY <1>8, <2>1, <2>2
<1> QED  BY <1>3, <1>4, <1>7, <1>9

\* The ticks there is room for.
LEMMA TicksAre ==
  ASSUME ChartInv
  PROVE  /\ s3 \in Nat /\ K!MaxTicks \in Nat /\ K!MaxTicks >= 2
         /\ s3 < 140 => K!MaxTicks = 2
         /\ s3 >= 140 => 70 * K!MaxTicks <= s3
<1>1. s3 \in Nat
  <2>1. Widths \subseteq Nat
    BY ChartsOK
  <2> QED  BY <2>1 DEF ChartInv
<1>2. s3 \div 70 \in Nat /\ 70 * (s3 \div 70) <= s3 /\ s3 < 70 * (s3 \div 70) + 70
  BY <1>1
<1> QED  BY <1>1, <1>2 DEF K!MaxTicks

Succeeds(p, s) == s <= 2 * p \/ (s = 5 /\ p = 2) \/ (s = 300 /\ p = 120)

\* The step after the first is at most twice the one before, but for two of them.
LEMMA StepsBefore ==
    /\ K!TimeSteps \in SUBSET Nat
    /\ \A s \in K!TimeSteps : s = 1 \/ \E p \in K!TimeSteps :
        p < s /\ Succeeds(p, s)
<1>1. K!TimeSteps \in SUBSET Nat
  BY SMT DEF K!TimeSteps
<1>2. \A s \in K!TimeSteps : s = 1 \/ \E p \in K!TimeSteps : p < s /\ Succeeds(p, s)
  <2> SUFFICES ASSUME NEW s \in K!TimeSteps, s # 1 PROVE \E p \in K!TimeSteps : p < s /\ Succeeds(p, s)
    OBVIOUS
  <2>1. s \in {2, 5, 10, 15, 30, 60} \/ s \in {120, 300, 600, 900, 1800, 3600}
        \/ s \in {7200, 10800, 21600, 43200, 86400}
    BY SMT DEF K!TimeSteps
  <2>2. ASSUME s \in {2, 5, 10, 15, 30, 60} PROVE \E p \in K!TimeSteps : p < s /\ Succeeds(p, s)
    <3>1. {1, 2, 5, 10, 15, 30} \subseteq K!TimeSteps
      BY SMT DEF K!TimeSteps
    <3>2. (1 < s /\ Succeeds(1, s))
          \/ (2 < s /\ Succeeds(2, s))
          \/ (5 < s /\ Succeeds(5, s))
          \/ (10 < s /\ Succeeds(10, s))
          \/ (15 < s /\ Succeeds(15, s))
          \/ (30 < s /\ Succeeds(30, s))
      BY <2>2, SMT DEF Succeeds
    <3> QED  BY <3>1, <3>2, SMT
  <2>3. ASSUME s \in {120, 300, 600, 900, 1800, 3600} PROVE \E p \in K!TimeSteps : p < s /\ Succeeds(p, s)
    <3>1. {60, 120, 300, 600, 900, 1800} \subseteq K!TimeSteps
      BY SMT DEF K!TimeSteps
    <3>2. (60 < s /\ Succeeds(60, s))
          \/ (120 < s /\ Succeeds(120, s))
          \/ (300 < s /\ Succeeds(300, s))
          \/ (600 < s /\ Succeeds(600, s))
          \/ (900 < s /\ Succeeds(900, s))
          \/ (1800 < s /\ Succeeds(1800, s))
      BY <2>3, SMT DEF Succeeds
    <3> QED  BY <3>1, <3>2, SMT
  <2>4. ASSUME s \in {7200, 10800, 21600, 43200, 86400} PROVE \E p \in K!TimeSteps : p < s /\ Succeeds(p, s)
    <3>1. {3600, 7200, 10800, 21600, 43200} \subseteq K!TimeSteps
      BY SMT DEF K!TimeSteps
    <3>2. (3600 < s /\ Succeeds(3600, s))
          \/ (7200 < s /\ Succeeds(7200, s))
          \/ (10800 < s /\ Succeeds(10800, s))
          \/ (21600 < s /\ Succeeds(21600, s))
          \/ (43200 < s /\ Succeeds(43200, s))
      BY <2>4, SMT DEF Succeeds
    <3> QED  BY <3>1, <3>2, SMT
  <2> QED  BY <2>1, <2>2, <2>3, <2>4, SMT
<1> QED  BY <1>1, <1>2

LEMMA TimeStepIs ==
  ASSUME NEW t \in Nat, K!MaxTicks \in Nat, K!MaxTicks >= 2
  PROVE  LET step == K!TimeStep(t)
             fit == {s \in K!TimeSteps : t <= s * K!MaxTicks} IN
         /\ step \in Nat
         /\ t <= step * K!MaxTicks \/ t > 2 * 86400
         /\ t >= 2 => step <= t \/ (K!MaxTicks = 2 /\ t \in 241 .. 299)
<1> DEFINE step == K!TimeStep(t)
           fit == {s \in K!TimeSteps : t <= s * K!MaxTicks}
           ticks == K!MaxTicks
<1>1. fit = {} => step = 86400
  BY SMT DEF K!TimeStep
<1>2. fit # {} => step = K!Min(fit)
  BY SMT DEF K!TimeStep
<1>3. fit \in SUBSET Nat
  BY StepsBefore
<1>0. ticks \in Nat /\ ticks >= 2
  OBVIOUS
<1> HIDE DEF step, ticks
<1>4. CASE fit = {}
  <2>1. 86400 \in K!TimeSteps
    BY SMT DEF K!TimeSteps
  <2>2. ~(t <= 86400 * ticks)
    BY <1>4, <2>1, SMT DEF ticks
  <2>3. t > 86400 * 2 /\ step = 86400
    BY <1>0, <1>1, <1>4, <2>2, SMT
  <2> QED  BY <2>3, SMT DEF step
<1>5. CASE fit # {}
  <2>1. step \in fit /\ \A s \in fit : step <= s
    <3> HIDE DEF fit
    <3> QED  BY <1>2, <1>3, <1>5, LeastOf
  <2>2. step \in K!TimeSteps /\ step \in Nat /\ t <= step * ticks
    BY <1>3, <2>1 DEF ticks
  <2>3. t >= 2 => step <= t \/ (ticks = 2 /\ t \in 241 .. 299)
    <3>1. CASE step = 1
      BY <3>1
    <3>2. ASSUME step # 1 PROVE t >= 2 => step <= t \/ (ticks = 2 /\ t \in 241 .. 299)
      <4>1. PICK p \in K!TimeSteps : p < step /\ Succeeds(p, step)
        BY <2>2, <3>2, StepsBefore
      <4>2. p \in Nat /\ p \notin fit
        BY <2>1, <2>2, <4>1, StepsBefore
      <4>3. t > p * ticks
        <5>1. ~(t <= p * ticks)
          BY <4>2 DEF ticks
        <5> QED  BY <1>0, <4>2, <5>1
      <4>4. t > p * 2
        BY <1>0, <4>2, <4>3
      <4>5. CASE step <= 2 * p
        BY <2>2, <4>2, <4>4, <4>5
      <4>6. CASE step = 5 /\ p = 2
        BY <4>4, <4>6
      <4>7. CASE step = 300 /\ p = 120
        <5>1. ticks = 2 \/ t >= 300
          BY <1>0, <4>3, <4>7
        <5> QED  BY <4>4, <4>7, <5>1
      <4> QED  BY <4>1, <4>5, <4>6, <4>7 DEF Succeeds
    <3> QED  BY <3>1, <3>2
  <2> HIDE DEF fit
  <2> QED  BY <2>2, <2>3, SMT DEF step, ticks
<1> QED  BY <1>4, <1>5

LEMMA AxesOK == ChartInv => K!AxesFit
<1> SUFFICES ASSUME ChartInv PROVE K!AxesFit
  OBVIOUS
<1>1. K!GridLines \in 3 .. 4 /\ K!Top >= 40 * s2 /\ K!NiceMax >= K!Top
  BY GridOK
<1>2. s3 \in Nat /\ K!MaxTicks \in Nat /\ K!MaxTicks >= 2
      /\ (s3 < 140 => K!MaxTicks = 2) /\ (s3 >= 140 => 70 * K!MaxTicks <= s3)
  BY TicksAre
<1>3. ASSUME ~K!Empty
      PROVE  /\ K!TimeStep(K!T1) * s3 >= K!T1 * (IF s3 < 140 THEN s3 \div 2 ELSE 70) \/ K!T1 > 2 * 86400
             /\ K!T1 >= 2 => K!TimeStep(K!T1) <= K!T1 \/ (K!MaxTicks = 2 /\ K!T1 \in 241 .. 299)
  <2> DEFINE t == K!T1
             step == K!TimeStep(t)
             ticks == K!MaxTicks
  <2>1. t \in Nat
    <3> DEFINE f == K!Series(s1)
    <3>1. s1 \in Times \cup {0}
      BY DEF ChartInv
    <3>2. f \in Seq(Nat) /\ (Len(f) >= 1 => f[Len(f)] = s1) /\ s1 \in Nat
      BY <3>1, SeriesIs, WidthOK
    <3>3. t = f[Len(f)] /\ ~(Len(f) < 2)
      BY <1>3 DEF K!T1, K!series, K!Empty
    <3> HIDE DEF f, t
    <3>4. Len(f) >= 1
      BY <3>2, <3>3
    <3> QED  BY <3>2, <3>3, <3>4
  <2> HIDE DEF t
  <2>2. /\ step \in Nat /\ (t <= step * ticks \/ t > 2 * 86400)
        /\ t >= 2 => step <= t \/ (ticks = 2 /\ t \in 241 .. 299)
    BY <1>2, <2>1, TimeStepIs, SMT
  <2> HIDE DEF step, ticks
  <2>3. ASSUME t <= step * ticks PROVE step * s3 >= t * (IF s3 < 140 THEN s3 \div 2 ELSE 70)
    <3>1. CASE s3 < 140
      <4> DEFINE h == s3 \div 2
      <4>1. ticks = 2 /\ h \in Nat /\ 2 * h <= s3
        BY <1>2, <3>1 DEF ticks
      <4> HIDE DEF h
      <4>2. t * h <= (step * 2) * h
        BY <2>1, <2>2, <2>3, <4>1
      <4>3. (step * 2) * h = step * (2 * h) /\ step * (2 * h) <= step * s3
        BY <1>2, <2>2, <4>1
      <4>4. t * h \in Nat /\ (step * 2) * h \in Nat /\ step * s3 \in Nat
        BY <1>2, <2>1, <2>2, <4>1
      <4>5. step * s3 >= t * h
        BY <4>2, <4>3, <4>4
      <4> QED  BY <3>1, <4>5 DEF h
    <3>2. CASE ~(s3 < 140)
      <4>1. ticks \in Nat /\ 70 * ticks <= s3
        BY <1>2, <3>2 DEF ticks
      <4>2. t * 70 <= (step * ticks) * 70
        BY <2>1, <2>2, <2>3, <4>1
      <4>3. (step * ticks) * 70 = step * (70 * ticks) /\ step * (70 * ticks) <= step * s3
        BY <1>2, <2>2, <4>1
      <4>4. t * 70 \in Nat /\ (step * ticks) * 70 \in Nat /\ step * s3 \in Nat
        BY <1>2, <2>1, <2>2, <4>1
      <4>5. step * s3 >= t * 70
        BY <4>2, <4>3, <4>4
      <4> QED  BY <3>2, <4>5
    <3> QED  BY <3>1, <3>2
  <2> QED  BY <2>2, <2>3, SMT DEF t, step, ticks
<1> QED  BY <1>1, <1>3, SMT DEF K!AxesFit

-----------------------------------------------------------------------------
(* The figures: each counter of a card counts the UEs of one set. *)

Crowd == Cardinality(Ues)

Marked(s, u) ==
    \/ /\ s1[u].stage = s
       /\ s1[u].step = "queued" => s2[u] > 0
       /\ s1[u].step = "begin" => s2[u] > 1
    \/ s = "registration" /\ s1[u].stage = "pdu"
Counted(s) == {u \in Ues : Marked(s, u)}
Running(s) == {u \in Ues : s1[u].stage = s /\ s1[u].step = "run"}
Skipped(s) == {u \in Ues : s = "pdu" /\ s1[u].stage = "registration" /\ s1[u].step \in {"settling", "over"}}
Passed(s) ==
    {u \in Ues : \/ s1[u].stage = s /\ (s1[u].step = "accepted" \/ (s1[u].step = "over" /\ s3[u] = "established"))
                 \/ s = "registration" /\ s1[u].stage = "pdu"}
TurnedDown(s) ==
    {u \in Ues : /\ s1[u].stage = s
                 /\ s1[u].step \in {"refused", "settling"} \/ (s1[u].step = "over" /\ s3[u] = "failed")}

FailedOf(c) == c.outcomes["rejected"] + c.outcomes["timedOut"]
EndedOf(c) == c.outcomes["accepted"] + FailedOf(c)
Cards == [attempted : Int, inFlight : Int, skipped : Int, outcomes : [G!Outcomes -> Nat], causes : [Causes -> Nat]]

CardCounts(s) ==
    /\ s5[s].attempted = Cardinality(Counted(s)) /\ s5[s].inFlight = Cardinality(Running(s))
    /\ s5[s].skipped = Cardinality(Skipped(s)) /\ s5[s].outcomes["accepted"] = Cardinality(Passed(s))
    /\ FailedOf(s5[s]) = Cardinality(TurnedDown(s)) /\ SumOn(s5[s].causes, Causes) = FailedOf(s5[s])

\* Where a UE is and what it is said to be.
UeFits(u) ==
    /\ s1[u].step \in {"begin", "run", "accepted", "again", "refused", "settling"} =>
        s2[u] > 0 /\ s3[u] = (IF s1[u].stage = "pdu" THEN "establishing" ELSE "registering")
    /\ s1[u].step = "queued" => s3[u] = (IF s1[u].stage = "pdu" THEN "registered" ELSE "pending")
    /\ s1[u].step = "over" => s3[u] \in {"failed", "established"}
    /\ s1[u].step = "over" /\ s1[u].stage = "registration" => s3[u] = "failed"

CardFits(c) ==
    /\ c \in Cards /\ c.inFlight \in Nat /\ EndedOf(c) + c.inFlight <= Crowd /\ EndedOf(c) <= c.attempted
    /\ SumOn(c.causes, Causes) = FailedOf(c)

AtPdu == {u \in Ues : s1[u].stage = "pdu"}
FailedFirst == {u \in Ues : s1[u].stage = "registration" /\ s3[u] = "failed"}

\* What is read of the registration stage stays true of the UEs while the run is locked.
SnapFits == s6 # None =>
    LET c == s6.registration IN
    /\ CardFits(c) /\ c.skipped = 0
    /\ Cardinality(AtPdu) <= c.outcomes["accepted"] /\ Cardinality(FailedFirst) <= FailedOf(c)
    /\ EndedOf(c) = Crowd => \A u \in Ues : s3[u] # "pending"

ShownFits == s7 # None =>
    LET a == s7.registration
        b == s7.pdu
        chips == s7.ues
    IN  /\ CardFits(a) /\ CardFits(b) /\ a.skipped = 0 /\ chips \in [G!UeStates -> Nat]
        /\ Cardinality(s7.failedUes) = chips["failed"] /\ chips["failed"] <= FailedOf(a) + FailedOf(b)
        /\ SumOn(chips, G!UeStates) = Crowd
        /\ chips["established"] <= b.outcomes["accepted"]
        /\ chips["registered"] + chips["establishing"] + chips["established"] <= a.outcomes["accepted"]
        /\ EndedOf(a) = Crowd => chips["pending"] = 0

UesMove ==
    /\ s1 \in [Ues -> [stage : G!Stages, step : G!Steps]] /\ s2 \in [Ues -> Nat] /\ s3 \in [Ues -> G!UeStates]
    /\ \A u \in Ues : UeFits(u)
    /\ s5 \in [G!Stages -> Cards] /\ \A s \in G!Stages : CardCounts(s)

FigInv ==
    /\ UesMove
    /\ s4 = {u \in Ues : s3[u] = "failed"}
    /\ SnapFits
    /\ ShownFits

LEMMA FigSame ==
    /\ \A Q : G!Cardinality(Q) = Cardinality(Q)
    /\ \A f, Q : G!FoldFunctionOnSet(+, 0, f, Q) = SumOn(f, Q)
<1>1. \A Q : G!Cardinality(Q) = Cardinality(Q)
  BY DEF G!Cardinality, Cardinality
<1>2. \A f, Q : G!FoldFunctionOnSet(+, 0, f, Q) = SumOn(f, Q)
  BY DEF G!FoldFunctionOnSet, FoldFunctionOnSet, SumOn, SumFrom, G!MapThenFoldSet, MapThenFoldSet
<1> QED  BY <1>1, <1>2

LEMMA Finites == IsFiniteSet(Ues) /\ Crowd \in Nat \ {0} /\ IsFiniteSet(Causes)
<1>1. IsFiniteSet(Ues) /\ Ues # {} /\ IsFiniteSet(Causes)
  BY PagesOK
<1>2. Crowd \in Nat /\ Crowd # 0
  BY <1>1, FS_CardinalityType, FS_EmptySet DEF Crowd
<1> QED  BY <1>1, <1>2

\* One UE moves, in or out.
LEMMA Tally ==
  ASSUME NEW A \in SUBSET Ues, NEW B \in SUBSET Ues, NEW u \in Ues, \A w \in Ues : w # u => (w \in A <=> w \in B)
  PROVE  /\ Cardinality(A) \in Nat /\ Cardinality(A) <= Crowd
         /\ Cardinality(B) = Cardinality(A) + (IF u \in B THEN 1 ELSE 0) - (IF u \in A THEN 1 ELSE 0)
<1> DEFINE Rest == A \ {u}
<1>1. IsFiniteSet(A) /\ IsFiniteSet(B) /\ IsFiniteSet(Rest) /\ Cardinality(A) <= Crowd
  BY Finites, FS_Subset DEF Crowd
<1>2. Cardinality(A) \in Nat /\ Cardinality(Rest) \in Nat
  BY <1>1, FS_CardinalityType
<1>3. A = (IF u \in A THEN Rest \cup {u} ELSE Rest) /\ B = (IF u \in B THEN Rest \cup {u} ELSE Rest)
  OBVIOUS
<1>4. Cardinality(Rest \cup {u}) = Cardinality(Rest) + 1
  BY <1>1, FS_AddElement
<1>5. Cardinality(A) = Cardinality(Rest) + (IF u \in A THEN 1 ELSE 0)
  BY <1>2, <1>3, <1>4
<1>6. Cardinality(B) = Cardinality(Rest) + (IF u \in B THEN 1 ELSE 0)
  BY <1>2, <1>3, <1>4
<1> HIDE DEF Rest
<1> QED  BY <1>1, <1>2, <1>5, <1>6

Bit(b) == IF b THEN 1 ELSE 0
Turns(A, B, u) == Cardinality(B) = Cardinality(A) + Bit(u \in B) - Bit(u \in A)

\* What a step of one UE does to the sets of a stage.
LEMMA Turned ==
  ASSUME NEW u \in Ues, \A w \in Ues : w # u => s1'[w] = s1[w] /\ s2'[w] = s2[w] /\ s3'[w] = s3[w]
  PROVE  \A s \in G!Stages :
            /\ Turns(Counted(s), Counted(s)', u) /\ Turns(Running(s), Running(s)', u)
            /\ Turns(Skipped(s), Skipped(s)', u) /\ Turns(Passed(s), Passed(s)', u)
            /\ Turns(TurnedDown(s), TurnedDown(s)', u)
<1> SUFFICES ASSUME NEW s \in G!Stages
    PROVE /\ Turns(Counted(s), Counted(s)', u) /\ Turns(Running(s), Running(s)', u)
          /\ Turns(Skipped(s), Skipped(s)', u) /\ Turns(Passed(s), Passed(s)', u)
          /\ Turns(TurnedDown(s), TurnedDown(s)', u)
  OBVIOUS
<1>1. Turns(Counted(s), Counted(s)', u)
  <2>1. Counted(s) \in SUBSET Ues /\ Counted(s)' \in SUBSET Ues
        /\ \A w \in Ues : w # u => (w \in Counted(s) <=> w \in Counted(s)')
    BY DEF Counted, Marked
  <2> QED  BY <2>1, Tally DEF Turns, Bit
<1>2. Turns(Running(s), Running(s)', u)
  <2>1. Running(s) \in SUBSET Ues /\ Running(s)' \in SUBSET Ues
        /\ \A w \in Ues : w # u => (w \in Running(s) <=> w \in Running(s)')
    BY DEF Running
  <2> QED  BY <2>1, Tally DEF Turns, Bit
<1>3. Turns(Skipped(s), Skipped(s)', u)
  <2>1. Skipped(s) \in SUBSET Ues /\ Skipped(s)' \in SUBSET Ues
        /\ \A w \in Ues : w # u => (w \in Skipped(s) <=> w \in Skipped(s)')
    BY DEF Skipped
  <2> QED  BY <2>1, Tally DEF Turns, Bit
<1>4. Turns(Passed(s), Passed(s)', u)
  <2>1. Passed(s) \in SUBSET Ues /\ Passed(s)' \in SUBSET Ues
        /\ \A w \in Ues : w # u => (w \in Passed(s) <=> w \in Passed(s)')
    BY DEF Passed
  <2> QED  BY <2>1, Tally DEF Turns, Bit
<1>5. Turns(TurnedDown(s), TurnedDown(s)', u)
  <2>1. TurnedDown(s) \in SUBSET Ues /\ TurnedDown(s)' \in SUBSET Ues
        /\ \A w \in Ues : w # u => (w \in TurnedDown(s) <=> w \in TurnedDown(s)')
    BY DEF TurnedDown
  <2> QED  BY <2>1, Tally DEF Turns, Bit
<1> QED  BY <1>1, <1>2, <1>3, <1>4, <1>5

-----------------------------------------------------------------------------
(* The steps of a UE. *)

Others(u) == \A w \in Ues : w # u => s1'[w] = s1[w] /\ s2'[w] = s2[w] /\ s3'[w] = s3[w]

\* A UE is somewhere else, the others where they were.
LEMMA UeGoes ==
  ASSUME UesMove, NEW u \in Ues, NEW stage \in G!Stages, NEW step \in G!Steps, G!Goes(u, stage, step),
         s2' \in [Ues -> Nat], s3' \in [Ues -> G!UeStates], \A w \in Ues : w # u => s2'[w] = s2[w] /\ s3'[w] = s3[w],
         UeFits(u)'
  PROVE  /\ s1' \in [Ues -> [stage : G!Stages, step : G!Steps]]
         /\ s1'[u].stage = stage /\ s1'[u].step = step
         /\ Others(u) /\ \A w \in Ues : UeFits(w)'
<1>1. s1 \in [Ues -> [stage : G!Stages, step : G!Steps]] /\ s1' = [s1 EXCEPT ![u] = [stage |-> stage, step |-> step]]
  BY DEF UesMove, G!Goes
<1>2. s1' \in [Ues -> [stage : G!Stages, step : G!Steps]] /\ s1'[u] = [stage |-> stage, step |-> step]
  BY <1>1
<1>3. Others(u)
  BY <1>1 DEF Others
<1>4. ASSUME NEW w \in Ues, w # u PROVE UeFits(w)'
  <2>1. UeFits(w) /\ s1'[w] = s1[w] /\ s2'[w] = s2[w] /\ s3'[w] = s3[w]
    BY <1>3, <1>4 DEF UesMove, Others
  <2> QED  BY <2>1 DEF UeFits
<1> QED  BY <1>2, <1>3, <1>4

\* A card no step counts in.
LEMMA CardsKept ==
  ASSUME UesMove, s5' = s5,
         \A s \in G!Stages : /\ Counted(s)' = Counted(s) /\ Running(s)' = Running(s) /\ Skipped(s)' = Skipped(s)
                             /\ Passed(s)' = Passed(s) /\ TurnedDown(s)' = TurnedDown(s)
  PROVE  s5' \in [G!Stages -> Cards] /\ \A s \in G!Stages : CardCounts(s)'
<1>1. ASSUME NEW s \in G!Stages PROVE CardCounts(s)'
  <2>1. CardCounts(s) /\ Counted(s)' = Counted(s) /\ Running(s)' = Running(s) /\ Skipped(s)' = Skipped(s)
        /\ Passed(s)' = Passed(s) /\ TurnedDown(s)' = TurnedDown(s)
    BY DEF UesMove
  <2> QED  BY <2>1 DEF CardCounts
<1> QED  BY <1>1 DEF UesMove

LEMMA SetsKept ==
  ASSUME NEW u \in Ues, Others(u), NEW s,
         Marked(s, u)' <=> Marked(s, u),
         u \in Running(s)' <=> u \in Running(s), u \in Skipped(s)' <=> u \in Skipped(s),
         u \in Passed(s)' <=> u \in Passed(s), u \in TurnedDown(s)' <=> u \in TurnedDown(s)
  PROVE  /\ Counted(s)' = Counted(s) /\ Running(s)' = Running(s) /\ Skipped(s)' = Skipped(s)
         /\ Passed(s)' = Passed(s) /\ TurnedDown(s)' = TurnedDown(s)
<1>1. Counted(s)' = Counted(s)
  BY DEF Others, Counted, Marked
<1>2. Running(s)' = Running(s)
  BY DEF Others, Running
<1>3. Skipped(s)' = Skipped(s)
  BY DEF Others, Skipped
<1>4. Passed(s)' = Passed(s)
  BY DEF Others, Passed
<1>5. TurnedDown(s)' = TurnedDown(s)
  BY DEF Others, TurnedDown
<1> QED  BY <1>1, <1>2, <1>3, <1>4, <1>5

\* Where a UE is, spelt out.
LEMMA UeIs ==
  ASSUME UesMove, NEW u \in Ues
  PROVE  /\ s1[u].stage \in {"registration", "pdu"} /\ s1[u].step \in G!Steps
         /\ s2[u] \in Nat /\ s3[u] \in G!UeStates /\ UeFits(u)
  BY DEF UesMove, G!Stages

LEMMA AttemptMoves ==
  ASSUME UesMove, NEW u \in Ues, G!Attempt(u)
  PROVE  UesMove' /\ s3[u] # "failed" /\ s3'[u] # "failed" /\ Others(u)
<1> DEFINE stage == s1[u].stage
<1>1. /\ s1[u].step = "queued" /\ s2' = [s2 EXCEPT ![u] = @ + 1] /\ G!Goes(u, stage, "begin") /\ s5' = s5
      /\ s3' = [s3 EXCEPT ![u] = IF stage = "pdu" THEN "establishing" ELSE "registering"]
  BY DEF G!Attempt, G!At
<1>2. stage \in {"registration", "pdu"} /\ s2[u] \in Nat /\ UeFits(u) /\ stage \in G!Stages /\ "begin" \in G!Steps
  BY UeIs DEF G!Stages, G!Steps
<1>3. /\ s2' \in [Ues -> Nat] /\ s3' \in [Ues -> G!UeStates]
      /\ s2'[u] = s2[u] + 1 /\ s3'[u] = IF stage = "pdu" THEN "establishing" ELSE "registering"
      /\ \A w \in Ues : w # u => s2'[w] = s2[w] /\ s3'[w] = s3[w]
  BY <1>1, <1>2 DEF UesMove, G!UeStates
<1>4. s1'[u].stage = stage /\ s1'[u].step = "begin"
  BY <1>1 DEF UesMove, G!Goes
<1>5. UeFits(u)'
  BY <1>2, <1>3, <1>4 DEF UeFits
<1>6. s1' \in [Ues -> [stage : G!Stages, step : G!Steps]] /\ Others(u) /\ \A w \in Ues : UeFits(w)'
  BY <1>1, <1>2, <1>3, <1>5, UeGoes
<1>7. ASSUME NEW s \in G!Stages
      PROVE /\ Counted(s)' = Counted(s) /\ Running(s)' = Running(s) /\ Skipped(s)' = Skipped(s)
            /\ Passed(s)' = Passed(s) /\ TurnedDown(s)' = TurnedDown(s)
  <2>1. Marked(s, u)' <=> Marked(s, u)
    BY <1>1, <1>2, <1>3, <1>4 DEF Marked
  <2>2. (u \in Running(s)' <=> u \in Running(s)) /\ (u \in Skipped(s)' <=> u \in Skipped(s))
    BY <1>1, <1>4 DEF Running, Skipped
  <2>3. (u \in Passed(s)' <=> u \in Passed(s)) /\ (u \in TurnedDown(s)' <=> u \in TurnedDown(s))
    BY <1>1, <1>4 DEF Passed, TurnedDown
  <2> QED  BY <1>6, <2>1, <2>2, <2>3, SetsKept
<1>8. s5' \in [G!Stages -> Cards] /\ \A s \in G!Stages : CardCounts(s)'
  BY <1>1, <1>7, CardsKept
<1>9. UesMove'
  BY <1>3, <1>6, <1>8 DEF UesMove
<1> QED  BY <1>1, <1>2, <1>3, <1>6, <1>9 DEF UeFits

LEMMA AcceptedMoves ==
  ASSUME UesMove, NEW u \in Ues, G!Accepted(u)
  PROVE  UesMove' /\ s3[u] # "failed" /\ s3'[u] # "failed" /\ Others(u)
<1> DEFINE stage == s1[u].stage
           step == IF stage = "pdu" THEN "over" ELSE "queued"
<1>1. /\ s1[u].step = "accepted" /\ s2' = [s2 EXCEPT ![u] = 0] /\ G!Goes(u, "pdu", step) /\ s5' = s5
      /\ s3' = [s3 EXCEPT ![u] = IF stage = "pdu" THEN "established" ELSE "registered"]
  BY DEF G!Accepted, G!At
<1>2. /\ stage \in {"registration", "pdu"} /\ s2[u] \in Nat /\ UeFits(u)
      /\ "pdu" \in G!Stages /\ step \in G!Steps
  BY UeIs DEF G!Stages, G!Steps
<1>3. /\ s2' \in [Ues -> Nat] /\ s3' \in [Ues -> G!UeStates]
      /\ s2'[u] = 0 /\ s3'[u] = IF stage = "pdu" THEN "established" ELSE "registered"
      /\ \A w \in Ues : w # u => s2'[w] = s2[w] /\ s3'[w] = s3[w]
  BY <1>1, <1>2 DEF UesMove, G!UeStates
<1>4. s1'[u].stage = "pdu" /\ s1'[u].step = step
  BY <1>1 DEF UesMove, G!Goes
<1>5. UeFits(u)'
  BY <1>2, <1>3, <1>4 DEF UeFits
<1>6. s1' \in [Ues -> [stage : G!Stages, step : G!Steps]] /\ Others(u) /\ \A w \in Ues : UeFits(w)'
  BY <1>1, <1>2, <1>3, <1>5, UeGoes
<1>7. ASSUME NEW s \in G!Stages
      PROVE /\ Counted(s)' = Counted(s) /\ Running(s)' = Running(s) /\ Skipped(s)' = Skipped(s)
            /\ Passed(s)' = Passed(s) /\ TurnedDown(s)' = TurnedDown(s)
  <2>0. s = "registration" \/ s = "pdu"
    BY DEF G!Stages
  <2>1. Marked(s, u)' <=> Marked(s, u)
    BY <1>1, <1>2, <1>3, <1>4, <2>0 DEF Marked
  <2>2. (u \in Running(s)' <=> u \in Running(s)) /\ (u \in Skipped(s)' <=> u \in Skipped(s))
    BY <1>1, <1>2, <1>4, <2>0 DEF Running, Skipped
  <2>3. u \in Passed(s)' <=> u \in Passed(s)
    BY <1>1, <1>2, <1>3, <1>4, <2>0 DEF Passed
  <2>4. u \in TurnedDown(s)' <=> u \in TurnedDown(s)
    BY <1>1, <1>2, <1>3, <1>4, <2>0 DEF TurnedDown
  <2> QED  BY <1>6, <2>1, <2>2, <2>3, <2>4, SetsKept
<1>8. s5' \in [G!Stages -> Cards] /\ \A s \in G!Stages : CardCounts(s)'
  BY <1>1, <1>7, CardsKept
<1>9. UesMove'
  BY <1>3, <1>6, <1>8 DEF UesMove
<1> QED  BY <1>1, <1>2, <1>3, <1>6, <1>9 DEF UeFits

LEMMA RequeuedMoves ==
  ASSUME UesMove, NEW u \in Ues, G!Requeued(u)
  PROVE  UesMove' /\ s3[u] # "failed" /\ s3'[u] # "failed" /\ Others(u)
<1> DEFINE stage == s1[u].stage
<1>1. /\ s1[u].step = "again" /\ s2' = s2 /\ G!Goes(u, stage, "queued") /\ s5' = s5
      /\ s3' = [s3 EXCEPT ![u] = IF stage = "pdu" THEN "registered" ELSE "pending"]
  BY DEF G!Requeued, G!At
<1>2. stage \in {"registration", "pdu"} /\ s2[u] \in Nat /\ UeFits(u) /\ stage \in G!Stages /\ "queued" \in G!Steps
  BY UeIs DEF G!Stages, G!Steps
<1>3. /\ s2' \in [Ues -> Nat] /\ s3' \in [Ues -> G!UeStates]
      /\ s2'[u] = s2[u] /\ s3'[u] = IF stage = "pdu" THEN "registered" ELSE "pending"
      /\ \A w \in Ues : w # u => s2'[w] = s2[w] /\ s3'[w] = s3[w]
  BY <1>1, <1>2 DEF UesMove, G!UeStates
<1>4. s1'[u].stage = stage /\ s1'[u].step = "queued"
  BY <1>1 DEF UesMove, G!Goes
<1>5. UeFits(u)'
  BY <1>2, <1>3, <1>4 DEF UeFits
<1>6. s1' \in [Ues -> [stage : G!Stages, step : G!Steps]] /\ Others(u) /\ \A w \in Ues : UeFits(w)'
  BY <1>1, <1>2, <1>3, <1>5, UeGoes
<1>7. ASSUME NEW s \in G!Stages
      PROVE /\ Counted(s)' = Counted(s) /\ Running(s)' = Running(s) /\ Skipped(s)' = Skipped(s)
            /\ Passed(s)' = Passed(s) /\ TurnedDown(s)' = TurnedDown(s)
  <2>1. Marked(s, u)' <=> Marked(s, u)
    BY <1>1, <1>2, <1>3, <1>4 DEF Marked, UeFits
  <2>2. (u \in Running(s)' <=> u \in Running(s)) /\ (u \in Skipped(s)' <=> u \in Skipped(s))
    BY <1>1, <1>4 DEF Running, Skipped
  <2>3. (u \in Passed(s)' <=> u \in Passed(s)) /\ (u \in TurnedDown(s)' <=> u \in TurnedDown(s))
    BY <1>1, <1>4 DEF Passed, TurnedDown
  <2> QED  BY <1>6, <2>1, <2>2, <2>3, SetsKept
<1>8. s5' \in [G!Stages -> Cards] /\ \A s \in G!Stages : CardCounts(s)'
  BY <1>1, <1>7, CardsKept
<1>9. UesMove'
  BY <1>3, <1>6, <1>8 DEF UesMove
<1> QED  BY <1>1, <1>2, <1>3, <1>6, <1>9 DEF UeFits

LEMMA FailedMoves ==
  ASSUME UesMove, NEW u \in Ues, G!Failed(u)
  PROVE  UesMove' /\ s3'[u] = "failed" /\ Others(u)
<1> DEFINE stage == s1[u].stage
<1>1. /\ s1[u].step = "settling" /\ s2' = s2 /\ G!Goes(u, stage, "over") /\ s5' = s5
      /\ s3' = [s3 EXCEPT ![u] = "failed"]
  BY DEF G!Failed, G!At
<1>2. stage \in {"registration", "pdu"} /\ s2[u] \in Nat /\ UeFits(u) /\ stage \in G!Stages /\ "over" \in G!Steps
  BY UeIs DEF G!Stages, G!Steps
<1>3. /\ s2' \in [Ues -> Nat] /\ s3' \in [Ues -> G!UeStates]
      /\ s2'[u] = s2[u] /\ s3'[u] = "failed"
      /\ \A w \in Ues : w # u => s2'[w] = s2[w] /\ s3'[w] = s3[w]
  BY <1>1, <1>2 DEF UesMove, G!UeStates
<1>4. s1'[u].stage = stage /\ s1'[u].step = "over"
  BY <1>1 DEF UesMove, G!Goes
<1>5. UeFits(u)'
  BY <1>2, <1>3, <1>4 DEF UeFits
<1>6. s1' \in [Ues -> [stage : G!Stages, step : G!Steps]] /\ Others(u) /\ \A w \in Ues : UeFits(w)'
  BY <1>1, <1>2, <1>3, <1>5, UeGoes
<1>7. ASSUME NEW s \in G!Stages
      PROVE /\ Counted(s)' = Counted(s) /\ Running(s)' = Running(s) /\ Skipped(s)' = Skipped(s)
            /\ Passed(s)' = Passed(s) /\ TurnedDown(s)' = TurnedDown(s)
  <2>1. Marked(s, u)' <=> Marked(s, u)
    BY <1>1, <1>2, <1>3, <1>4 DEF Marked
  <2>2. (u \in Running(s)' <=> u \in Running(s)) /\ (u \in Skipped(s)' <=> u \in Skipped(s))
    BY <1>1, <1>4 DEF Running, Skipped
  <2>3. (u \in Passed(s)' <=> u \in Passed(s)) /\ (u \in TurnedDown(s)' <=> u \in TurnedDown(s))
    BY <1>1, <1>3, <1>4 DEF Passed, TurnedDown
  <2> QED  BY <1>6, <2>1, <2>2, <2>3, SetsKept
<1>8. s5' \in [G!Stages -> Cards] /\ \A s \in G!Stages : CardCounts(s)'
  BY <1>1, <1>7, CardsKept
<1>9. UesMove'
  BY <1>3, <1>6, <1>8 DEF UesMove
<1> QED  BY <1>3, <1>6, <1>9

Unmoved(s, u) ==
    /\ Marked(s, u)' <=> Marked(s, u)
    /\ u \in Running(s)' <=> u \in Running(s)
    /\ u \in Skipped(s)' <=> u \in Skipped(s)
    /\ u \in Passed(s)' <=> u \in Passed(s)
    /\ u \in TurnedDown(s)' <=> u \in TurnedDown(s)
CardMoves(t, u) ==
    /\ s5'[t].attempted = s5[t].attempted + Bit(u \in Counted(t)') - Bit(u \in Counted(t))
    /\ s5'[t].inFlight = s5[t].inFlight + Bit(u \in Running(t)') - Bit(u \in Running(t))
    /\ s5'[t].skipped = s5[t].skipped + Bit(u \in Skipped(t)') - Bit(u \in Skipped(t))
    /\ s5'[t].outcomes["accepted"] = s5[t].outcomes["accepted"] + Bit(u \in Passed(t)') - Bit(u \in Passed(t))
    /\ FailedOf(s5'[t]) = FailedOf(s5[t]) + Bit(u \in TurnedDown(t)') - Bit(u \in TurnedDown(t))
    /\ SumOn(s5'[t].causes, Causes) = FailedOf(s5'[t])

\* A stage's card moves with the sets, the other stage's stays with them.
LEMMA CardsTurned ==
  ASSUME UesMove, NEW u \in Ues, Others(u), NEW t \in G!Stages, CardMoves(t, u),
         \A s \in G!Stages : s # t => s5'[s] = s5[s] /\ Unmoved(s, u)
  PROVE  \A s \in G!Stages : CardCounts(s)'
<1>1. CardCounts(t)'
  <2>1. CardCounts(t)
    BY DEF UesMove
  <2>2. /\ Turns(Counted(t), Counted(t)', u) /\ Turns(Running(t), Running(t)', u)
        /\ Turns(Skipped(t), Skipped(t)', u) /\ Turns(Passed(t), Passed(t)', u)
        /\ Turns(TurnedDown(t), TurnedDown(t)', u)
    BY Turned DEF Others
  <2>3. s5'[t].attempted = Cardinality(Counted(t)') /\ s5'[t].inFlight = Cardinality(Running(t)')
    BY <2>1, <2>2 DEF CardCounts, Turns, CardMoves
  <2>4. s5'[t].skipped = Cardinality(Skipped(t)') /\ s5'[t].outcomes["accepted"] = Cardinality(Passed(t)')
    BY <2>1, <2>2 DEF CardCounts, Turns, CardMoves
  <2>5. FailedOf(s5'[t]) = Cardinality(TurnedDown(t)')
    BY <2>1, <2>2 DEF CardCounts, Turns, CardMoves
  <2> QED  BY <2>3, <2>4, <2>5 DEF CardCounts, CardMoves
<1>2. ASSUME NEW s \in G!Stages, s # t PROVE CardCounts(s)'
  <2>1. CardCounts(s) /\ s5'[s] = s5[s]
    BY <1>2 DEF UesMove
  <2>2. /\ Counted(s)' = Counted(s) /\ Running(s)' = Running(s) /\ Skipped(s)' = Skipped(s)
        /\ Passed(s)' = Passed(s) /\ TurnedDown(s)' = TurnedDown(s)
    <3>1. Marked(s, u)' <=> Marked(s, u)
      BY <1>2 DEF Unmoved
    <3>2. (u \in Running(s)' <=> u \in Running(s)) /\ (u \in Skipped(s)' <=> u \in Skipped(s))
          /\ (u \in Passed(s)' <=> u \in Passed(s)) /\ (u \in TurnedDown(s)' <=> u \in TurnedDown(s))
      BY <1>2 DEF Unmoved
    <3> QED  BY <3>1, <3>2, SetsKept
  <2> QED  BY <2>1, <2>2 DEF CardCounts
<1> QED  BY <1>1, <1>2

LEMMA CardIs ==
  ASSUME NEW c \in Cards
  PROVE  c = [attempted |-> c.attempted, inFlight |-> c.inFlight, skipped |-> c.skipped, outcomes |-> c.outcomes,
              causes |-> c.causes]
  BY DEF Cards

LEMMA CardHas ==
  ASSUME NEW c \in Cards
  PROVE  /\ c.attempted \in Int /\ c.inFlight \in Int /\ c.skipped \in Int
         /\ c.outcomes \in [G!Outcomes -> Nat] /\ c.causes \in [Causes -> Nat]
         /\ \A o \in G!Outcomes : c.outcomes[o] \in Nat
         /\ FailedOf(c) \in Nat /\ EndedOf(c) \in Nat
<1>1. /\ c.attempted \in Int /\ c.inFlight \in Int /\ c.skipped \in Int
      /\ c.outcomes \in [G!Outcomes -> Nat] /\ c.causes \in [Causes -> Nat]
  BY DEF Cards
<1>2. \A o \in G!Outcomes : c.outcomes[o] \in Nat
  BY <1>1
<1>3. c.outcomes["accepted"] \in Nat /\ c.outcomes["rejected"] \in Nat /\ c.outcomes["timedOut"] \in Nat
  BY <1>2 DEF G!Outcomes
<1> QED  BY <1>1, <1>2, <1>3 DEF FailedOf, EndedOf

LEMMA BegunCard ==
  ASSUME NEW V, NEW t \in V, s5 \in [V -> Cards], NEW again \in BOOLEAN,
         s5' = [s5 EXCEPT ![t].inFlight = @ + 1, ![t].attempted = IF again THEN @ ELSE @ + 1]
  PROVE  /\ s5' \in [V -> Cards] /\ \A s \in V : s # t => s5'[s] = s5[s]
         /\ s5'[t].attempted = (IF again THEN s5[t].attempted ELSE s5[t].attempted + 1)
         /\ s5'[t].inFlight = s5[t].inFlight + 1 /\ s5'[t].skipped = s5[t].skipped
         /\ s5'[t].outcomes = s5[t].outcomes /\ s5'[t].causes = s5[t].causes
<1> DEFINE c == s5[t]
           e == [s5 EXCEPT ![t].inFlight = @ + 1]
<1>1. c \in Cards
  OBVIOUS
<1>2. c = [attempted |-> c.attempted, inFlight |-> c.inFlight, skipped |-> c.skipped, outcomes |-> c.outcomes,
           causes |-> c.causes]
  BY <1>1, CardIs
<1>3. e[t] = [c EXCEPT !.inFlight = @ + 1] /\ t \in DOMAIN e
  OBVIOUS
<1>4. e[t] = [attempted |-> c.attempted, inFlight |-> c.inFlight + 1, skipped |-> c.skipped, outcomes |-> c.outcomes,
              causes |-> c.causes]
  BY <1>2, <1>3
<1>5. s5' = [e EXCEPT ![t].attempted = IF again THEN @ ELSE @ + 1]
  OBVIOUS
<1>0. \A s \in V : s # t => s5'[s] = s5[s]
  OBVIOUS
<1> HIDE DEF e
<1>6. s5'[t] = [e[t] EXCEPT !.attempted = IF again THEN @ ELSE @ + 1]
  BY <1>3, <1>5
<1> HIDE DEF c
<1>7. s5'[t] = [attempted |-> IF again THEN c.attempted ELSE c.attempted + 1, inFlight |-> c.inFlight + 1,
                skipped |-> c.skipped, outcomes |-> c.outcomes, causes |-> c.causes]
  BY <1>4, <1>6
<1>8. s5'[t] \in Cards
  BY <1>1, <1>7, CardHas DEF Cards
<1>9. s5' \in [V -> Cards]
  BY <1>8
<1> QED  BY <1>0, <1>7, <1>9 DEF c

LEMMA RetriedCard ==
  ASSUME NEW V, NEW t \in V, s5 \in [V -> Cards], s5' = [s5 EXCEPT ![t].inFlight = @ - 1]
  PROVE  /\ s5' \in [V -> Cards] /\ \A s \in V : s # t => s5'[s] = s5[s]
         /\ s5'[t].attempted = s5[t].attempted /\ s5'[t].inFlight = s5[t].inFlight - 1
         /\ s5'[t].skipped = s5[t].skipped
         /\ s5'[t].outcomes = s5[t].outcomes /\ s5'[t].causes = s5[t].causes
<1> DEFINE c == s5[t]
<1>1. c \in Cards
  OBVIOUS
<1>2. c = [attempted |-> c.attempted, inFlight |-> c.inFlight, skipped |-> c.skipped, outcomes |-> c.outcomes,
           causes |-> c.causes]
  BY <1>1, CardIs
<1>3. s5'[t] = [c EXCEPT !.inFlight = @ - 1] /\ \A s \in V : s # t => s5'[s] = s5[s]
  OBVIOUS
<1> HIDE DEF c
<1>4. s5'[t] = [attempted |-> c.attempted, inFlight |-> c.inFlight - 1, skipped |-> c.skipped, outcomes |-> c.outcomes,
                causes |-> c.causes]
  BY <1>2, <1>3
<1>5. s5'[t] \in Cards
  BY <1>1, <1>4, CardHas DEF Cards
<1>6. s5' \in [V -> Cards]
  BY <1>5
<1> QED  BY <1>3, <1>4, <1>6 DEF c

LEMMA SkippedCard ==
  ASSUME NEW V, NEW t \in V, s5 \in [V -> Cards], s5' = [s5 EXCEPT ![t].skipped = @ + 1]
  PROVE  /\ s5' \in [V -> Cards] /\ \A s \in V : s # t => s5'[s] = s5[s]
         /\ s5'[t].attempted = s5[t].attempted /\ s5'[t].inFlight = s5[t].inFlight
         /\ s5'[t].skipped = s5[t].skipped + 1
         /\ s5'[t].outcomes = s5[t].outcomes /\ s5'[t].causes = s5[t].causes
<1> DEFINE c == s5[t]
<1>1. c \in Cards
  OBVIOUS
<1>2. c = [attempted |-> c.attempted, inFlight |-> c.inFlight, skipped |-> c.skipped, outcomes |-> c.outcomes,
           causes |-> c.causes]
  BY <1>1, CardIs
<1>3. s5'[t] = [c EXCEPT !.skipped = @ + 1] /\ \A s \in V : s # t => s5'[s] = s5[s]
  OBVIOUS
<1> HIDE DEF c
<1>4. s5'[t] = [attempted |-> c.attempted, inFlight |-> c.inFlight, skipped |-> c.skipped + 1, outcomes |-> c.outcomes,
                causes |-> c.causes]
  BY <1>2, <1>3
<1>5. s5'[t] \in Cards
  BY <1>1, <1>4, CardHas DEF Cards
<1>6. s5' \in [V -> Cards]
  BY <1>5
<1> QED  BY <1>3, <1>4, <1>6 DEF c

CardFinishes(V, t, outcome, cause) ==
    /\ s5' \in [V -> Cards] /\ \A s \in V : s # t => s5'[s] = s5[s]
    /\ s5'[t].attempted = s5[t].attempted /\ s5'[t].inFlight = s5[t].inFlight - 1
    /\ s5'[t].skipped = s5[t].skipped
    /\ s5'[t].outcomes = [s5[t].outcomes EXCEPT ![outcome] = @ + 1]
    /\ s5'[t].causes = [s5[t].causes EXCEPT ![cause] = IF outcome = "accepted" THEN @ ELSE @ + 1]

LEMMA FinishedCard ==
  ASSUME NEW V, NEW t \in V, s5 \in [V -> Cards], NEW outcome \in G!Outcomes, NEW cause \in Causes,
         G!Finish(t, outcome, cause)
  PROVE  CardFinishes(V, t, outcome, cause)
<1> DEFINE c == s5[t]
           outs == [c.outcomes EXCEPT ![outcome] = @ + 1]
           whys == [c.causes EXCEPT ![cause] = IF outcome = "accepted" THEN @ ELSE @ + 1]
           e == [s5 EXCEPT ![t].inFlight = @ - 1]
           f == [e EXCEPT ![t].outcomes[outcome] = @ + 1]
<1>1. c \in Cards
  OBVIOUS
<1>2. c = [attempted |-> c.attempted, inFlight |-> c.inFlight, skipped |-> c.skipped, outcomes |-> c.outcomes,
           causes |-> c.causes]
  BY <1>1, CardIs
<1>3. e[t] = [c EXCEPT !.inFlight = @ - 1] /\ t \in DOMAIN e /\ \A s \in V : s # t => e[s] = s5[s]
  OBVIOUS
<1>d. DOMAIN e = V
  OBVIOUS
<1>4. e[t] = [attempted |-> c.attempted, inFlight |-> c.inFlight - 1, skipped |-> c.skipped, outcomes |-> c.outcomes,
              causes |-> c.causes]
  BY <1>2, <1>3
<1>5. s5' = [f EXCEPT ![t].causes[cause] = IF outcome = "accepted" THEN @ ELSE @ + 1]
  BY DEF G!Finish
<1> HIDE DEF e
<1>f. f[t] = [e[t] EXCEPT !.outcomes = [e[t].outcomes EXCEPT ![outcome] = e[t].outcomes[outcome] + 1]]
  BY <1>3, <1>d
<1>6. t \in DOMAIN f /\ \A s \in V : s # t => f[s] = e[s]
  BY <1>3, <1>d
<1>e. DOMAIN f = V
  BY <1>d
<1> HIDE DEF f, c, outs, whys
<1>7. f[t] = [attempted |-> c.attempted, inFlight |-> c.inFlight - 1, skipped |-> c.skipped, outcomes |-> outs,
              causes |-> c.causes]
  <2>1. e[t].outcomes = c.outcomes
    BY <1>4
  <2>2. f[t] = [e[t] EXCEPT !.outcomes = outs]
    BY <1>f, <2>1 DEF outs
  <2> QED  BY <1>4, <2>2
<1>8. \A s \in V : s # t => s5'[s] = f[s]
  BY <1>5, <1>6, <1>e
<1>9. s5'[t] = [attempted |-> c.attempted, inFlight |-> c.inFlight - 1, skipped |-> c.skipped, outcomes |-> outs,
                causes |-> whys]
  <2> DEFINE new == [f[t].causes EXCEPT ![cause] = IF outcome = "accepted" THEN @ ELSE @ + 1]
  <2>0. s5' = [f EXCEPT ![t].causes = new]
    BY <1>5
  <2>1. s5'[t] = [f[t] EXCEPT !.causes = new]
    <3> HIDE DEF new
    <3> QED  BY <1>6, <2>0
  <2>2. f[t].causes = c.causes
    BY <1>7
  <2>3. s5'[t] = [f[t] EXCEPT !.causes = whys]
    BY <2>1, <2>2 DEF whys
  <2> QED  BY <1>7, <2>3
<1>10. outs \in [G!Outcomes -> Nat] /\ whys \in [Causes -> Nat]
  BY <1>1, CardHas DEF outs, whys
<1>11. s5'[t] \in Cards
  BY <1>1, <1>9, <1>10, CardHas DEF Cards
<1>12. \A s \in V : s # t => s5'[s] = s5[s]
  BY <1>3, <1>6, <1>8
<1>13. s5' \in [V -> Cards]
  <2>1. DOMAIN s5' = V /\ s5' = [s \in V |-> s5'[s]]
    BY <1>5, <1>e
  <2>2. \A s \in V : s5'[s] \in Cards
    BY <1>11, <1>12
  <2> QED  BY <2>1, <2>2
<1> QED  BY <1>9, <1>12, <1>13 DEF c, outs, whys, CardFinishes

LEMMA BeginMoves ==
  ASSUME UesMove, NEW u \in Ues, G!Begin(u)
  PROVE  UesMove' /\ Others(u) /\ s1'[u].stage = s1[u].stage
<1> DEFINE t == s1[u].stage
<1>1. /\ s1[u].step = "begin" /\ s2' = s2 /\ s3' = s3 /\ G!Goes(u, t, "run")
      /\ s5' = [s5 EXCEPT ![t].inFlight = @ + 1, ![t].attempted = IF s2[u] > 1 THEN @ ELSE @ + 1]
  BY DEF G!Begin, G!At
<1>2. t \in {"registration", "pdu"} /\ s2[u] \in Nat /\ UeFits(u) /\ t \in G!Stages /\ "run" \in G!Steps
  BY UeIs DEF G!Stages, G!Steps
<1>3. s2' \in [Ues -> Nat] /\ s3' \in [Ues -> G!UeStates]
      /\ \A w \in Ues : w # u => s2'[w] = s2[w] /\ s3'[w] = s3[w]
  BY <1>1 DEF UesMove
<1>4. s1'[u].stage = t /\ s1'[u].step = "run"
  BY <1>1 DEF UesMove, G!Goes
<1>5. UeFits(u)'
  BY <1>1, <1>2, <1>3, <1>4 DEF UeFits
<1>6. s1' \in [Ues -> [stage : G!Stages, step : G!Steps]] /\ Others(u) /\ \A w \in Ues : UeFits(w)'
  BY <1>1, <1>2, <1>3, <1>5, UeGoes
<1>7. s5 \in [G!Stages -> Cards] /\ s5[t] \in Cards
  BY <1>2, SMTT(40) DEF UesMove
<1>8. s5' \in [G!Stages -> Cards] /\ \A s \in G!Stages : s # t => s5'[s] = s5[s]
  <2> DEFINE again == s2[u] > 1
  <2>1. again \in BOOLEAN /\ s5' = [s5 EXCEPT ![t].inFlight = @ + 1, ![t].attempted = IF again THEN @ ELSE @ + 1]
    BY <1>1, <1>2
  <2> HIDE DEF again
  <2> QED  BY <1>2, <1>7, <2>1, BegunCard
<1>9. /\ s5'[t].attempted = (IF s2[u] > 1 THEN s5[t].attempted ELSE s5[t].attempted + 1)
      /\ s5'[t].inFlight = s5[t].inFlight + 1 /\ s5'[t].skipped = s5[t].skipped
      /\ s5'[t].outcomes = s5[t].outcomes /\ s5'[t].causes = s5[t].causes
  <2> DEFINE again == s2[u] > 1
  <2>1. again \in BOOLEAN /\ s5' = [s5 EXCEPT ![t].inFlight = @ + 1, ![t].attempted = IF again THEN @ ELSE @ + 1]
    BY <1>1, <1>2
  <2> HIDE DEF again
  <2>2. s5'[t].attempted = (IF again THEN s5[t].attempted ELSE s5[t].attempted + 1)
    BY <1>2, <1>7, <2>1, BegunCard, ZenonT(60)
  <2>3. /\ s5'[t].inFlight = s5[t].inFlight + 1 /\ s5'[t].skipped = s5[t].skipped
        /\ s5'[t].outcomes = s5[t].outcomes /\ s5'[t].causes = s5[t].causes
    BY <1>2, <1>7, <2>1, BegunCard, ZenonT(60)
  <2> QED  BY <2>2, <2>3, SMTT(40) DEF again
<1>12. ASSUME NEW s \in G!Stages, s # t PROVE Unmoved(s, u)
  BY <1>1, <1>4, <1>12 DEF Unmoved, Marked, Running, Skipped, Passed, TurnedDown
<1>13. (u \in Counted(t) <=> s2[u] > 1) /\ u \in Counted(t)' /\ u \notin Running(t) /\ u \in Running(t)'
  BY <1>1, <1>2, <1>4 DEF Counted, Marked, Running
<1>14. (u \in Skipped(t)' <=> u \in Skipped(t)) /\ (u \in Passed(t)' <=> u \in Passed(t))
       /\ (u \in TurnedDown(t)' <=> u \in TurnedDown(t))
  BY <1>1, <1>4 DEF Skipped, Passed, TurnedDown
<1>15. s5[t].attempted \in Int /\ s5[t].inFlight \in Int /\ s5[t].skipped \in Int
       /\ s5[t].outcomes["accepted"] \in Int /\ FailedOf(s5[t]) \in Int
  BY <1>7, CardHas DEF G!Outcomes
<1>16. /\ s5'[t].attempted = s5[t].attempted + Bit(u \in Counted(t)') - Bit(u \in Counted(t))
       /\ s5'[t].inFlight = s5[t].inFlight + Bit(u \in Running(t)') - Bit(u \in Running(t))
  BY <1>2, <1>9, <1>13, <1>15 DEF Bit
<1>17. /\ s5'[t].skipped = s5[t].skipped + Bit(u \in Skipped(t)') - Bit(u \in Skipped(t))
       /\ s5'[t].outcomes["accepted"] = s5[t].outcomes["accepted"] + Bit(u \in Passed(t)') - Bit(u \in Passed(t))
       /\ FailedOf(s5'[t]) = FailedOf(s5[t]) + Bit(u \in TurnedDown(t)') - Bit(u \in TurnedDown(t))
  BY <1>9, <1>14, <1>15 DEF Bit, FailedOf
<1>18. SumOn(s5'[t].causes, Causes) = FailedOf(s5'[t])
  <2>1. CardCounts(t)
    BY <1>2 DEF UesMove
  <2> QED  BY <1>9, <2>1 DEF CardCounts, FailedOf
<1>19. \A s \in G!Stages : CardCounts(s)'
  <2>1. CardMoves(t, u)
    BY <1>16, <1>17, <1>18 DEF CardMoves
  <2> QED  BY <1>2, <1>6, <1>8, <1>12, <2>1, CardsTurned
<1>20. UesMove'
  BY <1>3, <1>6, <1>8, <1>19 DEF UesMove
<1> QED  BY <1>4, <1>6, <1>20

\* A UE goes on in its stage, and one card counts it.
LEMMA UeCounts ==
  ASSUME UesMove, NEW u \in Ues, NEW step \in G!Steps, G!Goes(u, s1[u].stage, step), s2' = s2, s3' = s3,
         UeFits(u)', NEW t \in G!Stages, s5' \in [G!Stages -> Cards],
         \A s \in G!Stages : s # t => s5'[s] = s5[s] /\ Unmoved(s, u), CardMoves(t, u)
  PROVE  UesMove' /\ Others(u) /\ s1'[u].stage = s1[u].stage
<1>1. s2' \in [Ues -> Nat] /\ s3' \in [Ues -> G!UeStates] /\ \A w \in Ues : w # u => s2'[w] = s2[w] /\ s3'[w] = s3[w]
  BY DEF UesMove
<1>2. s1[u].stage \in G!Stages
  BY DEF UesMove
<1>3. /\ s1' \in [Ues -> [stage : G!Stages, step : G!Steps]] /\ s1'[u].stage = s1[u].stage
      /\ Others(u) /\ \A w \in Ues : UeFits(w)'
  BY <1>1, <1>2, UeGoes
<1>4. \A s \in G!Stages : CardCounts(s)'
  BY <1>3, CardsTurned
<1>5. UesMove'
  BY <1>1, <1>3, <1>4 DEF UesMove
<1> QED  BY <1>3, <1>5

\* A cause is counted with each failure.
LEMMA CausesAdd ==
  ASSUME NEW f \in [Causes -> Nat], NEW g, NEW cause \in Causes, NEW n \in {0, 1}, g = [f EXCEPT ![cause] = @ + n]
  PROVE  SumOn(g, Causes) = SumOn(f, Causes) + n
<1>1. IsFiniteSet(Causes)
  BY Finites
<1>2. \A y \in Causes : f[y] \in Int
  OBVIOUS
<1>5. g[cause] = f[cause] + n /\ g[cause] \in Int /\ f[cause] \in Int
  OBVIOUS
<1>6. \A y \in Causes \ {cause} : g[y] = f[y]
  OBVIOUS
<1>7. g[cause] \in Int
  BY <1>5
<1>3. SumFrom(0, g, Causes) = SumFrom(0, f, Causes) + (g[cause] - f[cause])
  <2>1. 0 \in Int
    OBVIOUS
  <2> QED  BY ONLY <1>1, <1>2, <1>6, <1>7, <2>1, cause \in Causes, SumAt
<1>4. g[cause] - f[cause] = n
  BY <1>5
<1> QED  BY <1>3, <1>4 DEF SumOn

LEMMA AnsweredMoves ==
  ASSUME UesMove, NEW u \in Ues, G!Answered(u)
  PROVE  UesMove' /\ Others(u) /\ s1'[u].stage = s1[u].stage /\ s3' = s3
<1> DEFINE t == s1[u].stage
<1>1. s1[u].step = "run" /\ s2' = s2 /\ s3' = s3
  BY DEF G!Answered, G!At
<1>2. t \in {"registration", "pdu"} /\ s2[u] \in Nat /\ UeFits(u) /\ t \in G!Stages /\ "run" \in G!Steps
  BY UeIs DEF G!Stages, G!Steps
<1>3. PICK outcome \in G!Outcomes, cause \in Causes :
         IF outcome = "accepted" THEN G!Finish(t, outcome, cause) /\ G!Goes(u, t, "accepted")
         ELSE IF s2[u] <= Retries THEN G!Retrying(t) /\ G!Goes(u, t, "again")
         ELSE G!Finish(t, outcome, cause) /\ G!Goes(u, t, "refused")
  BY DEF G!Answered
<1>4. s5 \in [G!Stages -> Cards] /\ s5[t] \in Cards /\ CardCounts(t)
  BY <1>2 DEF UesMove
<1>5. s5[t].attempted \in Int /\ s5[t].inFlight \in Int /\ s5[t].skipped \in Int
      /\ s5[t].outcomes \in [G!Outcomes -> Nat] /\ s5[t].causes \in [Causes -> Nat] /\ FailedOf(s5[t]) \in Int
      /\ SumOn(s5[t].causes, Causes) = FailedOf(s5[t])
  BY <1>4, CardHas DEF CardCounts
<1>6. s5[t].outcomes["accepted"] \in Nat /\ s5[t].outcomes["rejected"] \in Nat /\ s5[t].outcomes["timedOut"] \in Nat
  BY <1>5 DEF G!Outcomes
\* In whichever way the UE goes on, it was under way and is counted.
<1>7. ASSUME NEW step \in {"accepted", "again", "refused"}, G!Goes(u, t, step)
      PROVE  /\ UeFits(u)' /\ \A s \in G!Stages : s # t => Unmoved(s, u)
             /\ u \in Counted(t) /\ u \in Counted(t)' /\ u \in Running(t) /\ u \notin Running(t)'
             /\ u \notin Skipped(t) /\ u \notin Skipped(t)' /\ u \notin TurnedDown(t)
             /\ (u \in Passed(t)' <=> step = "accepted" \/ u \in Passed(t))
             /\ (u \in Passed(t) => FALSE)
             /\ (u \in TurnedDown(t)' <=> step = "refused")
  <2>1. s1'[u].stage = t /\ s1'[u].step = step
    BY <1>7 DEF UesMove, G!Goes
  <2>2. UeFits(u)'
    BY <1>1, <1>2, <1>7, <2>1 DEF UeFits
  <2>3. \A s \in G!Stages : s # t => Unmoved(s, u)
    BY <1>1, <1>7, <2>1 DEF Unmoved, Marked, Running, Skipped, Passed, TurnedDown
  <2>4. u \in Counted(t) /\ u \in Counted(t)' /\ u \in Running(t) /\ u \notin Running(t)'
    BY <1>1, <1>2, <1>7, <2>1 DEF Counted, Marked, Running
  <2>5. u \notin Skipped(t) /\ u \notin Skipped(t)' /\ u \notin TurnedDown(t)
    BY <1>1, <1>2, <1>7, <2>1 DEF Skipped, TurnedDown
  <2>6. (u \in Passed(t)' <=> step = "accepted") /\ (u \in TurnedDown(t)' <=> step = "refused") /\ u \notin Passed(t)
    BY <1>1, <1>2, <1>7, <2>1, SMTT(40) DEF Passed, TurnedDown
  <2> QED  BY <2>2, <2>3, <2>4, <2>5, <2>6
<1> HIDE DEF t
<1>8. CASE outcome = "accepted"
  <2>1. G!Finish(t, outcome, cause) /\ G!Goes(u, t, "accepted")
    BY <1>3, <1>8
  <2>2. /\ s5' \in [G!Stages -> Cards] /\ \A s \in G!Stages : s # t => s5'[s] = s5[s]
        /\ s5'[t].attempted = s5[t].attempted /\ s5'[t].inFlight = s5[t].inFlight - 1
        /\ s5'[t].skipped = s5[t].skipped
        /\ s5'[t].outcomes = [s5[t].outcomes EXCEPT ![outcome] = @ + 1]
        /\ s5'[t].causes = [s5[t].causes EXCEPT ![cause] = IF outcome = "accepted" THEN @ ELSE @ + 1]
    <3>1. CardFinishes(G!Stages, t, outcome, cause)
      BY <1>2, <1>4, <2>1, FinishedCard
    <3> QED  BY <3>1 DEF CardFinishes
  <2>3. s5'[t].outcomes["accepted"] = s5[t].outcomes["accepted"] + 1 /\ FailedOf(s5'[t]) = FailedOf(s5[t])
        /\ s5'[t].causes = s5[t].causes
    BY <1>5, <1>8, <2>2 DEF FailedOf, G!Outcomes
  <2>4. CardMoves(t, u)
    BY <1>5, <1>6, <1>7, <2>1, <2>2, <2>3 DEF CardMoves, Bit
  <2>5. UeFits(u)' /\ \A s \in G!Stages : s # t => s5'[s] = s5[s] /\ Unmoved(s, u)
    BY <1>7, <2>1, <2>2, SMTT(40)
  <2> QED  BY <1>1, <1>2, <2>1, <2>2, <2>4, <2>5, UeCounts DEF G!Steps, t
<1>9. CASE outcome # "accepted" /\ s2[u] <= Retries
  <2>1. s5' = [s5 EXCEPT ![t].inFlight = @ - 1] /\ G!Goes(u, t, "again")
    BY <1>3, <1>9 DEF G!Retrying
  <2>2. /\ s5' \in [G!Stages -> Cards] /\ \A s \in G!Stages : s # t => s5'[s] = s5[s]
        /\ s5'[t].attempted = s5[t].attempted /\ s5'[t].inFlight = s5[t].inFlight - 1
        /\ s5'[t].skipped = s5[t].skipped
        /\ s5'[t].outcomes = s5[t].outcomes /\ s5'[t].causes = s5[t].causes
    BY <1>2, <1>4, <2>1, RetriedCard
  <2>3. FailedOf(s5'[t]) = FailedOf(s5[t])
    BY <2>2 DEF FailedOf
  <2>4. CardMoves(t, u)
    BY <1>5, <1>6, <1>7, <2>1, <2>2, <2>3 DEF CardMoves, Bit
  <2>5. UeFits(u)' /\ \A s \in G!Stages : s # t => s5'[s] = s5[s] /\ Unmoved(s, u)
    BY <1>7, <2>1, <2>2, SMTT(40)
  <2> QED  BY <1>1, <1>2, <2>1, <2>2, <2>4, <2>5, UeCounts, ZenonT(60) DEF G!Steps, t
<1>10. CASE outcome # "accepted" /\ ~(s2[u] <= Retries)
  <2>1. G!Finish(t, outcome, cause) /\ G!Goes(u, t, "refused")
    BY <1>3, <1>10
  <2>2. /\ s5' \in [G!Stages -> Cards] /\ \A s \in G!Stages : s # t => s5'[s] = s5[s]
        /\ s5'[t].attempted = s5[t].attempted /\ s5'[t].inFlight = s5[t].inFlight - 1
        /\ s5'[t].skipped = s5[t].skipped
        /\ s5'[t].outcomes = [s5[t].outcomes EXCEPT ![outcome] = @ + 1]
        /\ s5'[t].causes = [s5[t].causes EXCEPT ![cause] = IF outcome = "accepted" THEN @ ELSE @ + 1]
    <3>1. CardFinishes(G!Stages, t, outcome, cause)
      BY <1>2, <1>4, <2>1, FinishedCard
    <3> QED  BY <3>1 DEF CardFinishes
  <2>3. s5'[t].outcomes["accepted"] = s5[t].outcomes["accepted"] /\ FailedOf(s5'[t]) = FailedOf(s5[t]) + 1
    <3>1. outcome \in {"rejected", "timedOut"}
      BY <1>10 DEF G!Outcomes
    <3>2. CASE outcome = "rejected"
      BY <1>5, <1>6, <3>2, <2>2 DEF FailedOf, G!Outcomes
    <3>3. CASE outcome = "timedOut"
      BY <1>5, <1>6, <3>3, <2>2 DEF FailedOf, G!Outcomes
    <3> QED  BY <3>1, <3>2, <3>3
  <2>4. SumOn(s5'[t].causes, Causes) = SumOn(s5[t].causes, Causes) + 1
    <3>1. s5'[t].causes = [s5[t].causes EXCEPT ![cause] = @ + 1]
      BY <1>10, <2>2
    <3> QED  BY <1>5, <3>1, CausesAdd
  <2>5. CardMoves(t, u)
    <3>1. u \in Counted(t) /\ u \in Counted(t)' /\ u \in Running(t) /\ u \notin Running(t)'
          /\ u \notin Skipped(t) /\ u \notin Skipped(t)' /\ u \notin TurnedDown(t) /\ u \in TurnedDown(t)'
          /\ u \notin Passed(t) /\ u \notin Passed(t)'
      BY <1>7, <2>1
    <3>2. s5'[t].attempted = s5[t].attempted + Bit(u \in Counted(t)') - Bit(u \in Counted(t))
          /\ s5'[t].inFlight = s5[t].inFlight + Bit(u \in Running(t)') - Bit(u \in Running(t))
          /\ s5'[t].skipped = s5[t].skipped + Bit(u \in Skipped(t)') - Bit(u \in Skipped(t))
      BY <1>5, <2>2, <3>1 DEF Bit
    <3>3. s5'[t].outcomes["accepted"] = s5[t].outcomes["accepted"] + Bit(u \in Passed(t)') - Bit(u \in Passed(t))
          /\ FailedOf(s5'[t]) = FailedOf(s5[t]) + Bit(u \in TurnedDown(t)') - Bit(u \in TurnedDown(t))
      BY <1>5, <1>6, <2>3, <3>1 DEF Bit
    <3>4. SumOn(s5'[t].causes, Causes) = FailedOf(s5'[t])
      BY <1>5, <2>3, <2>4
    <3> QED  BY <3>2, <3>3, <3>4 DEF CardMoves
  <2>6. UeFits(u)' /\ \A s \in G!Stages : s # t => s5'[s] = s5[s] /\ Unmoved(s, u)
    BY <1>7, <2>1, <2>2
  <2> QED  BY <1>1, <1>2, <2>1, <2>2, <2>5, <2>6, UeCounts DEF G!Steps, t
<1> QED  BY <1>8, <1>9, <1>10

LEMMA SkipMoves ==
  ASSUME UesMove, NEW u \in Ues, G!Skip(u)
  PROVE  UesMove' /\ Others(u) /\ s1'[u].stage = s1[u].stage /\ s3' = s3
<1>1. /\ s1[u].step = "refused" /\ s2' = s2 /\ s3' = s3 /\ G!Goes(u, s1[u].stage, "settling")
      /\ s5' = IF s1[u].stage = "pdu" THEN s5 ELSE [s5 EXCEPT !["pdu"].skipped = @ + 1]
  BY DEF G!Skip, G!At
<1>2. s1[u].stage \in {"registration", "pdu"} /\ s2[u] \in Nat /\ UeFits(u) /\ "settling" \in G!Steps
  BY UeIs DEF G!Steps
<1>3. s1'[u].stage = s1[u].stage /\ s1'[u].step = "settling"
  BY <1>1 DEF UesMove, G!Goes
<1>4. UeFits(u)'
  BY <1>1, <1>2, <1>3 DEF UeFits
<1> DEFINE t == "pdu"
<1>5. t \in G!Stages /\ s5 \in [G!Stages -> Cards] /\ s5[t] \in Cards /\ CardCounts(t)
  BY DEF UesMove, G!Stages
<1>6. s5[t].attempted \in Int /\ s5[t].inFlight \in Int /\ s5[t].skipped \in Int
      /\ s5[t].outcomes["accepted"] \in Int /\ FailedOf(s5[t]) \in Int
      /\ SumOn(s5[t].causes, Causes) = FailedOf(s5[t])
  BY <1>5, CardHas DEF CardCounts, G!Outcomes
<1>7. \A s \in G!Stages : s # t => Unmoved(s, u)
  BY <1>1, <1>2, <1>3 DEF Unmoved, Marked, Running, Skipped, Passed, TurnedDown, G!Stages
<1>8. /\ u \in Counted(t)' <=> u \in Counted(t)
      /\ u \in Running(t)' <=> u \in Running(t)
      /\ u \in Passed(t)' <=> u \in Passed(t)
      /\ u \in TurnedDown(t)' <=> u \in TurnedDown(t)
  BY <1>1, <1>2, <1>3 DEF Counted, Marked, Running, Passed, TurnedDown
<1>9. u \notin Skipped(t) /\ (u \in Skipped(t)' <=> s1[u].stage # "pdu")
  BY <1>1, <1>2, <1>3 DEF Skipped
<1> HIDE DEF t
<1>10. CASE s1[u].stage = "pdu"
  <2>1. s5' = s5
    BY <1>1, <1>10
  <2>2. CardMoves(t, u)
    BY <1>6, <1>8, <1>9, <1>10, <2>1 DEF CardMoves, Bit
  <2>3. s5' \in [G!Stages -> Cards] /\ \A s \in G!Stages : s # t => s5'[s] = s5[s] /\ Unmoved(s, u)
    BY <1>5, <1>7, <2>1
  <2> QED  BY <1>1, <1>2, <1>4, <1>5, <2>2, <2>3, UeCounts
<1>11. CASE s1[u].stage # "pdu"
  <2>1. s5' = [s5 EXCEPT ![t].skipped = @ + 1]
    BY <1>1, <1>11 DEF t
  <2>2. /\ s5' \in [G!Stages -> Cards] /\ \A s \in G!Stages : s # t => s5'[s] = s5[s]
        /\ s5'[t].attempted = s5[t].attempted /\ s5'[t].inFlight = s5[t].inFlight
        /\ s5'[t].skipped = s5[t].skipped + 1
        /\ s5'[t].outcomes = s5[t].outcomes /\ s5'[t].causes = s5[t].causes
    BY <1>5, <2>1, SkippedCard
  <2>3. FailedOf(s5'[t]) = FailedOf(s5[t])
    BY <2>2 DEF FailedOf
  <2>4. CardMoves(t, u)
    BY <1>6, <1>8, <1>9, <1>11, <2>2, <2>3 DEF CardMoves, Bit
  <2>5. \A s \in G!Stages : s # t => s5'[s] = s5[s] /\ Unmoved(s, u)
    BY <1>7, <2>2
  <2> QED  BY <1>1, <1>2, <1>4, <1>5, <2>2, <2>4, <2>5, UeCounts
<1> QED  BY <1>10, <1>11

-----------------------------------------------------------------------------
(* What is read and shown. *)

\* Sets of UEs: their sizes, apart and together.
LEMMA SizeOf ==
  ASSUME NEW A \in SUBSET Ues
  PROVE  /\ IsFiniteSet(A) /\ Cardinality(A) \in Nat /\ Cardinality(A) <= Crowd
         /\ Cardinality(A) = Crowd => A = Ues
<1>1. IsFiniteSet(A)
  BY Finites, FS_Subset
<1>2. Cardinality(A) \in Nat
  BY <1>1, FS_CardinalityType
<1>3. Cardinality(A) <= Crowd /\ (Cardinality(Ues) = Cardinality(A) => Ues = A)
  BY Finites, FS_Subset DEF Crowd
<1> QED  BY <1>1, <1>2, <1>3 DEF Crowd

LEMMA SizeUnder ==
  ASSUME NEW A \in SUBSET Ues, NEW B \in SUBSET A
  PROVE  Cardinality(B) <= Cardinality(A)
  BY SizeOf, FS_Subset

LEMMA SizeApart ==
  ASSUME NEW A \in SUBSET Ues, NEW B \in SUBSET Ues, A \cap B = {}
  PROVE  Cardinality(A \cup B) = Cardinality(A) + Cardinality(B)
<1>1. IsFiniteSet(A) /\ IsFiniteSet(B) /\ Cardinality(A) \in Nat /\ Cardinality(B) \in Nat
  BY SizeOf
<1>2. Cardinality(A \cup B) = Cardinality(A) + Cardinality(B) - Cardinality(A \cap B)
  BY <1>1, FS_Union
<1>3. Cardinality(A \cap B) = 0
  BY FS_EmptySet
<1> QED  BY <1>1, <1>2, <1>3

\* Each UE is in one of the states.
LEMMA StatesSum ==
  ASSUME NEW V, IsFiniteSet(V), NEW f \in [Ues -> V], NEW n \in [V -> Nat],
         \A x \in V : n[x] = Cardinality({u \in Ues : f[u] = x})
  PROVE  SumOn(n, V) = Crowd
<1> DEFINE Of(Q) == {u \in Ues : f[u] \in Q}
           B == {Q \in SUBSET V : SumOn(n, Q) = Cardinality(Of(Q))}
<1>1. {} \in B
  <2>1. Of({}) = {}
    OBVIOUS
  <2> QED  BY <2>1, SumEmpty, FS_EmptySet DEF SumOn
<1>2. ASSUME NEW Q \in SUBSET V, NEW x \in Q, Q \ {x} \in B PROVE Q \in B
  <2> DEFINE O == Q \ {x}
             X == {u \in Ues : f[u] = x}
  <2>1. Of(Q) = Of(O) \cup X /\ Of(O) \cap X = {} /\ Of(O) \in SUBSET Ues /\ X \in SUBSET Ues
    OBVIOUS
  <2>2. Cardinality(Of(Q)) = Cardinality(Of(O)) + Cardinality(X)
    BY <2>1, SizeApart
  <2>3. Cardinality(X) = n[x]
    OBVIOUS
  <2>4. SumOn(n, Q) = n[x] + SumOn(n, O)
    <3>1. IsFiniteSet(Q)
      BY FS_Subset
    <3>2. 0 \in Int /\ \A y \in Q : n[y] \in Int
      OBVIOUS
    <3>3. SumFrom(0, n, Q) = n[x] + SumFrom(0, n, Q \ {x})
      BY ONLY <3>1, <3>2, x \in Q, SumTake
    <3> QED  BY <3>3 DEF SumOn
  <2>5. SumOn(n, O) = Cardinality(Of(O))
    BY <1>2
  <2>6. Cardinality(Of(O)) \in Nat /\ n[x] \in Nat
    BY <2>1, SizeOf
  <2>7. SumOn(n, Q) = Cardinality(Of(Q))
    <3> HIDE DEF Of, O, X
    <3> QED  BY <2>2, <2>3, <2>4, <2>5, <2>6
  <2> QED  BY <2>7
<1>3. V \in B
  <2>1. B \in SUBSET SUBSET V
    OBVIOUS
  <2>2. \A Q \in SUBSET V : \A x \in Q : Q \ {x} \in B => Q \in B
    BY <1>2
  <2> HIDE DEF B
  <2> QED  BY <1>1, <2>1, <2>2, SetsByOne
<1>4. Of(V) = Ues
  OBVIOUS
<1> QED  BY <1>3, <1>4 DEF Crowd

\* No number of a sum is more than the sum.
LEMMA SumHas ==
  ASSUME NEW V, IsFiniteSet(V), NEW f \in [V -> Nat], NEW x \in V
  PROVE  SumOn(f, V) \in Nat /\ f[x] <= SumOn(f, V)
<1> DEFINE B == {Q \in SUBSET V : SumOn(f, Q) \in Nat}
<1>0. 0 \in Int /\ \A y \in V : f[y] \in Int
  OBVIOUS
<1>1. {} \in B
  BY SumEmpty DEF SumOn
<1>2. ASSUME NEW Q \in SUBSET V, NEW y \in Q PROVE SumOn(f, Q) = f[y] + SumOn(f, Q \ {y})
  <2>1. IsFiniteSet(Q)
    BY FS_Subset
  <2>2. \A z \in Q : f[z] \in Int
    OBVIOUS
  <2>3. SumFrom(0, f, Q) = f[y] + SumFrom(0, f, Q \ {y})
    BY ONLY <1>0, <2>1, <2>2, y \in Q, SumTake
  <2> QED  BY <2>3 DEF SumOn
<1>3. \A Q \in SUBSET V : \A y \in Q : Q \ {y} \in B => Q \in B
  BY <1>2
<1>4. \A Q \in SUBSET V : SumOn(f, Q) \in Nat
  <2> SUFFICES ASSUME NEW Q \in SUBSET V PROVE SumOn(f, Q) \in Nat
    OBVIOUS
  <2> DEFINE E == {O \in SUBSET Q : O \in B}
  <2>1. IsFiniteSet(Q)
    BY FS_Subset
  <2>2. {} \in E /\ E \in SUBSET SUBSET Q /\ \A O \in SUBSET Q : \A y \in O : O \ {y} \in E => O \in E
    BY <1>1, <1>3
  <2>3. Q \in E
    <3> HIDE DEF E
    <3> QED  BY <2>1, <2>2, SetsByOne
  <2> QED  BY <2>3
<1>5. SumOn(f, V) = f[x] + SumOn(f, V \ {x}) /\ SumOn(f, V \ {x}) \in Nat /\ SumOn(f, V) \in Nat /\ f[x] \in Nat
  BY <1>2, <1>4
<1> QED  BY <1>5

LEMMA CardsFit == UesMove => \A s \in G!Stages : CardFits(s5[s])
<1> SUFFICES ASSUME UesMove, NEW s \in G!Stages PROVE CardFits(s5[s])
  OBVIOUS
<1> DEFINE c == s5[s]
<1>1. CardCounts(s) /\ c \in Cards
  BY DEF UesMove
<1>2. Counted(s) \in SUBSET Ues /\ Running(s) \in SUBSET Ues /\ Passed(s) \in SUBSET Ues /\ TurnedDown(s) \in SUBSET Ues
  BY DEF Counted, Running, Passed, TurnedDown
<1>3. Cardinality(Counted(s)) \in Nat /\ Cardinality(Running(s)) \in Nat /\ Cardinality(Passed(s)) \in Nat
      /\ Cardinality(TurnedDown(s)) \in Nat
  BY <1>2, SizeOf
<1>4. Passed(s) \cap TurnedDown(s) = {} /\ (Passed(s) \cup TurnedDown(s)) \cap Running(s) = {}
  BY DEF Passed, TurnedDown, Running, G!Stages
<1>5. Passed(s) \cup TurnedDown(s) \in SUBSET Counted(s)
  BY DEF Passed, TurnedDown, Counted, Marked
<1>6. Cardinality(Passed(s) \cup TurnedDown(s)) = Cardinality(Passed(s)) + Cardinality(TurnedDown(s))
  BY <1>2, <1>4, SizeApart
<1>7. Cardinality((Passed(s) \cup TurnedDown(s)) \cup Running(s))
        = Cardinality(Passed(s) \cup TurnedDown(s)) + Cardinality(Running(s))
  <2>1. Passed(s) \cup TurnedDown(s) \in SUBSET Ues
    BY <1>2
  <2> QED  BY <1>2, <1>4, <2>1, SizeApart
<1>8. Cardinality((Passed(s) \cup TurnedDown(s)) \cup Running(s)) <= Crowd
  <2>1. (Passed(s) \cup TurnedDown(s)) \cup Running(s) \in SUBSET Ues
    BY <1>2
  <2> QED  BY <2>1, SizeOf
<1>9. Cardinality(Passed(s) \cup TurnedDown(s)) <= Cardinality(Counted(s))
  BY <1>2, <1>5, SizeUnder
<1>10. EndedOf(c) = Cardinality(Passed(s)) + Cardinality(TurnedDown(s))
  BY <1>1 DEF EndedOf, CardCounts
<1>11. EndedOf(c) + c.inFlight <= Crowd /\ EndedOf(c) <= c.attempted /\ c.inFlight \in Nat
  <2>1. c.inFlight = Cardinality(Running(s)) /\ c.attempted = Cardinality(Counted(s))
    BY <1>1 DEF CardCounts
  <2> HIDE DEF c
  <2> QED  BY <1>3, <1>6, <1>7, <1>8, <1>9, <1>10, <2>1, Finites
<1>12. SumOn(c.causes, Causes) = FailedOf(c)
  BY <1>1 DEF CardCounts
<1> QED  BY <1>1, <1>11, <1>12 DEF CardFits

\* The registration stage as its card is read: those past it or failed in it are counted, and
\* if it is over none of them is pending.
LEMMA ReadFits ==
  ASSUME UesMove
  PROVE  LET c == s5["registration"] IN
         /\ CardFits(c) /\ c.skipped = 0
         /\ Cardinality(AtPdu) <= c.outcomes["accepted"] /\ Cardinality(FailedFirst) <= FailedOf(c)
         /\ EndedOf(c) = Crowd => \A u \in Ues : s3[u] # "pending"
<1> DEFINE s == "registration"
           c == s5[s]
<1>1. s \in G!Stages /\ CardFits(c) /\ CardCounts(s)
  <2>1. s \in G!Stages
    BY DEF G!Stages
  <2> QED  BY <2>1, CardsFit DEF UesMove
<1>2. Passed(s) \in SUBSET Ues /\ TurnedDown(s) \in SUBSET Ues /\ Passed(s) \cap TurnedDown(s) = {}
  BY DEF Passed, TurnedDown
<1>3. c.skipped = 0
  <2>1. Skipped(s) = {}
    BY DEF Skipped
  <2> QED  BY <1>1, <2>1, FS_EmptySet DEF CardCounts
<1>4. Cardinality(AtPdu) <= c.outcomes["accepted"]
  <2>1. AtPdu \in SUBSET Passed(s)
    BY DEF AtPdu, Passed
  <2> QED  BY <1>1, <1>2, <2>1, SizeUnder DEF CardCounts
<1>5. Cardinality(FailedFirst) <= FailedOf(c)
  <2>1. ASSUME NEW u \in FailedFirst PROVE u \in TurnedDown(s)
    <3>1. u \in Ues /\ s1[u].stage = s /\ s3[u] = "failed" /\ UeFits(u) /\ s1[u].step \in G!Steps
      BY <2>1, UeIs DEF FailedFirst
    <3> QED  BY <3>1 DEF TurnedDown, UeFits, G!Steps
  <2>2. FailedFirst \in SUBSET TurnedDown(s)
    BY <2>1
  <2> QED  BY <1>1, <1>2, <2>2, SizeUnder DEF CardCounts
<1>6. ASSUME EndedOf(c) = Crowd, NEW u \in Ues PROVE s3[u] # "pending"
  <2>1. Cardinality(Passed(s) \cup TurnedDown(s)) = Cardinality(Passed(s)) + Cardinality(TurnedDown(s))
    BY <1>2, SizeApart
  <2>2. Cardinality(Passed(s) \cup TurnedDown(s)) = Crowd
    BY <1>1, <1>6, <2>1 DEF EndedOf, CardCounts
  <2>3. Passed(s) \cup TurnedDown(s) = Ues
    <3>1. Passed(s) \cup TurnedDown(s) \in SUBSET Ues
      BY <1>2
    <3> QED  BY <2>2, <3>1, SizeOf
  <2>4. u \in Passed(s) \/ u \in TurnedDown(s)
    BY <2>3
  <2>5. UeFits(u) /\ s1[u].step \in G!Steps /\ s1[u].stage \in {"registration", "pdu"}
    BY UeIs
  <2>6. CASE u \in TurnedDown(s)
    BY <2>5, <2>6 DEF TurnedDown, UeFits
  <2>7. CASE u \in Passed(s)
    <3>1. s1[u].step # "queued" \/ s1[u].stage = "pdu"
      BY <2>7 DEF Passed
    <3> QED  BY <2>5, <3>1 DEF UeFits, G!Steps
  <2> QED  BY <2>4, <2>6, <2>7
<1> HIDE DEF c
<1> QED  BY <1>1, <1>3, <1>4, <1>5, <1>6 DEF c

\* The lists and the chips, beside what was read.
Chips == [x \in G!UeStates |-> Cardinality({u \in Ues : s3[u] = x})]

LEMMA ChipsFit ==
  ASSUME UesMove, NEW a, CardFits(a), Cardinality(AtPdu) <= a.outcomes["accepted"],
         Cardinality(FailedFirst) <= FailedOf(a)
  PROVE  LET b == s5["pdu"] IN
         /\ CardFits(b) /\ Chips \in [G!UeStates -> Nat]
         /\ Chips["failed"] <= FailedOf(a) + FailedOf(b) /\ SumOn(Chips, G!UeStates) = Crowd
         /\ Chips["established"] <= b.outcomes["accepted"]
         /\ Chips["registered"] + Chips["establishing"] + Chips["established"] <= a.outcomes["accepted"]
         /\ (\A u \in Ues : s3[u] # "pending") => Chips["pending"] = 0
<1> DEFINE t == "pdu"
           b == s5[t]
           In(x) == {u \in Ues : s3[u] = x}
<1>1. t \in G!Stages /\ CardFits(b) /\ CardCounts(t)
  <2>1. t \in G!Stages
    BY DEF G!Stages
  <2> QED  BY <2>1, CardsFit DEF UesMove
<1>2. \A x \in G!UeStates : In(x) \in SUBSET Ues /\ Cardinality(In(x)) \in Nat /\ Chips[x] = Cardinality(In(x))
  <2>1. \A x : In(x) \in SUBSET Ues
    OBVIOUS
  <2>2. \A x : Cardinality(In(x)) \in Nat
    BY <2>1, SizeOf
  <2> QED  BY <2>1, <2>2 DEF Chips
<1>3. Chips \in [G!UeStates -> Nat]
  BY <1>2 DEF Chips
<1>4. "failed" \in G!UeStates /\ "established" \in G!UeStates /\ "registered" \in G!UeStates
      /\ "establishing" \in G!UeStates /\ "pending" \in G!UeStates
  BY DEF G!UeStates
<1>5. Passed(t) \in SUBSET Ues /\ TurnedDown(t) \in SUBSET Ues /\ AtPdu \in SUBSET Ues /\ FailedFirst \in SUBSET Ues
  BY DEF Passed, TurnedDown, AtPdu, FailedFirst
<1>6. Cardinality(Passed(t)) \in Nat /\ Cardinality(TurnedDown(t)) \in Nat /\ Cardinality(AtPdu) \in Nat
      /\ Cardinality(FailedFirst) \in Nat
  BY <1>5, SizeOf
<1>7. a \in Cards /\ b \in Cards
  BY <1>1 DEF CardFits
<1>8. FailedOf(a) \in Nat /\ FailedOf(b) \in Nat /\ a.outcomes["accepted"] \in Nat /\ b.outcomes["accepted"] \in Nat
  BY <1>7, CardHas DEF G!Outcomes
<1>9. \A u \in Ues : /\ UeFits(u) /\ s1[u].step \in G!Steps /\ s1[u].stage \in {"registration", "pdu"}
                     /\ s3[u] \in G!UeStates
  BY UeIs
<1>10. Chips["failed"] <= FailedOf(a) + FailedOf(b)
  <2>1. ASSUME NEW u \in In("failed"), u \notin FailedFirst PROVE u \in TurnedDown(t)
    BY <1>9, <2>1 DEF FailedFirst, TurnedDown, UeFits, G!Steps
  <2> DEFINE rest == In("failed") \ FailedFirst
  <2>2. In("failed") = FailedFirst \cup rest /\ FailedFirst \cap rest = {}
    BY DEF FailedFirst
  <2>3. rest \in SUBSET TurnedDown(t) /\ rest \in SUBSET Ues
    BY <2>1
  <2>4. Cardinality(In("failed")) = Cardinality(FailedFirst) + Cardinality(rest)
    BY <1>5, <2>2, <2>3, SizeApart
  <2>5. Cardinality(rest) <= Cardinality(TurnedDown(t)) /\ Cardinality(rest) \in Nat
    BY <1>5, <2>3, SizeUnder, SizeOf
  <2>6. Cardinality(TurnedDown(t)) = FailedOf(b) /\ Chips["failed"] = Cardinality(In("failed"))
    BY <1>1, <1>2, <1>4 DEF CardCounts
  <2> HIDE DEF rest, In, b
  <2> QED  BY <1>6, <1>8, <2>4, <2>5, <2>6
<1>11. SumOn(Chips, G!UeStates) = Crowd
  <2>1. IsFiniteSet(G!UeStates)
    <3>1. G!UeStates = (((({"pending"} \cup {"registering"}) \cup {"registered"}) \cup {"establishing"}) \cup {"established"})
                       \cup {"failed"}
      BY DEF G!UeStates
    <3>2. IsFiniteSet({"pending"})
      BY FS_Singleton
    <3>3. IsFiniteSet({"pending"} \cup {"registering"})
      BY ONLY <3>2, FS_AddElement
    <3>4. IsFiniteSet(({"pending"} \cup {"registering"}) \cup {"registered"})
      BY ONLY <3>3, FS_AddElement
    <3>5. IsFiniteSet((({"pending"} \cup {"registering"}) \cup {"registered"}) \cup {"establishing"})
      BY ONLY <3>4, FS_AddElement
    <3>6. IsFiniteSet(((({"pending"} \cup {"registering"}) \cup {"registered"}) \cup {"establishing"}) \cup {"established"})
      BY ONLY <3>5, FS_AddElement
    <3>7. IsFiniteSet((((({"pending"} \cup {"registering"}) \cup {"registered"}) \cup {"establishing"}) \cup {"established"})
                      \cup {"failed"})
      BY ONLY <3>6, FS_AddElement
    <3> QED  BY <3>1, <3>7
  <2>2. s3 \in [Ues -> G!UeStates]
    BY DEF UesMove
  <2>3. \A x \in G!UeStates : Chips[x] = Cardinality({u \in Ues : s3[u] = x})
    BY <1>2
  <2> QED  BY <1>3, <2>1, <2>2, <2>3, StatesSum
<1>12. Chips["established"] <= b.outcomes["accepted"]
  <2>1. In("established") \in SUBSET Passed(t)
    BY <1>9 DEF Passed, UeFits, G!Steps
  <2>2. Cardinality(In("established")) <= Cardinality(Passed(t))
    BY <1>5, <2>1, SizeUnder
  <2> QED  BY <1>1, <1>2, <1>4, <2>2 DEF CardCounts
<1>13. Chips["registered"] + Chips["establishing"] + Chips["established"] <= a.outcomes["accepted"]
  <2> DEFINE two == In("registered") \cup In("establishing")
             all == two \cup In("established")
  <2>1. In("registered") \cap In("establishing") = {} /\ two \cap In("established") = {} /\ two \in SUBSET Ues
        /\ In("registered") \in SUBSET Ues /\ In("establishing") \in SUBSET Ues /\ In("established") \in SUBSET Ues
    OBVIOUS
  <2>2. all \in SUBSET AtPdu
    BY <1>9 DEF AtPdu, UeFits, G!Steps
  <2>3. Cardinality(two) = Cardinality(In("registered")) + Cardinality(In("establishing"))
    BY <2>1, SizeApart
  <2>4. Cardinality(all) = Cardinality(two) + Cardinality(In("established"))
    BY <2>1, SizeApart
  <2>5. Cardinality(all) <= Cardinality(AtPdu)
    BY <1>5, <2>2, SizeUnder
  <2>6. Chips["registered"] + Chips["establishing"] + Chips["established"] = Cardinality(all)
    <3>1. /\ Chips["registered"] = Cardinality(In("registered")) /\ Chips["establishing"] = Cardinality(In("establishing"))
          /\ Chips["established"] = Cardinality(In("established"))
      BY <1>2, <1>4
    <3> QED  BY <2>3, <2>4, <3>1
  <2>7. Cardinality(all) \in Nat
    BY <2>1, SizeOf
  <2> HIDE DEF all
  <2> QED  BY <1>6, <1>8, <2>5, <2>6, <2>7
<1>14. (\A u \in Ues : s3[u] # "pending") => Chips["pending"] = 0
  <2>1. (\A u \in Ues : s3[u] # "pending") => In("pending") = {}
    OBVIOUS
  <2> QED  BY <1>2, <1>4, <2>1, FS_EmptySet
<1> HIDE DEF b
<1> QED  BY <1>1, <1>3, <1>10, <1>11, <1>12, <1>13, <1>14 DEF b

\* Sets of UEs that stay, as their stages and states do.
LEMMA SnapKept ==
  ASSUME FigInv, s3' = s3, s6' = s6, \A w \in Ues : s1'[w].stage = s1[w].stage
  PROVE  SnapFits'
<1>1. AtPdu' = AtPdu /\ FailedFirst' = FailedFirst
  BY DEF AtPdu, FailedFirst
<1>2. ASSUME s6 # None
      PROVE  LET c == s6.registration IN
             /\ CardFits(c) /\ c.skipped = 0
             /\ Cardinality(AtPdu) <= c.outcomes["accepted"] /\ Cardinality(FailedFirst) <= FailedOf(c)
             /\ EndedOf(c) = Crowd => \A u \in Ues : s3[u] # "pending"
  BY <1>2 DEF FigInv, SnapFits
<1> QED  BY <1>1, <1>2 DEF SnapFits

LEMMA ShownKept == ASSUME FigInv, s7' = s7 PROVE ShownFits'
  BY DEF FigInv, ShownFits

LEMMA SnapFree == ASSUME s6' = None PROVE SnapFits'
  BY DEF SnapFits

\* The run's UEs and cards stay.
LEMMA UesStay == ASSUME UesMove, UNCHANGED <<s1, s2, s3, s4, s5>> PROVE UesMove'
<1>1. \A u \in Ues : UeFits(u)'
  BY DEF UesMove, UeFits
<1>2. \A s \in G!Stages : /\ Counted(s)' = Counted(s) /\ Running(s)' = Running(s) /\ Skipped(s)' = Skipped(s)
                          /\ Passed(s)' = Passed(s) /\ TurnedDown(s)' = TurnedDown(s)
  BY DEF Counted, Marked, Running, Skipped, Passed, TurnedDown
<1>3. s5' \in [G!Stages -> Cards] /\ \A s \in G!Stages : CardCounts(s)'
  BY <1>2, CardsKept
<1> QED  BY <1>1, <1>3 DEF UesMove

\* The list of failed UEs goes with their states.
ListOK == s4 = {u \in Ues : s3[u] = "failed"}

LEMMA ListKept ==
  ASSUME ListOK, s4' = s4, NEW u \in Ues, Others(u), s3[u] # "failed", s3'[u] # "failed"
  PROVE  ListOK'
  BY DEF ListOK, Others

LEMMA FigStay == FigInv /\ UNCHANGED vars => FigInv'
<1> SUFFICES ASSUME FigInv, UNCHANGED vars PROVE FigInv'
  OBVIOUS
<1>1. UNCHANGED <<s1, s2, s3, s4, s5, s6, s7>>
  BY DEF vars
<1>2. UesMove' /\ SnapFits' /\ ShownFits'
  BY <1>1, UesStay, SnapKept, ShownKept DEF FigInv
<1> QED  BY <1>1, <1>2 DEF FigInv

\* A step that holds the run's lock for as long as it takes.
LEMMA LockedSteps ==
  ASSUME FigInv, NEW u \in Ues, G!Attempt(u) \/ G!Accepted(u) \/ G!Requeued(u) \/ G!Failed(u)
  PROVE  FigInv'
<1>1. s6' = None /\ s7' = s7
  BY DEF G!Attempt, G!Accepted, G!Requeued, G!Failed, G!RunLockFree
<1>2. UesMove /\ ListOK
  BY DEF FigInv, ListOK
<1>3. UesMove' /\ ListOK'
  <2>1. CASE G!Attempt(u)
    <3>1. s4' = s4
      BY <2>1 DEF G!Attempt
    <3> QED  BY <1>2, <2>1, <3>1, AttemptMoves, ListKept
  <2>2. CASE G!Accepted(u)
    <3>1. s4' = s4
      BY <2>2 DEF G!Accepted
    <3> QED  BY <1>2, <2>2, <3>1, AcceptedMoves, ListKept
  <2>3. CASE G!Requeued(u)
    <3>1. s4' = s4
      BY <2>3 DEF G!Requeued
    <3> QED  BY <1>2, <2>3, <3>1, RequeuedMoves, ListKept
  <2>4. CASE G!Failed(u)
    <3>1. s4' = s4 \cup {u}
      BY <2>4 DEF G!Failed
    <3>2. UesMove' /\ s3'[u] = "failed" /\ Others(u)
      BY <1>2, <2>4, FailedMoves
    <3>3. ListOK'
      BY <1>2, <3>1, <3>2 DEF ListOK, Others
    <3> QED  BY <3>2, <3>3
  <2> QED  BY <2>1, <2>2, <2>3, <2>4
<1>4. SnapFits' /\ ShownFits'
  BY <1>1, SnapFree, ShownKept
<1> QED  BY <1>3, <1>4 DEF FigInv, ListOK

\* A step that holds a card's lock only.
LEMMA CardSteps ==
  ASSUME FigInv, NEW u \in Ues, G!Begin(u) \/ G!Answered(u) \/ G!Skip(u)
  PROVE  FigInv'
<1>1. s3' = s3 /\ s4' = s4 /\ s6' = s6 /\ s7' = s7
  BY DEF G!Begin, G!Answered, G!Skip
<1>2. UesMove' /\ Others(u) /\ s1'[u].stage = s1[u].stage
  <2>1. UesMove
    BY DEF FigInv
  <2>2. CASE G!Begin(u)
    BY <2>1, <2>2, BeginMoves
  <2>3. CASE G!Answered(u)
    BY <2>1, <2>3, AnsweredMoves
  <2>4. CASE G!Skip(u)
    BY <2>1, <2>4, SkipMoves
  <2> QED  BY <2>2, <2>3, <2>4
<1>3. \A w \in Ues : s1'[w].stage = s1[w].stage
  BY <1>2 DEF Others
<1>4. SnapFits' /\ ShownFits'
  BY <1>1, <1>3, SnapKept, ShownKept
<1>5. s4' = {w \in Ues : s3'[w] = "failed"}
  BY <1>1 DEF FigInv
<1> QED  BY <1>2, <1>4, <1>5 DEF FigInv

LEMMA ReadStep == ASSUME FigInv, G!ReadRegistration PROVE FigInv'
<1>1. UNCHANGED <<s1, s2, s3, s4, s5>> /\ s7' = s7 /\ s6' = [registration |-> s5["registration"]]
  BY DEF G!ReadRegistration, G!runVars
<1>2. UesMove /\ UesMove' /\ ShownFits'
  BY <1>1, UesStay, ShownKept DEF FigInv
<1> DEFINE c == s5["registration"]
<1>3. /\ CardFits(c) /\ c.skipped = 0
      /\ Cardinality(AtPdu) <= c.outcomes["accepted"] /\ Cardinality(FailedFirst) <= FailedOf(c)
      /\ EndedOf(c) = Crowd => \A u \in Ues : s3[u] # "pending"
  BY <1>2, ReadFits
<1>4. AtPdu' = AtPdu /\ FailedFirst' = FailedFirst
  BY <1>1 DEF AtPdu, FailedFirst
<1>5. s6'.registration = c
  BY <1>1
<1>6. SnapFits'
  BY <1>1, <1>3, <1>4, <1>5 DEF SnapFits
<1>7. s4' = {w \in Ues : s3'[w] = "failed"}
  BY <1>1 DEF FigInv
<1> QED  BY <1>2, <1>6, <1>7 DEF FigInv

LEMMA ShowStep == ASSUME FigInv, G!Show PROVE FigInv'
<1> DEFINE a == s6.registration
           b == s5["pdu"]
<1>1. UNCHANGED <<s1, s2, s3, s4, s5>> /\ s6 # None /\ s6' = None
      /\ s7' = [registration |-> a, pdu |-> b, failedUes |-> s4, ues |-> G!Counts]
  BY DEF G!Show, G!runVars
<1>2. UesMove /\ UesMove' /\ SnapFits'
  BY <1>1, UesStay, SnapFree DEF FigInv
<1>3. /\ CardFits(a) /\ a.skipped = 0
      /\ Cardinality(AtPdu) <= a.outcomes["accepted"] /\ Cardinality(FailedFirst) <= FailedOf(a)
      /\ EndedOf(a) = Crowd => \A u \in Ues : s3[u] # "pending"
  BY <1>1 DEF FigInv, SnapFits
<1>4. G!Counts = Chips
  BY FigSame DEF G!Counts, Chips
<1>5. /\ CardFits(b) /\ Chips \in [G!UeStates -> Nat]
      /\ Chips["failed"] <= FailedOf(a) + FailedOf(b) /\ SumOn(Chips, G!UeStates) = Crowd
      /\ Chips["established"] <= b.outcomes["accepted"]
      /\ Chips["registered"] + Chips["establishing"] + Chips["established"] <= a.outcomes["accepted"]
      /\ (\A u \in Ues : s3[u] # "pending") => Chips["pending"] = 0
  BY <1>2, <1>3, ChipsFit
<1>6. Cardinality(s4) = Chips["failed"]
  BY DEF FigInv, Chips, G!UeStates
<1>7. s7'.registration = a /\ s7'.pdu = b /\ s7'.failedUes = s4 /\ s7'.ues = Chips
  BY <1>1, <1>4
<1> HIDE DEF a, b
<1>8. EndedOf(a) = Crowd => Chips["pending"] = 0
  BY <1>3, <1>5
<1>9. ShownFits'
  BY <1>3, <1>5, <1>6, <1>7, <1>8 DEF ShownFits
<1>10. s4' = {w \in Ues : s3'[w] = "failed"}
  BY <1>1 DEF FigInv
<1> QED  BY <1>2, <1>9, <1>10 DEF FigInv

LEMMA FigStep == FigInv /\ G!Next => FigInv'
<1> SUFFICES ASSUME FigInv, G!Next PROVE FigInv'
  OBVIOUS
<1>1. CASE G!ReadRegistration
  BY <1>1, ReadStep
<1>2. CASE G!Show
  BY <1>2, ShowStep
<1>3. ASSUME NEW u \in Ues, G!UeStep(u) PROVE FigInv'
  <2>1. \/ G!Attempt(u) \/ G!Accepted(u) \/ G!Requeued(u) \/ G!Failed(u)
        \/ G!Begin(u) \/ G!Answered(u) \/ G!Skip(u)
    BY <1>3 DEF G!UeStep
  <2> QED  BY <2>1, LockedSteps, CardSteps
<1> QED  BY <1>1, <1>2, <1>3 DEF G!Next

LEMMA TakenFirst ==
  ASSUME NEW f, NEW Q, IsFiniteSet(Q), \A y \in Q : f[y] \in Int, NEW x \in Q
  PROVE  SumFrom(0, f, Q) = f[x] + SumFrom(0, f, Q \ {x})
<1>1. 0 \in Int
  OBVIOUS
<1> QED  BY <1>1, SumTake, SMTT(40)

\* Nothing has been counted yet.
LEMMA NoneCounted == ASSUME NEW f, \A c \in Causes : f[c] = 0 PROVE SumOn(f, Causes) = 0
<1>1. IsFiniteSet(Causes)
  BY Finites
<1> DEFINE B == {Q \in SUBSET Causes : SumOn(f, Q) = 0}
<1>2. {} \in B
  BY SumEmpty DEF SumOn
<1>3. ASSUME NEW Q \in SUBSET Causes, NEW x \in Q, Q \ {x} \in B PROVE Q \in B
  <2>1. IsFiniteSet(Q) /\ \A y \in Q : f[y] \in Int
    BY <1>1, FS_Subset
  <2>2. SumFrom(0, f, Q) = f[x] + SumFrom(0, f, Q \ {x})
    BY <2>1, TakenFirst
  <2>3. f[x] = 0 /\ SumFrom(0, f, Q \ {x}) = 0
    BY <1>3 DEF SumOn
  <2> QED  BY <2>2, <2>3 DEF SumOn
<1>4. B \in SUBSET SUBSET Causes
  OBVIOUS
<1> HIDE DEF B
<1>5. Causes \in B
  BY <1>1, <1>2, <1>3, <1>4, SetsByOne
<1> QED  BY <1>5 DEF B

LEMMA FigInit == G!Init => FigInv
<1> SUFFICES ASSUME G!Init PROVE FigInv
  OBVIOUS
<1>1. /\ s1 = [u \in Ues |-> [stage |-> "registration", step |-> "queued"]]
      /\ s2 = [u \in Ues |-> 0] /\ s3 = [u \in Ues |-> "pending"] /\ s4 = {}
      /\ s5 = [s \in G!Stages |-> G!Card] /\ s6 = None /\ s7 = None
  BY DEF G!Init
<1>2. s1 \in [Ues -> [stage : G!Stages, step : G!Steps]] /\ s2 \in [Ues -> Nat] /\ s3 \in [Ues -> G!UeStates]
  BY <1>1 DEF G!Stages, G!Steps, G!UeStates
<1>3. \A u \in Ues : UeFits(u)
  BY <1>1 DEF UeFits
<1>4. G!Card \in Cards /\ G!Card.attempted = 0 /\ G!Card.inFlight = 0 /\ G!Card.skipped = 0
  <2>1. [o \in G!Outcomes |-> 0] \in [G!Outcomes -> Nat] /\ [c \in Causes |-> 0] \in [Causes -> Nat]
    OBVIOUS
  <2> QED  BY <2>1 DEF G!Card, Cards
<1>5. G!Card.outcomes["accepted"] = 0 /\ FailedOf(G!Card) = 0
  BY DEF G!Card, G!Outcomes, FailedOf
<1>6. SumOn(G!Card.causes, Causes) = 0
  <2>1. \A c \in Causes : G!Card.causes[c] = 0
    BY DEF G!Card
  <2> QED  BY <2>1, NoneCounted
<1>7. s5 \in [G!Stages -> Cards]
  BY <1>1, <1>4
<1>8. ASSUME NEW s \in G!Stages PROVE CardCounts(s)
  <2>1. s5[s] = G!Card
    BY <1>1
  <2>2. Counted(s) = {} /\ Running(s) = {} /\ Skipped(s) = {} /\ Passed(s) = {} /\ TurnedDown(s) = {}
    BY <1>1 DEF Counted, Marked, Running, Skipped, Passed, TurnedDown
  <2>3. Cardinality({}) = 0
    BY FS_EmptySet
  <2> QED  BY <1>4, <1>5, <1>6, <2>1, <2>2, <2>3 DEF CardCounts
<1>9. s4 = {u \in Ues : s3[u] = "failed"}
  BY <1>1
<1> QED  BY <1>1, <1>2, <1>3, <1>7, <1>8, <1>9 DEF FigInv, UesMove, SnapFits, ShownFits

-----------------------------------------------------------------------------
(* What the page makes of what it is shown. *)

LEMMA PercentOK ==
  ASSUME NEW n \in Nat, NEW of \in Nat, n <= of PROVE G!Percent(n, of) \in 0 .. 100
<1>1. CASE of = 0
  BY <1>1 DEF G!Percent
<1>2. CASE of # 0
  <2>1. 100 * n \in Nat /\ of \in Nat \ {0} /\ 101 \in Nat /\ 100 * n < of * 101
    BY <1>2
  <2>2. (100 * n) \div of \in Nat
    BY <2>1, Divided
  <2>3. (100 * n) \div of < 101
    BY <2>1, DividedUnder
  <2> QED  BY <1>2, <2>2, <2>3 DEF G!Percent
<1> QED  BY <1>1, <1>2

LEMMA FigShows == FigInv => G!FiguresFit
<1> SUFFICES ASSUME FigInv, s7 # None PROVE G!FiguresFit
  BY DEF G!FiguresFit
<1> DEFINE a == s7.registration
           b == s7.pdu
           chips == s7.ues
<1>1. /\ CardFits(a) /\ CardFits(b) /\ a.skipped = 0 /\ chips \in [G!UeStates -> Nat]
      /\ Cardinality(s7.failedUes) = chips["failed"] /\ chips["failed"] <= FailedOf(a) + FailedOf(b)
      /\ SumOn(chips, G!UeStates) = Crowd
      /\ chips["established"] <= b.outcomes["accepted"]
      /\ chips["registered"] + chips["establishing"] + chips["established"] <= a.outcomes["accepted"]
      /\ EndedOf(a) = Crowd => chips["pending"] = 0
  BY DEF FigInv, ShownFits
<1>2. G!Expected = Crowd /\ Crowd \in Nat \ {0}
  BY FigSame, Finites DEF G!Expected, Crowd
<1>3. \A c : G!FailuresOf(c) = FailedOf(c) /\ G!AttemptedOf(c) = c.attempted
  BY DEF G!FailuresOf, FailedOf, G!AttemptedOf
<1>4. a \in Cards /\ b \in Cards
  BY <1>1 DEF CardFits
<1>5. /\ FailedOf(a) \in Nat /\ FailedOf(b) \in Nat /\ a.outcomes["accepted"] \in Nat /\ b.outcomes["accepted"] \in Nat
      /\ a.attempted \in Int /\ b.attempted \in Int /\ a.causes \in [Causes -> Nat] /\ b.causes \in [Causes -> Nat]
  BY <1>4, CardHas DEF G!Outcomes
<1>6. /\ EndedOf(a) = a.outcomes["accepted"] + FailedOf(a) /\ EndedOf(b) = b.outcomes["accepted"] + FailedOf(b)
      /\ EndedOf(a) <= a.attempted /\ EndedOf(b) <= b.attempted
      /\ a.inFlight \in Nat /\ b.inFlight \in Nat
      /\ EndedOf(a) + a.inFlight <= Crowd /\ EndedOf(b) + b.inFlight <= Crowd
      /\ SumOn(a.causes, Causes) = FailedOf(a) /\ SumOn(b.causes, Causes) = FailedOf(b)
  BY <1>1 DEF CardFits, EndedOf
<1>7. chips["pending"] \in Nat /\ chips["registered"] \in Nat /\ chips["establishing"] \in Nat
      /\ chips["established"] \in Nat /\ chips["failed"] \in Nat
  BY <1>1 DEF G!UeStates
<1>8. G!Shown = {a, b} /\ G!Chips = chips /\ G!FailedRows = s7.failedUes
  BY DEF G!Shown, G!Chips, G!FailedRows
<1>9. G!Total(G!FailuresOf) = FailedOf(a) + FailedOf(b) /\ G!Total(G!AttemptedOf) = a.attempted + b.attempted
  BY <1>3 DEF G!Total
<1>10. G!Kpis = [registered |-> G!Percent(a.outcomes["accepted"], Crowd),
                 sessions   |-> G!Percent(chips["established"], a.outcomes["accepted"]),
                 failures   |-> G!Percent(FailedOf(a) + FailedOf(b), a.attempted + b.attempted)]
  BY <1>2, <1>9 DEF G!Kpis
<1> HIDE DEF a, b, chips
<1>11. G!Range(G!Kpis) \subseteq 0 .. 100
  <2>1. G!Percent(a.outcomes["accepted"], Crowd) \in 0 .. 100
    <3>1. a.outcomes["accepted"] <= Crowd
      BY <1>2, <1>5, <1>6
    <3> QED  BY <1>2, <1>5, <3>1, PercentOK
  <2>2. G!Percent(chips["established"], a.outcomes["accepted"]) \in 0 .. 100
    <3>1. chips["established"] <= a.outcomes["accepted"]
      BY <1>1, <1>5, <1>7
    <3> QED  BY <1>5, <1>7, <3>1, PercentOK
  <2>3. G!Percent(FailedOf(a) + FailedOf(b), a.attempted + b.attempted) \in 0 .. 100
    <3>1. FailedOf(a) + FailedOf(b) <= a.attempted + b.attempted /\ FailedOf(a) + FailedOf(b) \in Nat
          /\ a.attempted + b.attempted \in Nat
      BY <1>5, <1>6
    <3> QED  BY <3>1, PercentOK
  <2> DEFINE x == G!Percent(a.outcomes["accepted"], Crowd)
             y == G!Percent(chips["established"], a.outcomes["accepted"])
             z == G!Percent(FailedOf(a) + FailedOf(b), a.attempted + b.attempted)
  <2>4. x \in 0 .. 100 /\ y \in 0 .. 100 /\ z \in 0 .. 100 /\ G!Kpis = [registered |-> x, sessions |-> y, failures |-> z]
    BY <1>10, <2>1, <2>2, <2>3
  <2> HIDE DEF x, y, z
  <2> QED  BY <2>4 DEF G!Range
<1>12. \A s \in G!Shown : G!Bar(s) <= 100 /\ G!ProcRow(s).ended + G!ProcRow(s).inFlight <= G!Expected
                          /\ G!ProcRow(s).ended <= G!ProcRow(s).attempts
  <2>1. ASSUME NEW s, s = a \/ s = b PROVE CardFits(s) /\ FailedOf(s) \in Nat /\ s.outcomes["accepted"] \in Nat
    BY <1>1, <1>5, <2>1
  <2>2. ASSUME NEW s, s = a \/ s = b
        PROVE  G!Bar(s) <= 100 /\ G!ProcRow(s).ended + G!ProcRow(s).inFlight <= G!Expected
                 /\ G!ProcRow(s).ended <= G!ProcRow(s).attempts
    <3>1. EndedOf(s) + s.inFlight <= Crowd /\ EndedOf(s) <= s.attempted /\ s.inFlight \in Nat
          /\ EndedOf(s) = s.outcomes["accepted"] + FailedOf(s)
      BY <2>1, <2>2 DEF CardFits, EndedOf
    <3>2. G!ProcRow(s).ended = EndedOf(s) /\ G!ProcRow(s).inFlight = s.inFlight /\ G!ProcRow(s).attempts = s.attempted
      BY <1>3 DEF G!ProcRow, EndedOf
    <3>3. FailedOf(s) \in Nat /\ s.outcomes["accepted"] \in Nat
      BY <2>1, <2>2
    <3>4. G!Bar(s) <= 100
      <4> DEFINE n == s.outcomes["accepted"]
      <4>1. n \in Nat /\ n <= Crowd
        BY <1>2, <3>1, <3>3
      <4> HIDE DEF n
      <4>2. 100 * n \in Nat /\ 101 \in Nat /\ 100 * n < Crowd * 101
        BY <1>2, <4>1
      <4>3. (100 * n) \div Crowd < 101 /\ (100 * n) \div Crowd \in Nat
        BY <1>2, <4>2, Divided, DividedUnder
      <4>4. G!Bar(s) = (100 * n) \div Crowd
        BY <1>2 DEF G!Bar, n
      <4> QED  BY <4>3, <4>4
    <3> QED  BY <1>2, <3>1, <3>2, <3>4
  <2> QED  BY <1>8, <2>2
<1> DEFINE merged == G!MergedCauses
<1>13. merged \in [Causes -> Nat] /\ \A c \in Causes : merged[c] = a.causes[c] + b.causes[c]
  BY <1>5 DEF G!MergedCauses, a, b
<1>14. G!CauseTotal = SumOn(merged, Causes) /\ SumOn(merged, Causes) = FailedOf(a) + FailedOf(b)
  <2>1. G!CauseTotal = SumOn(merged, Causes)
    BY FigSame DEF G!CauseTotal
  <2> DEFINE f == a.causes
             g == b.causes
             h == merged
  <2>2. \A x \in Causes : f[x] \in Int /\ g[x] \in Int /\ h[x] = f[x] + g[x]
    BY <1>5, <1>13
  <2>3. IsFiniteSet(Causes)
    BY Finites
  <2> HIDE DEF f, g, h, merged
  <2>4. SumOn(h, Causes) = SumOn(f, Causes) + SumOn(g, Causes)
    BY <2>2, <2>3, SumAdd
  <2> QED  BY <1>6, <2>1, <2>4 DEF f, g, h
<1>15. \A c \in Causes : G!CauseBar(c) <= 100
  <2> SUFFICES ASSUME NEW c \in Causes PROVE G!CauseBar(c) <= 100
    OBVIOUS
  <2> DEFINE n == merged[c]
             all == SumOn(merged, Causes)
  <2>1. IsFiniteSet(Causes)
    BY Finites
  <2>2. n \in Nat /\ all \in Nat /\ n <= all
    BY <1>13, <2>1, SumHas
  <2>3. G!CauseBar(c) = IF all = 0 THEN 0 ELSE (100 * n) \div all
    BY <1>14 DEF G!CauseBar
  <2> HIDE DEF n, all
  <2>4. CASE all = 0
    BY <2>3, <2>4
  <2>5. CASE all # 0
    <3>1. 100 * n \in Nat /\ 101 \in Nat /\ all \in Nat \ {0} /\ 100 * n < all * 101
      BY <2>2, <2>5
    <3>2. (100 * n) \div all < 101 /\ (100 * n) \div all \in Nat
      BY <3>1, Divided, DividedUnder
    <3> QED  BY <2>3, <2>5, <3>2
  <2> QED  BY <2>4, <2>5
<1>16. G!Cardinality(G!FailedRows) = G!Chips["failed"] /\ G!Chips["failed"] <= G!Total(G!FailuresOf)
  BY <1>1, <1>8, <1>9, FigSame
<1>17. G!FoldFunctionOnSet(+, 0, G!Chips, G!UeStates) = G!Expected
  BY <1>1, <1>2, <1>8, FigSame
<1>18. G!Pill # "Registration" => G!Chips["pending"] = 0
  <2>1. ASSUME G!Pill # "Registration" PROVE EndedOf(a) = Crowd
    <3>1. G!Done(s7.registration)
      BY <2>1 DEF G!Pill
    <3>2. G!ProcRow(a).ended + a.skipped = Crowd
      BY <1>2, <3>1 DEF G!Done, a
    <3>3. G!ProcRow(a).ended = EndedOf(a)
      BY <1>3 DEF G!ProcRow, EndedOf
    <3> QED  BY <1>1, <1>5, <1>6, <3>2, <3>3
  <2> QED  BY <1>1, <1>8, <2>1
<1>19. G!Chips["established"] <= s7.pdu.outcomes["accepted"]
       /\ G!Chips["registered"] + G!Chips["establishing"] + G!Chips["established"] <= s7.registration.outcomes["accepted"]
  BY <1>1, <1>8 DEF a, b
<1>20. G!CauseTotal = G!Total(G!FailuresOf)
  BY <1>9, <1>14
<1> HIDE DEF merged
<1> QED  BY <1>11, <1>12, <1>15, <1>16, <1>17, <1>18, <1>19, <1>20 DEF G!FiguresFit

-----------------------------------------------------------------------------
(* The drawing: the lists and the terminal. *)

LEMMA TopoSame ==
    /\ \A Q : T!Cardinality(Q) = Cardinality(Q)
    /\ \A b, f, Q : T!FoldFunctionOnSet(+, b, f, Q) = SumFrom(b, f, Q)
<1>1. \A Q : T!Cardinality(Q) = Cardinality(Q)
  BY DEF T!Cardinality, Cardinality
<1>2. \A b, f, Q : T!FoldFunctionOnSet(+, b, f, Q) = SumFrom(b, f, Q)
  BY DEF T!FoldFunctionOnSet, FoldFunctionOnSet, SumFrom, T!MapThenFoldSet, MapThenFoldSet
<1> QED  BY <1>1, <1>2

TopoInv == T!TopoTypeOK /\ T!TerminalSized

\* The network functions of the cores.
LEMMA CoresAre ==
    /\ T!Templates = {"basic", "ulcl", "ulcl-2slice"}
    /\ \A t \in T!Templates : NfsOf[t] \subseteq UNION T!Range(NfsOf)
<1>1. T!Templates = {"basic", "ulcl", "ulcl-2slice"}
  BY DEF T!Templates, NfsOf
<1>2. \A t \in T!Templates : NfsOf[t] \in T!Range(NfsOf)
  BY DEF T!Templates, T!Range
<1> QED  BY <1>1, <1>2

LEMMA TopoInit == T!Init => TopoInv
<1> SUFFICES ASSUME T!Init PROVE TopoInv
  OBVIOUS
<1>1. T!Listed = {} /\ DOMAIN s3 = {}
  BY DEF T!Init, T!Listed
<1>2. T!Range(s3) = {}
  BY <1>1 DEF T!Range
<1>3. s2 \in [T!Gnbs -> T!NodeStatus] /\ s4 \in T!Templates
  BY CoresAre DEF T!Init, T!NodeStatus
<1>4. s5.node = "core" /\ s6 = None /\ s7 = "none" /\ s8 = None /\ s9 = None
  BY DEF T!Init
<1>5. T!TopoTypeOK
  BY <1>1, <1>2, <1>3, <1>4 DEF T!TopoTypeOK
<1> QED  BY <1>4, <1>5 DEF TopoInv, T!TerminalSized

LEMMA TopoStay == TopoInv /\ UNCHANGED <<s1, s2, s3, s4, s5, s6, s7, s8, s9>> => TopoInv'
<1> SUFFICES ASSUME TopoInv, UNCHANGED <<s1, s2, s3, s4, s5, s6, s7, s8, s9>> PROVE TopoInv'
  OBVIOUS
<1>1. T!TopoTypeOK'
  BY DEF TopoInv, T!TopoTypeOK, T!Listed
<1> QED  BY <1>1 DEF TopoInv, T!TerminalSized

\* What is listed, as it was read; the terminal.
TopoLists ==
    /\ \A nf \in T!Listed : nf \in UNION T!Range(NfsOf) /\ s1[nf] \in T!NodeStatus
    /\ s2 \in [T!Gnbs -> T!NodeStatus]
    /\ DOMAIN s3 \subseteq Ues /\ T!Range(s3) \subseteq T!NodeStatus
    /\ s4 \in T!Templates
TopoTerm ==
    /\ s6 \in Ues \cup {None}
    /\ s7 \in {"none", "connecting", "open", "closed"}
    /\ s8 \in {1, 2} \cup {None} /\ s9 \in {1, 2} \cup {None}
    /\ s7 = "open" => s9 = s8

LEMMA TopoParts == TopoInv <=> TopoLists /\ s5.node \in {"core", "gnb", "ue"} /\ TopoTerm
<1>1. TopoInv => TopoLists /\ s5.node \in {"core", "gnb", "ue"} /\ TopoTerm
  BY DEF TopoInv, TopoLists, TopoTerm, T!TopoTypeOK, T!TerminalSized
<1>2. TopoLists /\ s5.node \in {"core", "gnb", "ue"} /\ TopoTerm => TopoInv
  BY DEF TopoInv, TopoLists, TopoTerm, T!TopoTypeOK, T!TerminalSized
<1> QED  BY <1>1, <1>2

LEMMA PolledCore == ASSUME TopoLists, T!PollCore PROVE TopoLists'
<1>1. s2' = s2 /\ s3' = s3 /\ s4' = s4
  BY DEF T!PollCore
<1>2. \/ s1' = <<>>
      \/ \E t \in T!Templates, gone \in {"AMF"} : s1' = [nf \in NfsOf[t] \ {gone} |-> "running"]
      \/ \E t \in T!Templates, odd \in {"AMF"}, status \in T!NodeStatus :
            s1' = [nf \in NfsOf[t] |-> IF nf = odd THEN status ELSE "running"]
  BY DEF T!PollCore
<1>3. \A nf \in DOMAIN s1' : nf \in UNION T!Range(NfsOf) /\ s1'[nf] \in T!NodeStatus
  <2>1. CASE s1' = <<>>
    <3>1. DOMAIN s1' = {}
      BY <2>1
    <3> QED  BY <3>1
  <2>2. ASSUME NEW t \in T!Templates, NEW gone, s1' = [nf \in NfsOf[t] \ {gone} |-> "running"]
        PROVE  \A nf \in DOMAIN s1' : nf \in UNION T!Range(NfsOf) /\ s1'[nf] \in T!NodeStatus
    <3>1. NfsOf[t] \subseteq UNION T!Range(NfsOf)
      BY CoresAre
    <3>2. DOMAIN s1' = NfsOf[t] \ {gone} /\ \A nf \in NfsOf[t] \ {gone} : s1'[nf] = "running"
      BY <2>2
    <3> QED  BY <3>1, <3>2 DEF T!NodeStatus
  <2>3. ASSUME NEW t \in T!Templates, NEW odd, NEW status \in T!NodeStatus,
               s1' = [nf \in NfsOf[t] |-> IF nf = odd THEN status ELSE "running"]
        PROVE  \A nf \in DOMAIN s1' : nf \in UNION T!Range(NfsOf) /\ s1'[nf] \in T!NodeStatus
    <3>1. NfsOf[t] \subseteq UNION T!Range(NfsOf)
      BY CoresAre
    <3>2. DOMAIN s1' = NfsOf[t] /\ \A nf \in NfsOf[t] : s1'[nf] \in {status, "running"}
      BY <2>3
    <3> QED  BY <3>1, <3>2 DEF T!NodeStatus
  <2>4. CASE \E t \in T!Templates, gone \in {"AMF"} : s1' = [nf \in NfsOf[t] \ {gone} |-> "running"]
    <3>1. PICK t \in T!Templates, gone \in {"AMF"} : s1' = [nf \in NfsOf[t] \ {gone} |-> "running"]
      BY <2>4
    <3> QED  BY <2>2, <3>1
  <2>5. CASE \E t \in T!Templates, odd \in {"AMF"}, status \in T!NodeStatus :
                s1' = [nf \in NfsOf[t] |-> IF nf = odd THEN status ELSE "running"]
    <3>1. PICK t \in T!Templates, odd \in {"AMF"}, status \in T!NodeStatus :
             s1' = [nf \in NfsOf[t] |-> IF nf = odd THEN status ELSE "running"]
      BY <2>5
    <3> QED  BY <2>3, <3>1
  <2> QED  BY <1>2, <2>1, <2>4, <2>5
<1> QED  BY <1>1, <1>3 DEF TopoLists, T!Listed

LEMMA PolledUes == ASSUME TopoLists, T!PollUes PROVE TopoLists'
<1>1. s1' = s1 /\ s2' = s2 /\ s4' = s4
  BY DEF T!PollUes
<1>2. PICK listed \in SUBSET Ues : s3' \in [listed -> T!NodeStatus]
  BY DEF T!PollUes
<1>3. DOMAIN s3' \subseteq Ues /\ T!Range(s3') \subseteq T!NodeStatus
  BY <1>2 DEF T!Range
<1> QED  BY <1>1, <1>3 DEF TopoLists, T!Listed

LEMMA TopoStep == TopoInv /\ T!Next => TopoInv'
<1> SUFFICES ASSUME TopoInv, T!Next PROVE TopoInv'
  OBVIOUS
<1>1. TopoLists /\ s5.node \in {"core", "gnb", "ue"} /\ TopoTerm
  BY TopoParts
<1> DEFINE Goal == TopoLists' /\ s5'.node \in {"core", "gnb", "ue"} /\ TopoTerm'
<1>2. ASSUME UNCHANGED <<s6, s7, s8, s9>> PROVE TopoTerm'
  BY <1>1, <1>2 DEF TopoTerm
<1>3. ASSUME UNCHANGED <<s1, s2, s3, s4>> PROVE TopoLists'
  BY <1>1, <1>3 DEF TopoLists, T!Listed
<1>4. ASSUME T!PollCore PROVE Goal
  <2>1. s5' = s5 /\ UNCHANGED <<s6, s7, s8, s9>>
    BY <1>4 DEF T!PollCore, T!termVars
  <2> QED  BY <1>1, <1>2, <1>4, <2>1, PolledCore
<1>5. ASSUME T!PollGnbs PROVE Goal
  <2>1. s5' = s5 /\ UNCHANGED <<s6, s7, s8, s9>> /\ UNCHANGED <<s1, s3, s4>> /\ s2' \in [T!Gnbs -> {"running", "stopped"}]
    BY <1>5 DEF T!PollGnbs, T!termVars
  <2>2. s2' \in [T!Gnbs -> T!NodeStatus]
    BY <2>1 DEF T!NodeStatus
  <2>3. TopoLists'
    BY <1>1, <2>1, <2>2 DEF TopoLists, T!Listed
  <2> QED  BY <1>1, <1>2, <2>1, <2>3
<1>6. ASSUME T!PollUes PROVE Goal
  <2>1. s5' = s5 /\ UNCHANGED <<s6, s7, s8, s9>>
    BY <1>6 DEF T!PollUes, T!termVars
  <2> QED  BY <1>1, <1>2, <1>6, <2>1, PolledUes
<1>7. ASSUME T!PickTemplate PROVE Goal
  <2>1. s5' = s5 /\ UNCHANGED <<s6, s7, s8, s9>> /\ UNCHANGED <<s1, s2, s3>> /\ s4' \in T!Templates
    BY <1>7 DEF T!PickTemplate, T!termVars
  <2>2. TopoLists'
    BY <1>1, <2>1 DEF TopoLists, T!Listed
  <2> QED  BY <1>1, <1>2, <2>1, <2>2
<1>8. ASSUME T!SelectBox PROVE Goal
  <2>1. UNCHANGED <<s6, s7, s8, s9>> /\ UNCHANGED <<s1, s2, s3, s4>>
    BY <1>8 DEF T!SelectBox, T!viewVars, T!termVars
  <2>2. s5'.node \in {"core", "gnb", "ue"}
    BY <1>8 DEF T!SelectBox, T!Select
  <2> QED  BY <1>2, <1>3, <2>1, <2>2
<1>9. ASSUME NEW nf, T!SelectService(nf) PROVE Goal
  <2>1. UNCHANGED <<s6, s7, s8, s9>> /\ UNCHANGED <<s1, s2, s3, s4>> /\ s5'.node = "core"
    BY <1>9 DEF T!SelectService, T!Select, T!viewVars, T!termVars
  <2> QED  BY <1>2, <1>3, <2>1
<1>10. ASSUME NEW u, T!SelectUe(u) PROVE Goal
  <2>1. UNCHANGED <<s6, s7, s8, s9>> /\ UNCHANGED <<s1, s2, s3, s4>> /\ s5'.node = "ue"
    BY <1>10 DEF T!SelectUe, T!Select, T!viewVars, T!termVars
  <2> QED  BY <1>2, <1>3, <2>1
<1>11. ASSUME NEW u \in Ues, T!OpenTerminal(u) PROVE Goal
  <2>1. UNCHANGED <<s1, s2, s3, s4>> /\ s5' = s5
        /\ s6' = u /\ s7' = "connecting" /\ s8' \in {1, 2} /\ s9' = None
    BY <1>11 DEF T!OpenTerminal, T!viewVars
  <2>2. TopoTerm'
    BY <2>1 DEF TopoTerm
  <2> QED  BY <1>1, <1>3, <2>1, <2>2
<1>12. ASSUME T!SocketOpens PROVE Goal
  <2>1. UNCHANGED <<s1, s2, s3, s4>> /\ s5' = s5 /\ s6' = s6 /\ s7' = "open" /\ s8' = s8 /\ s9' = s8
    BY <1>12 DEF T!SocketOpens, T!viewVars
  <2>2. TopoTerm'
    BY <1>1, <2>1 DEF TopoTerm
  <2> QED  BY <1>1, <1>3, <2>1, <2>2
<1>13. ASSUME T!SocketEnds PROVE Goal
  <2>1. UNCHANGED <<s1, s2, s3, s4>> /\ s5' = s5 /\ s6' = s6 /\ s7' = "closed" /\ s8' = s8 /\ s9' = s9
    BY <1>13 DEF T!SocketEnds, T!viewVars
  <2>2. TopoTerm'
    BY <1>1, <2>1 DEF TopoTerm
  <2> QED  BY <1>1, <1>3, <2>1, <2>2
<1>14. ASSUME T!WindowResized PROVE Goal
  <2>1. UNCHANGED <<s1, s2, s3, s4>> /\ s5' = s5 /\ s6' = s6 /\ s7' = s7 /\ s8' \in {1, 2}
        /\ s9' = (IF s7 = "open" THEN s8' ELSE s9)
    BY <1>14 DEF T!WindowResized, T!viewVars
  <2>2. TopoTerm'
    BY <1>1, <2>1 DEF TopoTerm
  <2> QED  BY <1>1, <1>3, <2>1, <2>2
<1>15. ASSUME T!CloseTerminal PROVE Goal
  <2>1. UNCHANGED <<s1, s2, s3, s4>> /\ s5' = s5 /\ s6' = None /\ s7' = "none" /\ s8' = None /\ s9' = None
    BY <1>15 DEF T!CloseTerminal, T!viewVars
  <2>2. TopoTerm'
    BY <2>1 DEF TopoTerm
  <2> QED  BY <1>1, <1>3, <2>1, <2>2
<1>16. Goal
  <2> HIDE DEF Goal
  <2> QED  BY <1>4, <1>5, <1>6, <1>7, <1>8, <1>9, <1>10, <1>11, <1>12, <1>13, <1>14, <1>15 DEF T!Next
<1>17. TopoInv' <=> TopoLists' /\ s5'.node \in {"core", "gnb", "ue"} /\ TopoTerm'
  <2>1. TopoInv' => TopoLists' /\ s5'.node \in {"core", "gnb", "ue"} /\ TopoTerm'
    BY DEF TopoInv, TopoLists, TopoTerm, T!TopoTypeOK, T!TerminalSized
  <2>2. TopoLists' /\ s5'.node \in {"core", "gnb", "ue"} /\ TopoTerm' => TopoInv'
    BY DEF TopoInv, TopoLists, TopoTerm, T!TopoTypeOK, T!TerminalSized
  <2> QED  BY <2>1, <2>2
<1> QED  BY <1>16, <1>17

\* The status of a node says what the counts beside it say.
LEMMA Aggregated ==
  ASSUME NEW list, \A k \in DOMAIN list : list[k] \in T!NodeStatus
  PROVE  /\ T!Aggregate(list) = "unhealthy" <=> \E k \in DOMAIN list : list[k] = "unhealthy"
         /\ T!Aggregate(list) = "deploying" <=> /\ \A k \in DOMAIN list : list[k] # "unhealthy"
                                                /\ \E k \in DOMAIN list : list[k] = "deploying"
         /\ T!Aggregate(list) = "stopped" => \A k \in DOMAIN list : list[k] = "stopped"
         /\ DOMAIN list # {} /\ (\A k \in DOMAIN list : list[k] = "running") => T!Aggregate(list) = "running"
<1>1. \A x : T!With(list, x) = {k \in DOMAIN list : list[k] = x}
  BY DEF T!With
<1>2. \A x : T!With(list, x) # {} <=> \E k \in DOMAIN list : list[k] = x
  BY <1>1
<1>3. T!Aggregate(list) =
        IF \E k \in DOMAIN list : list[k] = "unhealthy" THEN "unhealthy"
        ELSE IF \E k \in DOMAIN list : list[k] = "deploying" THEN "deploying"
        ELSE IF \E k \in DOMAIN list : list[k] = "running" THEN "running" ELSE "stopped"
  BY <1>2 DEF T!Aggregate
<1> QED  BY <1>3 DEF T!NodeStatus

LEMMA Counted1 ==
  ASSUME NEW list, IsFiniteSet(DOMAIN list), NEW x
  PROVE  /\ T!CountOf(list, x) \in Nat /\ T!CountOf(list, x) <= Cardinality(DOMAIN list)
         /\ T!CountOf(list, x) > 0 <=> \E k \in DOMAIN list : list[k] = x
         /\ T!CountOf(list, x) = Cardinality(DOMAIN list) => \A k \in DOMAIN list : list[k] = x
<1> DEFINE some == {k \in DOMAIN list : list[k] = x}
<1>1. T!CountOf(list, x) = Cardinality(some)
  BY TopoSame DEF T!CountOf, T!With
<1>2. some \subseteq DOMAIN list
  OBVIOUS
<1>3. IsFiniteSet(some) /\ Cardinality(some) <= Cardinality(DOMAIN list)
      /\ (Cardinality(some) = Cardinality(DOMAIN list) => some = DOMAIN list)
  BY <1>2, FS_Subset
<1>4. Cardinality(some) \in Nat /\ (Cardinality(some) = 0 <=> some = {})
  BY <1>3, FS_CardinalityType, FS_EmptySet
<1>5. some # {} <=> \E k \in DOMAIN list : list[k] = x
  OBVIOUS
<1>6. some = DOMAIN list => \A k \in DOMAIN list : list[k] = x
  OBVIOUS
<1> HIDE DEF some
<1> QED  BY <1>1, <1>3, <1>4, <1>5, <1>6

\* The services of any core.
AllNfs == {"NRF", "AUSF", "UDM", "UDR", "PCF", "NSSF", "CHF", "AMF", "DB", "WEBCONSOLE", "SMF", "UPF", "I-UPF",
           "PSA-UPF", "SMF1", "SMF2", "I-UPF-1", "PSA-UPF-1", "I-UPF-2", "PSA-UPF-2"}
LEMMA NfsAre == \A t \in T!Templates : NfsOf[t] \subseteq AllNfs
  BY CoresAre DEF NfsOf, AllNfs

LEMMA NfsFinite == IsFiniteSet(AllNfs)
<1>1. \A x : IsFiniteSet({x})
  BY FS_Singleton
<1>2. \A x, Q : IsFiniteSet(Q) => IsFiniteSet(Q \cup {x})
  BY FS_AddElement
<1>3. IsFiniteSet({"NRF"} \cup {"AUSF"} \cup {"UDM"} \cup {"UDR"} \cup {"PCF"} \cup {"NSSF"} \cup {"CHF"})
  BY ONLY <1>1, <1>2
<1> DEFINE A == {"NRF"} \cup {"AUSF"} \cup {"UDM"} \cup {"UDR"} \cup {"PCF"} \cup {"NSSF"} \cup {"CHF"}
           B == A \cup {"AMF"} \cup {"DB"} \cup {"WEBCONSOLE"} \cup {"SMF"} \cup {"UPF"} \cup {"I-UPF"}
           D == B \cup {"PSA-UPF"} \cup {"SMF1"} \cup {"SMF2"} \cup {"I-UPF-1"} \cup {"PSA-UPF-1"} \cup {"I-UPF-2"}
                  \cup {"PSA-UPF-2"}
<1>6. AllNfs = D
  BY DEF AllNfs
<1> HIDE DEF A
<1>4. IsFiniteSet(A)
  BY <1>3 DEF A
<1>5. IsFiniteSet(B)
  BY ONLY <1>2, <1>4
<1> HIDE DEF B
<1>7. IsFiniteSet(D)
  BY ONLY <1>2, <1>5
<1> QED  BY <1>6, <1>7

LEMMA ListedAre == TopoLists => T!Listed \subseteq AllNfs /\ IsFiniteSet(T!Listed) /\ IsFiniteSet(DOMAIN s3)
<1> SUFFICES ASSUME TopoLists PROVE T!Listed \subseteq AllNfs /\ IsFiniteSet(T!Listed) /\ IsFiniteSet(DOMAIN s3)
  OBVIOUS
<1>1. UNION T!Range(NfsOf) \subseteq AllNfs
  <2>1. \A Q \in T!Range(NfsOf) : \E t \in T!Templates : Q = NfsOf[t]
    BY DEF T!Range, T!Templates
  <2> QED  BY <2>1, NfsAre
<1>2. T!Listed \subseteq AllNfs
  BY <1>1 DEF TopoLists
<1>3. IsFiniteSet(Ues)
  BY PagesOK
<1> QED  BY <1>2, <1>3, NfsFinite, FS_Subset DEF TopoLists

LEMMA NotesOK == TopoInv => T!NotesAgree
<1> SUFFICES ASSUME TopoInv PROVE T!NotesAgree
  OBVIOUS
<1>1. TopoLists /\ s5.node \in {"core", "gnb", "ue"}
  BY TopoParts
<1>2. IsFiniteSet(DOMAIN s1) /\ IsFiniteSet(DOMAIN s3)
  BY <1>1, ListedAre DEF T!Listed
<1>3. \A nf \in DOMAIN s1 : s1[nf] \in T!NodeStatus
  BY <1>1 DEF TopoLists, T!Listed
<1>4. \A u \in DOMAIN s3 : s3[u] \in T!NodeStatus
  BY <1>1 DEF TopoLists, T!Range
<1>5. T!NfNote = "all healthy" => T!CoreStatus = "running"
  <2> SUFFICES ASSUME T!NfNote = "all healthy" PROVE T!CoreStatus = "running"
    OBVIOUS
  <2>1. DOMAIN s1 # {} /\ ~(T!CountOf(s1, "running") < Cardinality(DOMAIN s1))
    BY TopoSame DEF T!NfNote, T!Listed
  <2>2. T!CountOf(s1, "running") \in Nat /\ T!CountOf(s1, "running") <= Cardinality(DOMAIN s1)
        /\ (T!CountOf(s1, "running") = Cardinality(DOMAIN s1) => \A k \in DOMAIN s1 : s1[k] = "running")
    BY <1>2, Counted1
  <2>3. Cardinality(DOMAIN s1) \in Nat
    BY <1>2, FS_CardinalityType
  <2>6. T!CountOf(s1, "running") = Cardinality(DOMAIN s1)
    <3> DEFINE m == T!CountOf(s1, "running")
               n == Cardinality(DOMAIN s1)
    <3>1. ~(m < n)
      BY <2>1
    <3>3. m <= n /\ m \in Nat
      BY <2>2
    <3>4. n \in Nat
      BY <2>3
    <3> HIDE DEF m, n
    <3>2. m = n
      BY ONLY <3>1, <3>3, <3>4
    <3> QED  BY <3>2 DEF m, n
  <2>4. \A k \in DOMAIN s1 : s1[k] = "running"
    BY <2>2, <2>6
  <2>5. T!Aggregate(s1) = "running"
    BY <1>3, <2>1, <2>4, Aggregated
  <2> QED  BY <2>5 DEF T!CoreStatus
<1>6. T!UeNode = T!Aggregate(s3)
  BY DEF T!UeNode
<1>7. T!UeNote = "all up" => T!UeNode = "running"
  <2> SUFFICES ASSUME T!UeNote = "all up" PROVE T!UeNode = "running"
    OBVIOUS
  <2>1. DOMAIN s3 # {} /\ T!CountOf(s3, "running") = Cardinality(DOMAIN s3)
    BY TopoSame DEF T!UeNote
  <2>2. \A k \in DOMAIN s3 : s3[k] = "running"
    BY <1>2, <2>1, Counted1
  <2> QED  BY <1>4, <1>6, <2>1, <2>2, Aggregated
<1>8. T!UeNote = "unhealthy" => T!UeNode = "unhealthy"
  <2> SUFFICES ASSUME T!UeNote = "unhealthy" PROVE T!UeNode = "unhealthy"
    OBVIOUS
  <2>1. T!CountOf(s3, "unhealthy") > 0
    BY DEF T!UeNote
  <2>2. \E k \in DOMAIN s3 : s3[k] = "unhealthy"
    BY <1>2, <2>1, Counted1
  <2> QED  BY <1>4, <1>6, <2>2, Aggregated
<1>9. T!UeNote = "starting" => T!UeNode = "deploying"
  <2> SUFFICES ASSUME T!UeNote = "starting" PROVE T!UeNode = "deploying"
    OBVIOUS
  <2>1. ~(T!CountOf(s3, "unhealthy") > 0) /\ T!CountOf(s3, "deploying") > 0
    BY DEF T!UeNote
  <2>2. \A k \in DOMAIN s3 : s3[k] # "unhealthy"
    BY <1>2, <2>1, Counted1
  <2>3. \E k \in DOMAIN s3 : s3[k] = "deploying"
    BY <1>2, <2>1, Counted1
  <2> QED  BY <1>4, <1>6, <2>2, <2>3, Aggregated
<1>10. T!UeNode = "stopped" => \A slice \in {"slice1", "slice2"} : T!SliceUes(slice) = {}
  <2> SUFFICES ASSUME T!UeNode = "stopped", NEW slice PROVE T!SliceUes(slice) = {}
    OBVIOUS
  <2>1. \A k \in DOMAIN s3 : s3[k] = "stopped"
    BY <1>4, <1>6, Aggregated
  <2>2. T!UpRows = {}
    BY <2>1 DEF T!UpRows, T!With
  <2> QED  BY <2>2 DEF T!SliceUes
<1>11. T!AsideStatus = "unhealthy" => "unhealthy" \in {T!CoreStatus, T!GnbNode, T!UeNode}
  <2> SUFFICES ASSUME T!AsideStatus = "unhealthy" PROVE "unhealthy" \in {T!CoreStatus, T!GnbNode, T!UeNode}
    OBVIOUS
  <2>1. CASE s5.node = "core"
    <3>1. T!AsideStatus = IF T!AsideNf # None THEN s1[T!AsideNf] ELSE T!CoreStatus
      BY <2>1 DEF T!AsideStatus
    <3>2. ASSUME T!AsideNf # None PROVE T!CoreStatus = "unhealthy"
      <4>1. T!AsideNf \in DOMAIN s1 /\ s1[T!AsideNf] = "unhealthy"
        BY <3>1, <3>2 DEF T!AsideNf, T!Listed
      <4> QED  BY <1>3, <4>1, Aggregated DEF T!CoreStatus
    <3> QED  BY <3>1, <3>2
  <2>2. CASE s5.node = "gnb"
    <3>1. T!AsideStatus = T!GnbNode
      BY <2>2 DEF T!AsideStatus
    <3> QED  BY <3>1
  <2>3. CASE s5.node = "ue"
    <3>1. T!AsideStatus = IF T!AsideUe # None THEN s3[T!AsideUe] ELSE T!UeNode
      BY <2>3 DEF T!AsideStatus
    <3>2. ASSUME T!AsideUe # None PROVE T!UeNode = "unhealthy"
      <4>1. T!AsideUe \in DOMAIN s3 /\ s3[T!AsideUe] = "unhealthy"
        BY <3>1, <3>2 DEF T!AsideUe
      <4> QED  BY <1>4, <1>6, <4>1, Aggregated
    <3> QED  BY <3>1, <3>2
  <2> QED  BY <1>1, <2>1, <2>2, <2>3
<1> QED  BY <1>5, <1>7, <1>8, <1>9, <1>10, <1>11 DEF T!NotesAgree

-----------------------------------------------------------------------------
(* The drawing: the boxes. *)

Boxes == [x : Int, y : Int, w : Int, h : Int]

LEMMA NfIs ==
  ASSUME NEW x \in Int, NEW y \in Int, NEW w \in Int
  PROVE  T!Nf(x, y, w) = [x |-> 2 * x, y |-> 2 * y, w |-> 2 * w, h |-> 52]
  BY DEF T!Nf, T!BoxAt

LEMMA MaxOfTwo ==
  ASSUME NEW a \in Int, NEW b \in Int
  PROVE  T!Max({a, b}) \in Int /\ a <= T!Max({a, b}) /\ b <= T!Max({a, b}) /\ T!Max({a, b}) \in {a, b}
<1>1. \E x \in {a, b} : \A y \in {a, b} : x >= y
  <2>1. a >= b \/ b >= a
    OBVIOUS
  <2> QED  BY <2>1
<1>2. T!Max({a, b}) \in {a, b} /\ \A y \in {a, b} : T!Max({a, b}) >= y
  BY <1>1 DEF T!Max
<1> QED  BY <1>2

LEMMA MaxOfOne == ASSUME NEW a \in Int PROVE T!Max({a}) = a /\ T!Min({a}) = a
<1>1. (\E x \in {a} : \A y \in {a} : x >= y) /\ (\E x \in {a} : \A y \in {a} : x <= y)
  OBVIOUS
<1>2. T!Max({a}) \in {a} /\ T!Min({a}) \in {a}
  BY <1>1 DEF T!Max, T!Min
<1> QED  BY <1>2

LEMMA MinOfTwo == ASSUME NEW a \in Int, NEW b \in Int, a <= b PROVE T!Min({a, b}) = a
<1>1. \E x \in {a, b} : \A y \in {a, b} : x <= y
  OBVIOUS
<1>2. T!Min({a, b}) \in {a, b} /\ \A y \in {a, b} : T!Min({a, b}) <= y
  BY <1>1 DEF T!Min
<1> QED  BY <1>2

LEMMA MaxOfOrder == ASSUME NEW a \in Int, NEW b \in Int, a <= b PROVE T!Max({a, b}) = b
<1>1. T!Max({a, b}) \in {a, b} /\ b <= T!Max({a, b})
  BY MaxOfTwo
<1> QED  BY <1>1

\* How wide a name is drawn.
LEMMA WidthIs ==
  ASSUME NEW nf, Len(nf) \in Nat, NEW least \in Nat
  PROVE  T!NfWidth(nf, least) \in Nat /\ least <= T!NfWidth(nf, least)
<1> DEFINE k == Len(nf)
           w == (249 + 63 * k) \div 10
<1>1. k \in Nat
  OBVIOUS
<1> HIDE DEF k
<1>2. w \in Nat
  BY <1>1
<1> HIDE DEF w
<1>3. T!NfWidth(nf, least) = T!Max({least, w})
  BY DEF T!NfWidth, w, k
<1>5. w \in Int /\ least \in Int
  BY <1>2
<1>4. T!Max({least, w}) \in {least, w} /\ least <= T!Max({least, w})
  BY <1>5, MaxOfTwo
<1> QED  BY <1>2, <1>3, <1>4

LEMMA WidthsAre ==
    /\ T!NfWidth("I-UPF-1", 60) = 69 /\ T!NfWidth("I-UPF-2", 60) = 69 /\ T!NfWidth("PSA-UPF-1", 60) = 81
<1>1. Len("I-UPF-1") = 7 /\ Len("I-UPF-2") = 7 /\ Len("PSA-UPF-1") = 9
  BY LettersOK
<1>2. (249 + 63 * 7) \div 10 = 69 /\ (249 + 63 * 9) \div 10 = 81
  OBVIOUS
<1>3. T!Max({60, 69}) = 69 /\ T!Max({60, 81}) = 81
  BY MaxOfOrder
<1>7. ASSUME NEW nf, NEW k, Len(nf) = k PROVE T!NfWidth(nf, 60) = T!Max({60, (249 + 63 * k) \div 10})
  BY <1>7 DEF T!NfWidth
<1>4. T!NfWidth("I-UPF-1", 60) = 69
  <2>1. T!NfWidth("I-UPF-1", 60) = T!Max({60, (249 + 63 * 7) \div 10})
    BY <1>1, <1>7, ZenonT(60)
  <2> QED  BY <1>2, <1>3, <2>1
<1>5. T!NfWidth("I-UPF-2", 60) = 69
  <2>2. Len("I-UPF-2") = 7
    BY <1>1
  <2>1. T!NfWidth("I-UPF-2", 60) = T!Max({60, (249 + 63 * 7) \div 10})
    BY <1>7, <2>2, ZenonT(60)
  <2> QED  BY <1>2, <1>3, <2>1
<1>6. T!NfWidth("PSA-UPF-1", 60) = 81
  <2>1. T!NfWidth("PSA-UPF-1", 60) = T!Max({60, (249 + 63 * 9) \div 10})
    BY <1>1, <1>7, ZenonT(60)
  <2> QED  BY <1>2, <1>3, <2>1
<1> QED  BY <1>4, <1>5, <1>6

Cores == {"basic", "ulcl", "ulcl-2slice"}
LEMMA CoreIs == TopoLists => T!CoreTemplate \in Cores
<1> SUFFICES ASSUME TopoLists PROVE T!CoreTemplate \in Cores
  OBVIOUS
<1>1. s4 \in Cores
  BY CoresAre DEF TopoLists, Cores
<1> QED  BY <1>1 DEF T!CoreTemplate, Cores

\* Where the plane's functions are.
RowOf(core) ==
    {"AMF"} \cup CASE core = "basic" -> {"SMF", "UPF"}
                   [] core = "ulcl" -> {"SMF", "I-UPF", "PSA-UPF"}
                   [] OTHER -> {"SMF1", "I-UPF-1", "PSA-UPF-1", "SMF2", "I-UPF-2", "PSA-UPF-2"}

Box(x, y, w) == [x |-> x, y |-> y, w |-> w, h |-> 52]

LEMMA Smfs == T!Smf1 = Box(1180, 260, 120) /\ T!Smf2 = Box(1400, 260, 120)
<1>1. T!Smf1 = Box(2 * 590, 2 * 130, 2 * 60) /\ T!Smf2 = Box(2 * 700, 2 * 130, 2 * 60)
  BY NfIs DEF T!Smf1, T!Smf2, Box
<1> QED  BY <1>1

LEMMA Belows ==
    /\ T!Below(T!Smf1, "I-UPF-1", 196) = Box(1171, 392, 138)
    /\ T!Below(T!Smf2, "I-UPF-2", 250) = Box(1391, 500, 138)
<1>1. T!MidX(T!Smf1) = 1240 /\ T!MidX(T!Smf2) = 1460
  <2>1. T!Smf1.x = 1180 /\ T!Smf1.w = 120 /\ T!Smf2.x = 1400 /\ T!Smf2.w = 120
    BY Smfs DEF Box
  <2> QED  BY <2>1 DEF T!MidX
<1>2. T!Below(T!Smf1, "I-UPF-1", 196) = Box(1240 - 69, 2 * 196, 2 * 69)
  BY <1>1, WidthsAre DEF T!Below, Box
<1>3. T!Below(T!Smf2, "I-UPF-2", 250) = Box(1460 - 69, 2 * 250, 2 * 69)
  BY <1>1, WidthsAre DEF T!Below, Box
<1> QED  BY <1>2, <1>3

LEMMA PlaneIs ==
    /\ DOMAIN T!Plane = T!PlaneRow
    /\ \A nf \in T!PlaneRow :
          /\ nf = "AMF" => T!Plane[nf] = Box(932, 260, 120)
          /\ nf \in {"SMF", "SMF1"} => T!Plane[nf] = Box(1180, 260, 120)
          /\ nf = "SMF2" => T!Plane[nf] = Box(1400, 260, 120)
          /\ nf \in {"UPF", "I-UPF"} => T!Plane[nf] = Box(1180, 420, 120)
          /\ nf = "PSA-UPF" => T!Plane[nf] = Box(1420, 420, 144)
          /\ nf = "I-UPF-1" => T!Plane[nf] = Box(1171, 392, 138)
          /\ nf = "I-UPF-2" => T!Plane[nf] = Box(1391, 500, 138)
          /\ nf = "PSA-UPF-1" => T!Plane[nf] = Box(1520, 392, 162)
          /\ nf = "PSA-UPF-2" => T!Plane[nf] = Box(1700, 500, 162)
<1>1. DOMAIN T!Plane = T!PlaneRow
  BY DEF T!Plane
<1>2. /\ T!Nf(T!X0, 130, 60) = Box(932, 260, 120) /\ T!Nf(590, 210, 60) = Box(1180, 420, 120)
      /\ T!Nf(710, 210, 72) = Box(1420, 420, 144)
      /\ T!Nf(760, 196, T!NfWidth("PSA-UPF-1", 60)) = Box(1520, 392, 162)
      /\ T!Nf(850, 250, T!NfWidth("PSA-UPF-1", 60)) = Box(1700, 500, 162)
  <2>1. T!X0 = 466 /\ T!NfWidth("PSA-UPF-1", 60) = 81
    BY WidthsAre DEF T!X0
  <2>2. \A x, y, w \in Int : T!Nf(x, y, w) = Box(2 * x, 2 * y, 2 * w)
    BY NfIs DEF Box
  <2>3. T!Nf(466, 130, 60) = Box(2 * 466, 2 * 130, 2 * 60) /\ T!Nf(590, 210, 60) = Box(2 * 590, 2 * 210, 2 * 60)
    BY <2>2
  <2>4. T!Nf(710, 210, 72) = Box(2 * 710, 2 * 210, 2 * 72) /\ T!Nf(760, 196, 81) = Box(2 * 760, 2 * 196, 2 * 81)
    BY <2>2
  <2>5. T!Nf(850, 250, 81) = Box(2 * 850, 2 * 250, 2 * 81)
    BY <2>2
  <2>6. /\ 2 * 466 = 932 /\ 2 * 130 = 260 /\ 2 * 60 = 120 /\ 2 * 590 = 1180 /\ 2 * 210 = 420 /\ 2 * 710 = 1420
        /\ 2 * 72 = 144 /\ 2 * 760 = 1520 /\ 2 * 196 = 392 /\ 2 * 81 = 162 /\ 2 * 850 = 1700 /\ 2 * 250 = 500
    OBVIOUS
  <2> QED  BY <2>1, <2>3, <2>4, <2>5, <2>6
<1> SUFFICES ASSUME NEW nf \in T!PlaneRow
    PROVE /\ nf = "AMF" => T!Plane[nf] = Box(932, 260, 120)
          /\ nf \in {"SMF", "SMF1"} => T!Plane[nf] = Box(1180, 260, 120)
          /\ nf = "SMF2" => T!Plane[nf] = Box(1400, 260, 120)
          /\ nf \in {"UPF", "I-UPF"} => T!Plane[nf] = Box(1180, 420, 120)
          /\ nf = "PSA-UPF" => T!Plane[nf] = Box(1420, 420, 144)
          /\ nf = "I-UPF-1" => T!Plane[nf] = Box(1171, 392, 138)
          /\ nf = "I-UPF-2" => T!Plane[nf] = Box(1391, 500, 138)
          /\ nf = "PSA-UPF-1" => T!Plane[nf] = Box(1520, 392, 162)
          /\ nf = "PSA-UPF-2" => T!Plane[nf] = Box(1700, 500, 162)
  BY <1>1
<1>3. T!Plane[nf] =
        CASE nf = "AMF" -> T!Nf(T!X0, 130, 60)
          [] nf \in {"SMF", "SMF1"} -> T!Smf1
          [] nf = "SMF2" -> T!Smf2
          [] nf \in {"UPF", "I-UPF"} -> T!Nf(590, 210, 60)
          [] nf = "PSA-UPF" -> T!Nf(710, 210, 72)
          [] nf = "I-UPF-1" -> T!Below(T!Smf1, nf, 196)
          [] nf = "I-UPF-2" -> T!Below(T!Smf2, nf, 250)
          [] nf = "PSA-UPF-1" -> T!Nf(760, 196, T!NfWidth(nf, 60))
          [] OTHER -> T!Nf(850, 250, T!NfWidth("PSA-UPF-1", 60))
  BY DEF T!Plane
<1>4. nf = "AMF" => T!Plane[nf] = Box(932, 260, 120)
  BY <1>2, <1>3
<1>5. nf \in {"SMF", "SMF1"} => T!Plane[nf] = Box(1180, 260, 120)
  BY <1>3, Smfs
<1>6. nf = "SMF2" => T!Plane[nf] = Box(1400, 260, 120)
  BY <1>3, Smfs
<1>7. nf \in {"UPF", "I-UPF"} => T!Plane[nf] = Box(1180, 420, 120)
  BY <1>2, <1>3
<1>8. nf = "PSA-UPF" => T!Plane[nf] = Box(1420, 420, 144)
  BY <1>2, <1>3
<1>9. nf = "I-UPF-1" => T!Plane[nf] = Box(1171, 392, 138)
  BY <1>3, Belows
<1>10. nf = "I-UPF-2" => T!Plane[nf] = Box(1391, 500, 138)
  BY <1>3, Belows
<1>11. nf = "PSA-UPF-1" => T!Plane[nf] = Box(1520, 392, 162)
  BY <1>2, <1>3
<1>12. nf = "PSA-UPF-2" => T!Plane[nf] = Box(1700, 500, 162)
  BY <1>2, <1>3
<1> QED  BY <1>4, <1>5, <1>6, <1>7, <1>8, <1>9, <1>10, <1>11, <1>12

\* The bus: its names, each box to the right of the one before.
Bus == DOMAIN T!TopRow
WidthAt(i) == T!NfWidth(T!TopRow[i], 48)

LEMMA BusNames == ASSUME TopoLists
  PROVE  /\ T!TopRow \in Seq(AllNfs \ T!PlaneNfs) /\ Len(T!TopRow) \in Nat /\ Len(T!TopRow) >= 7
         /\ \A i, j \in Bus : T!TopRow[i] = T!TopRow[j] => i = j
         /\ T!Range(T!TopRow) = T!Range(T!TopNfs) \cup (T!Listed \ T!PlaneNfs)
<1> DEFINE Q == T!Listed \ (T!PlaneNfs \cup T!Range(T!TopNfs))
           n == T!Cardinality(Q)
           o == T!Others
           t == T!TopNfs
<1>1. T!Listed \subseteq AllNfs /\ IsFiniteSet(T!Listed)
  BY ListedAre
<1>2. IsFiniteSet(Q) /\ n = Cardinality(Q)
  <2>1. Q \subseteq T!Listed
    OBVIOUS
  <2>2. IsFiniteSet(Q)
    BY <1>1, <2>1, FS_Subset
  <2> QED  BY <2>2, TopoSame
<1>3. n \in Nat /\ \E f : f \in Bijection(1 .. n, Q)
  BY <1>2, FS_CardinalityType DEF ExistsBijection
<1>4. \E f \in [1 .. n -> Q] : T!IsInjective(f)
  <2>1. PICK f : f \in Bijection(1 .. n, Q)
    BY <1>3
  <2>2. f \in [1 .. n -> Q] /\ \A a, b \in 1 .. n : f[a] = f[b] => a = b
    BY <2>1, Fun_BijectionProperties
  <2>3. T!IsInjective(f)
    BY <2>2 DEF T!IsInjective
  <2> QED  BY <2>2, <2>3
<1>5. o \in [1 .. n -> Q] /\ T!IsInjective(o)
  BY <1>4 DEF T!Others
<1> HIDE DEF o
<1>6. \A a, b \in 1 .. n : o[a] = o[b] => a = b
  BY <1>5 DEF T!IsInjective
<1>7. T!Range(o) = Q
  <2>1. o \in Injection(1 .. n, Q)
    BY <1>5, <1>6, Fun_IsInj
  <2>2. IsFiniteSet(1 .. n) /\ Cardinality(1 .. n) = n
    BY <1>3, FS_Interval
  <2>3. o \in Surjection(1 .. n, Q)
    BY <1>2, <2>1, <2>2, FS_Injection
  <2>4. \A x \in Q : \E i \in 1 .. n : o[i] = x
    <3> HIDE DEF Q, n
    <3> QED  BY <2>3 DEF Surjection
  <2> HIDE DEF Q, n
  <2> QED  BY <1>5, <2>4 DEF T!Range
<1>8. t = <<"NRF", "AUSF", "UDM", "UDR", "PCF", "NSSF", "CHF">> /\ Len(t) = 7 /\ DOMAIN t = 1 .. 7
  BY DEF T!TopNfs
<1>9. T!Range(t) = {"NRF", "AUSF", "UDM", "UDR", "PCF", "NSSF", "CHF"}
  BY <1>8 DEF T!Range
<1>10. T!Range(t) \subseteq AllNfs \ T!PlaneNfs /\ t \in Seq(AllNfs \ T!PlaneNfs)
  <2>1. {"NRF", "AUSF", "UDM", "UDR", "PCF", "NSSF", "CHF"} \subseteq AllNfs \ T!PlaneNfs
    BY DEF AllNfs, T!PlaneNfs
  <2>2. t \in Seq({"NRF", "AUSF", "UDM", "UDR", "PCF", "NSSF", "CHF"})
    BY <1>8
  <2> QED  BY <1>9, <2>1, <2>2
<1>11. \A i, j \in 1 .. 7 : t[i] = t[j] => i = j
  BY <1>8
<1>12. Q \subseteq AllNfs \ T!PlaneNfs
  BY <1>1
<1>13. o \in Seq(AllNfs \ T!PlaneNfs) /\ Len(o) = n
  <2> HIDE DEF Q, n
  <2>1. o \in Seq(Q) /\ Len(o) = n
    BY <1>3, <1>5
  <2> QED  BY <1>12, <2>1
<1>14. T!TopRow = t \o o
  BY DEF T!TopRow, o
<1> DEFINE r == T!TopRow
<1>15. Len(r) = 7 + n /\ DOMAIN r = 1 .. 7 + n /\ r \in Seq(AllNfs \ T!PlaneNfs)
       /\ \A i \in 1 .. 7 + n : r[i] = IF i <= 7 THEN t[i] ELSE o[i - 7]
  <2> HIDE DEF t, n, Q
  <2> QED  BY <1>3, <1>8, <1>10, <1>13, <1>14
<1>16. T!Range(r) = T!Range(t) \cup Q
  <2>1. \A x \in T!Range(r) : x \in T!Range(t) \cup Q
    <3>1. SUFFICES ASSUME NEW i \in 1 .. 7 + n PROVE r[i] \in T!Range(t) \cup Q
      BY <1>15 DEF T!Range
    <3>2. CASE i <= 7
      BY <1>8, <1>15, <3>2 DEF T!Range
    <3>3. CASE i > 7
      <4>1. i - 7 \in 1 .. n
        BY <1>3, <3>3
      <4> HIDE DEF Q, n, r, t
      <4> QED  BY <1>3, <1>5, <1>15, <3>3, <4>1
    <3> QED  BY <1>3, <3>2, <3>3
  <2>2. ASSUME NEW x \in T!Range(t) PROVE x \in T!Range(r)
    <3>1. PICK i \in 1 .. 7 : x = t[i]
      BY <1>8 DEF T!Range
    <3>2. i \in 1 .. 7 + n /\ r[i] = t[i]
      <4> HIDE DEF Q, n, r, t
      <4> QED  BY <1>3, <1>15
    <3> QED  BY <1>15, <3>1, <3>2 DEF T!Range
  <2>3. ASSUME NEW x \in Q PROVE x \in T!Range(r)
    <3>1. PICK i \in 1 .. n : x = o[i]
      BY <1>5, <1>7 DEF T!Range
    <3>2. i + 7 \in 1 .. 7 + n /\ r[i + 7] = o[i]
      <4> HIDE DEF Q, n, r, t
      <4>1. i + 7 \in 1 .. 7 + n /\ ~(i + 7 <= 7) /\ (i + 7) - 7 = i
        BY <1>3
      <4> QED  BY <1>15, <4>1
    <3> QED  BY <1>15, <3>1, <3>2 DEF T!Range
  <2> QED  BY <2>1, <2>2, <2>3
<1>17. ASSUME NEW i \in 1 .. 7 + n, NEW j \in 1 .. 7 + n, r[i] = r[j] PROVE i = j
  <2>1. (i <= 7 => r[i] = t[i] /\ r[i] \in T!Range(t)) /\ (j <= 7 => r[j] = t[j] /\ r[j] \in T!Range(t))
    BY <1>8, <1>15 DEF T!Range
  <2>2. (i > 7 => r[i] = o[i - 7] /\ i - 7 \in 1 .. n) /\ (j > 7 => r[j] = o[j - 7] /\ j - 7 \in 1 .. n)
    <3> HIDE DEF Q, n, r, t
    <3> QED  BY <1>3, <1>15
  <2>3. \A k \in 1 .. n : o[k] \notin T!Range(t)
    BY <1>5
  <2>4. CASE i <= 7 /\ j <= 7
    <3>1. t[i] = t[j] /\ i \in 1 .. 7 /\ j \in 1 .. 7
      BY <1>3, <1>17, <2>1, <2>4
    <3> QED  BY <1>11, <3>1
  <2>5. CASE i > 7 /\ j > 7
    <3>1. i - 7 = j - 7
      BY <1>6, <1>17, <2>2, <2>5
    <3> QED  BY <1>3, <3>1
  <2>6. CASE i <= 7 /\ j > 7
    BY <1>17, <2>1, <2>2, <2>3, <2>6
  <2>7. CASE i > 7 /\ j <= 7
    BY <1>17, <2>1, <2>2, <2>3, <2>7
  <2> QED  BY <1>3, <2>4, <2>5, <2>6, <2>7
<1>18. T!Range(t) \cup Q = T!Range(T!TopNfs) \cup (T!Listed \ T!PlaneNfs)
  OBVIOUS
<1> HIDE DEF Q, n, r, t
<1>19. 7 + n \in Nat /\ 7 + n >= 7
  BY <1>3
<1> QED  BY <1>15, <1>16, <1>17, <1>18, <1>19 DEF r, Bus

LEMMA BusFits == ASSUME TopoLists
  PROVE  /\ Bus = 1 .. Len(T!TopRow)
         /\ \A i \in Bus : /\ WidthAt(i) \in Nat /\ 48 <= WidthAt(i) /\ T!TopSteps[i] = WidthAt(i) + 8
                           /\ T!TopBoxes[i] = T!Nf(T!TopX(i), 56, WidthAt(i))
         /\ DOMAIN T!TopBoxes = Bus /\ DOMAIN T!TopSteps = Bus
<1>1. T!TopRow \in Seq(AllNfs \ T!PlaneNfs)
  BY BusNames
<1>2. Bus = 1 .. Len(T!TopRow) /\ \A i \in Bus : T!TopRow[i] \in AllNfs \ T!PlaneNfs
  BY <1>1 DEF Bus
<1>3. AllNfs \ T!PlaneNfs \subseteq NfsOf["basic"]
  BY DEF AllNfs, T!PlaneNfs, NfsOf
<1>4. \A nf \in NfsOf["basic"] : Len(nf) \in Nat
  BY LettersOK DEF NfsOf
<1>5. \A i \in Bus : WidthAt(i) \in Nat /\ 48 <= WidthAt(i)
  <2> SUFFICES ASSUME NEW i \in Bus PROVE WidthAt(i) \in Nat /\ 48 <= WidthAt(i)
    OBVIOUS
  <2>1. Len(T!TopRow[i]) \in Nat /\ 48 \in Nat
    BY <1>2, <1>3, <1>4
  <2> QED  BY <2>1, WidthIs DEF WidthAt
<1>6. DOMAIN T!TopBoxes = Bus /\ \A i \in Bus : T!TopBoxes[i] = T!Nf(T!TopX(i), 56, WidthAt(i))
  BY DEF T!TopBoxes, Bus, WidthAt
<1>7. DOMAIN T!TopSteps = Bus /\ \A i \in Bus : T!TopSteps[i] = WidthAt(i) + 8
  BY DEF T!TopSteps, Bus, WidthAt
<1> QED  BY <1>2, <1>5, <1>6, <1>7

\* Each box of the bus begins where the one before ends and 8 units after.
LEMMA BusGoesOn == ASSUME TopoLists
  PROVE  /\ T!TopX(1) = 466
         /\ \A i \in Bus : T!TopX(i) \in Int /\ T!TopX(i + 1) = T!TopX(i) + WidthAt(i) + 8
<1> DEFINE n == Len(T!TopRow)
           f == T!TopSteps
<1>1. Bus = 1 .. n /\ n \in Nat /\ \A i \in Bus : WidthAt(i) \in Nat /\ f[i] = WidthAt(i) + 8
  BY BusFits, BusNames
<1>2. \A i : T!TopX(i) = SumFrom(466, f, 1 .. (i - 1))
  <2> SUFFICES ASSUME NEW i PROVE T!TopX(i) = SumFrom(466, f, 1 .. (i - 1))
    OBVIOUS
  <2>1. T!TopX(i) = T!FoldFunctionOnSet(+, 466, T!TopSteps, 1 .. (i - 1))
    BY DEF T!TopX, T!X0
  <2>2. T!FoldFunctionOnSet(+, 466, T!TopSteps, 1 .. (i - 1)) = SumFrom(466, T!TopSteps, 1 .. (i - 1))
    BY DEF T!FoldFunctionOnSet, FoldFunctionOnSet, SumFrom, T!MapThenFoldSet, MapThenFoldSet
  <2> QED  BY <2>1, <2>2
<1> HIDE DEF n, f
<1>3. T!TopX(1) = 466
  <2>1. 1 .. (1 - 1) = {}
    OBVIOUS
  <2> QED  BY <1>2, <2>1, SumEmpty
<1>4. ASSUME NEW i \in 1 .. n PROVE T!TopX(i) \in Int /\ T!TopX(i + 1) = T!TopX(i) + WidthAt(i) + 8
  <2>1. i \in Nat \ {0} /\ (i + 1) - 1 = i /\ 466 \in Int
    BY <1>1
  <2>2. \A k \in 1 .. i : f[k] \in Int
    BY <1>1
  <2>3. SumFrom(466, f, 1 .. i) = f[i] + SumFrom(466, f, 1 .. (i - 1)) /\ SumFrom(466, f, 1 .. (i - 1)) \in Int
    BY ONLY <2>1, <2>2, SumLast
  <2>4. T!TopX(i) = SumFrom(466, f, 1 .. (i - 1)) /\ T!TopX(i + 1) = SumFrom(466, f, 1 .. i)
    BY <1>2, <2>1
  <2>5. f[i] = WidthAt(i) + 8 /\ WidthAt(i) \in Nat
    BY <1>1
  <2> QED  BY <2>3, <2>4, <2>5
<1> QED  BY <1>1, <1>3, <1>4

LEMMA BusApart == ASSUME TopoLists
  PROVE  \A i, j \in Bus : i < j => T!TopX(i) + WidthAt(i) + 8 <= T!TopX(j)
<1> DEFINE n == Len(T!TopRow)
           B == {j \in Nat : j \in 1 .. n => \A i \in 1 .. j - 1 : T!TopX(i) + WidthAt(i) + 8 <= T!TopX(j)}
<1>1. Bus = 1 .. n /\ n \in Nat /\ \A i \in Bus : WidthAt(i) \in Nat
  BY BusFits, BusNames
<1>2. \A i \in Bus : T!TopX(i) \in Int /\ T!TopX(i + 1) = T!TopX(i) + WidthAt(i) + 8
  BY BusGoesOn
<1> HIDE DEF n
<1>3. 0 \in B
  OBVIOUS
<1>4. ASSUME NEW j \in Nat \ {0}, j - 1 \in B PROVE j \in B
  <2>1. SUFFICES ASSUME j \in 1 .. n, NEW i \in 1 .. j - 1 PROVE T!TopX(i) + WidthAt(i) + 8 <= T!TopX(j)
    BY DEF B
  <2>2. j - 1 \in 1 .. n /\ i \in 1 .. n /\ (j - 1) + 1 = j
    BY <1>1, <2>1
  <2>3. T!TopX(j) = T!TopX(j - 1) + WidthAt(j - 1) + 8 /\ WidthAt(j - 1) \in Nat /\ T!TopX(j - 1) \in Int
        /\ T!TopX(i) \in Int /\ WidthAt(i) \in Nat
    BY <1>1, <1>2, <2>2
  <2>4. CASE i = j - 1
    BY <2>3, <2>4
  <2>5. CASE i # j - 1
    <3>1. i \in 1 .. (j - 1) - 1
      BY <2>1, <2>5
    <3>2. T!TopX(i) + WidthAt(i) + 8 <= T!TopX(j - 1)
      BY <1>4, <2>2, <3>1
    <3> QED  BY <2>3, <3>2
  <2> QED  BY <2>4, <2>5
<1>5. B \in SUBSET Nat
  OBVIOUS
<1> HIDE DEF B
<1>6. B = Nat
  BY <1>3, <1>4, <1>5, NatsAll
<1>7. ASSUME NEW i \in 1 .. n, NEW j \in 1 .. n, i < j PROVE T!TopX(i) + WidthAt(i) + 8 <= T!TopX(j)
  <2>1. j \in B /\ i \in 1 .. j - 1
    BY <1>1, <1>6, <1>7
  <2> QED  BY <2>1 DEF B
<1> QED  BY <1>1, <1>7

\* The bus, in half units.
LEMMA TopIs == ASSUME TopoLists, NEW i \in Bus
  PROVE  /\ T!TopBoxes[i] \in Boxes
         /\ T!TopBoxes[i].x = 2 * T!TopX(i) /\ T!TopBoxes[i].y = 112
         /\ T!TopBoxes[i].w = 2 * WidthAt(i) /\ T!TopBoxes[i].h = 52
         /\ 932 <= T!TopBoxes[i].x /\ 96 <= T!TopBoxes[i].w
<1>1. T!TopX(i) \in Int /\ WidthAt(i) \in Nat /\ 48 <= WidthAt(i) /\ T!TopBoxes[i] = T!Nf(T!TopX(i), 56, WidthAt(i))
  BY BusFits, BusGoesOn
<1>2. 466 <= T!TopX(i)
  <2>1. 1 \in Bus /\ i \in Nat /\ 1 <= i
    BY BusFits, BusNames
  <2>2. T!TopX(1) = 466 /\ WidthAt(1) \in Nat
    BY <2>1, BusFits, BusGoesOn
  <2>3. CASE i = 1
    BY <2>2, <2>3
  <2>4. CASE 1 < i
    <3>1. T!TopX(1) + WidthAt(1) + 8 <= T!TopX(i)
      BY <2>1, <2>4, BusApart
    <3> QED  BY <1>1, <2>2, <3>1
  <2> QED  BY <2>1, <2>3, <2>4
<1> DEFINE x == T!TopX(i)
           w == WidthAt(i)
<1>3. x \in Int /\ w \in Int /\ 56 \in Int
  BY <1>1
<1>4. T!TopBoxes[i] = [x |-> 2 * x, y |-> 2 * 56, w |-> 2 * w, h |-> 52]
  BY <1>1, <1>3, NfIs, ZenonT(60)
<1>5. 466 <= x /\ 48 <= w /\ 2 * 56 = 112
  BY <1>1, <1>2
<1> HIDE DEF x, w
<1>6. 2 * x \in Int /\ 2 * w \in Int /\ 932 <= 2 * x /\ 96 <= 2 * w
  BY <1>3, <1>5
<1> QED  BY <1>4, <1>5, <1>6 DEF Boxes, x, w

\* No two of the bus meet.
LEMMA TopsApart == ASSUME TopoLists, NEW i \in Bus, NEW j \in Bus, i # j
  PROVE  T!Apart(T!TopBoxes[i], T!TopBoxes[j]) /\ T!TopBoxes[i] # T!TopBoxes[j]
<1>1. i \in Int /\ j \in Int
  BY BusFits, BusNames
<1>2. /\ T!TopX(i) \in Int /\ WidthAt(i) \in Nat /\ T!TopX(j) \in Int /\ WidthAt(j) \in Nat
  BY BusFits, BusGoesOn
<1>3. \/ T!TopX(i) + WidthAt(i) + 8 <= T!TopX(j)
      \/ T!TopX(j) + WidthAt(j) + 8 <= T!TopX(i)
  BY <1>1, BusApart
<1>4. /\ T!TopBoxes[i].x = 2 * T!TopX(i) /\ T!TopBoxes[i].w = 2 * WidthAt(i)
      /\ T!TopBoxes[j].x = 2 * T!TopX(j) /\ T!TopBoxes[j].w = 2 * WidthAt(j)
  BY TopIs
<1> DEFINE a == T!TopX(i)
           b == T!TopX(j)
           v == WidthAt(i)
           w == WidthAt(j)
<1>5. a \in Int /\ b \in Int /\ v \in Nat /\ w \in Nat /\ (a + v + 8 <= b \/ b + w + 8 <= a)
  BY <1>2, <1>3
<1>6. T!TopBoxes[i].x = 2 * a /\ T!TopBoxes[i].w = 2 * v /\ T!TopBoxes[j].x = 2 * b /\ T!TopBoxes[j].w = 2 * w
  BY <1>4
<1> HIDE DEF a, b, v, w
<1>7. 2 * a + 2 * v < 2 * b \/ 2 * b + 2 * w < 2 * a
  BY <1>5
<1>8. 2 * a # 2 * b
  BY <1>5
<1> QED  BY <1>6, <1>7, <1>8 DEF T!Apart, T!Right

-----------------------------------------------------------------------------
(* The plane. *)

Drawn(b, x, y, w) == b.x = x /\ b.y = y /\ b.w = w /\ b.h = 52

LEMMA BoxAt == ASSUME NEW x \in Int, NEW y \in Int, NEW w \in Int PROVE Box(x, y, w) \in Boxes /\ Drawn(Box(x, y, w), x, y, w)
  BY DEF Box, Boxes, Drawn

LEMMA Spots == ASSUME TopoLists, NEW nf \in T!PlaneRow
  PROVE  LET b == T!Plane[nf] IN
         /\ b \in Boxes
         /\ \/ nf = "AMF" /\ Drawn(b, 932, 260, 120)
            \/ nf = "SMF" /\ ~T!TwoSlice /\ Drawn(b, 1180, 260, 120)
            \/ nf = "UPF" /\ T!CoreTemplate = "basic" /\ Drawn(b, 1180, 420, 120)
            \/ nf = "I-UPF" /\ T!CoreTemplate = "ulcl" /\ Drawn(b, 1180, 420, 120)
            \/ nf = "PSA-UPF" /\ T!CoreTemplate = "ulcl" /\ Drawn(b, 1420, 420, 144)
            \/ nf = "SMF1" /\ T!TwoSlice /\ Drawn(b, 1180, 260, 120)
            \/ nf = "SMF2" /\ T!TwoSlice /\ Drawn(b, 1400, 260, 120)
            \/ nf = "I-UPF-1" /\ T!TwoSlice /\ Drawn(b, 1171, 392, 138)
            \/ nf = "I-UPF-2" /\ T!TwoSlice /\ Drawn(b, 1391, 500, 138)
            \/ nf = "PSA-UPF-1" /\ T!TwoSlice /\ Drawn(b, 1520, 392, 162)
            \/ nf = "PSA-UPF-2" /\ T!TwoSlice /\ Drawn(b, 1700, 500, 162)
<1> DEFINE b == T!Plane[nf]
<1>1. /\ nf = "AMF" => b = Box(932, 260, 120)
      /\ nf \in {"SMF", "SMF1"} => b = Box(1180, 260, 120)
      /\ nf = "SMF2" => b = Box(1400, 260, 120)
      /\ nf \in {"UPF", "I-UPF"} => b = Box(1180, 420, 120)
      /\ nf = "PSA-UPF" => b = Box(1420, 420, 144)
      /\ nf = "I-UPF-1" => b = Box(1171, 392, 138)
      /\ nf = "I-UPF-2" => b = Box(1391, 500, 138)
      /\ nf = "PSA-UPF-1" => b = Box(1520, 392, 162)
      /\ nf = "PSA-UPF-2" => b = Box(1700, 500, 162)
  BY PlaneIs
<1> HIDE DEF b
<1>2. T!CoreTemplate \in Cores
  BY CoreIs
<1>3. \/ nf = "AMF"
      \/ nf = "SMF" /\ ~T!TwoSlice
      \/ nf = "UPF" /\ T!CoreTemplate = "basic"
      \/ nf = "I-UPF" /\ T!CoreTemplate = "ulcl"
      \/ nf = "PSA-UPF" /\ T!CoreTemplate = "ulcl"
      \/ nf \in {"SMF1", "SMF2", "I-UPF-1", "I-UPF-2", "PSA-UPF-1", "PSA-UPF-2"} /\ T!TwoSlice
  <2>1. CASE T!CoreTemplate = "basic"
    <3>1. T!PlaneRow = {"AMF", "SMF", "UPF"} /\ ~T!TwoSlice
      BY <2>1 DEF T!PlaneRow, T!TwoSlice
    <3> QED  BY <2>1, <3>1
  <2>2. CASE T!CoreTemplate = "ulcl"
    <3>1. T!PlaneRow = {"AMF", "SMF", "I-UPF", "PSA-UPF"} /\ ~T!TwoSlice
      BY <2>2 DEF T!PlaneRow, T!TwoSlice
    <3> QED  BY <2>2, <3>1
  <2>3. CASE T!CoreTemplate = "ulcl-2slice"
    <3>1. T!PlaneRow = {"AMF", "SMF1", "I-UPF-1", "PSA-UPF-1", "SMF2", "I-UPF-2", "PSA-UPF-2"} /\ T!TwoSlice
      BY <2>3 DEF T!PlaneRow, T!TwoSlice
    <3> QED  BY <3>1
  <2> QED  BY <1>2, <2>1, <2>2, <2>3 DEF Cores
<1>4. CASE nf = "AMF"
  <2>1. b = Box(932, 260, 120)
    BY <1>1, <1>4
  <2> QED  BY <1>4, <2>1, BoxAt DEF b
<1>5. CASE nf = "SMF" /\ ~T!TwoSlice
  <2>1. b = Box(1180, 260, 120)
    BY <1>1, <1>5
  <2> QED  BY <1>5, <2>1, BoxAt DEF b
<1>6. CASE nf = "UPF" /\ T!CoreTemplate = "basic"
  <2>1. b = Box(1180, 420, 120)
    BY <1>1, <1>6
  <2> QED  BY <1>6, <2>1, BoxAt DEF b
<1>7. CASE nf = "I-UPF" /\ T!CoreTemplate = "ulcl"
  <2>1. b = Box(1180, 420, 120)
    BY <1>1, <1>7
  <2> QED  BY <1>7, <2>1, BoxAt DEF b
<1>8. CASE nf = "PSA-UPF" /\ T!CoreTemplate = "ulcl"
  <2>1. b = Box(1420, 420, 144)
    BY <1>1, <1>8
  <2> QED  BY <1>8, <2>1, BoxAt DEF b
<1>9. CASE nf = "SMF1" /\ T!TwoSlice
  <2>1. b = Box(1180, 260, 120)
    BY <1>1, <1>9
  <2> QED  BY <1>9, <2>1, BoxAt DEF b
<1>10. CASE nf = "SMF2" /\ T!TwoSlice
  <2>1. b = Box(1400, 260, 120)
    BY <1>1, <1>10
  <2> QED  BY <1>10, <2>1, BoxAt DEF b
<1>11. CASE nf = "I-UPF-1" /\ T!TwoSlice
  <2>1. b = Box(1171, 392, 138)
    BY <1>1, <1>11
  <2> QED  BY <1>11, <2>1, BoxAt DEF b
<1>12. CASE nf = "I-UPF-2" /\ T!TwoSlice
  <2>1. b = Box(1391, 500, 138)
    BY <1>1, <1>12
  <2> QED  BY <1>12, <2>1, BoxAt DEF b
<1>13. CASE nf = "PSA-UPF-1" /\ T!TwoSlice
  <2>1. b = Box(1520, 392, 162)
    BY <1>1, <1>13
  <2> QED  BY <1>13, <2>1, BoxAt DEF b
<1>14. CASE nf = "PSA-UPF-2" /\ T!TwoSlice
  <2>1. b = Box(1700, 500, 162)
    BY <1>1, <1>14
  <2> QED  BY <1>14, <2>1, BoxAt DEF b
<1> QED  BY <1>3, <1>4, <1>5, <1>6, <1>7, <1>8, <1>9, <1>10, <1>11, <1>12, <1>13, <1>14

LEMMA PlaneApart == ASSUME TopoLists, NEW p \in T!PlaneRow, NEW q \in T!PlaneRow, p # q
  PROVE  T!Apart(T!Plane[p], T!Plane[q]) /\ T!Plane[p] # T!Plane[q]
<1> DEFINE a == T!Plane[p]
           b == T!Plane[q]
<1>1. \/ p = "AMF" /\ Drawn(a, 932, 260, 120)
      \/ p = "SMF" /\ ~T!TwoSlice /\ Drawn(a, 1180, 260, 120)
      \/ p = "UPF" /\ T!CoreTemplate = "basic" /\ Drawn(a, 1180, 420, 120)
      \/ p = "I-UPF" /\ T!CoreTemplate = "ulcl" /\ Drawn(a, 1180, 420, 120)
      \/ p = "PSA-UPF" /\ T!CoreTemplate = "ulcl" /\ Drawn(a, 1420, 420, 144)
      \/ p = "SMF1" /\ T!TwoSlice /\ Drawn(a, 1180, 260, 120)
      \/ p = "SMF2" /\ T!TwoSlice /\ Drawn(a, 1400, 260, 120)
      \/ p = "I-UPF-1" /\ T!TwoSlice /\ Drawn(a, 1171, 392, 138)
      \/ p = "I-UPF-2" /\ T!TwoSlice /\ Drawn(a, 1391, 500, 138)
      \/ p = "PSA-UPF-1" /\ T!TwoSlice /\ Drawn(a, 1520, 392, 162)
      \/ p = "PSA-UPF-2" /\ T!TwoSlice /\ Drawn(a, 1700, 500, 162)
  BY Spots
<1>2. \/ q = "AMF" /\ Drawn(b, 932, 260, 120)
      \/ q = "SMF" /\ ~T!TwoSlice /\ Drawn(b, 1180, 260, 120)
      \/ q = "UPF" /\ T!CoreTemplate = "basic" /\ Drawn(b, 1180, 420, 120)
      \/ q = "I-UPF" /\ T!CoreTemplate = "ulcl" /\ Drawn(b, 1180, 420, 120)
      \/ q = "PSA-UPF" /\ T!CoreTemplate = "ulcl" /\ Drawn(b, 1420, 420, 144)
      \/ q = "SMF1" /\ T!TwoSlice /\ Drawn(b, 1180, 260, 120)
      \/ q = "SMF2" /\ T!TwoSlice /\ Drawn(b, 1400, 260, 120)
      \/ q = "I-UPF-1" /\ T!TwoSlice /\ Drawn(b, 1171, 392, 138)
      \/ q = "I-UPF-2" /\ T!TwoSlice /\ Drawn(b, 1391, 500, 138)
      \/ q = "PSA-UPF-1" /\ T!TwoSlice /\ Drawn(b, 1520, 392, 162)
      \/ q = "PSA-UPF-2" /\ T!TwoSlice /\ Drawn(b, 1700, 500, 162)
  BY Spots
<1>3. T!TwoSlice <=> T!CoreTemplate = "ulcl-2slice"
  BY DEF T!TwoSlice
<1> HIDE DEF a, b
<1>4. \/ a.x + a.w < b.x \/ b.x + b.w < a.x \/ a.y + a.h < b.y \/ b.y + b.h < a.y
  BY <1>1, <1>2, <1>3 DEF Drawn
<1>5. a \in Boxes /\ b \in Boxes
  BY Spots DEF a, b
<1>6. a # b
  <2>1. /\ a.x = b.x => ~(a.x + a.w < b.x)
        /\ a.w \in Nat /\ a.h \in Nat /\ a.x \in Int /\ a.y \in Int
    BY <1>1, <1>5 DEF Drawn, Boxes
  <2> QED  BY <1>4, <2>1
<1> QED  BY <1>4, <1>6 DEF T!Apart, T!Right, T!Bottom, a, b

LEMMA TopPlane == ASSUME TopoLists, NEW i \in Bus, NEW p \in T!PlaneRow
  PROVE  /\ T!Apart(T!TopBoxes[i], T!Plane[p]) /\ T!Apart(T!Plane[p], T!TopBoxes[i])
         /\ T!TopBoxes[i] # T!Plane[p]
<1>1. T!TopBoxes[i].y = 112 /\ T!TopBoxes[i].h = 52
  BY TopIs
<1>2. T!Plane[p] \in Boxes /\ T!Plane[p].y \in {260, 420, 392, 500}
  BY Spots DEF Drawn
<1>3. 112 + 52 < T!Plane[p].y /\ T!Plane[p].y # 112
  BY <1>2
<1> QED  BY <1>1, <1>3 DEF T!Apart, T!Bottom

\* Where the core's frame ends, and what hangs on it.
LEMMA FrameIs == ASSUME TopoLists
  PROVE  /\ T!CoreRight \in Int
         /\ (IF T!TwoSlice THEN 1894 ELSE 1740) <= T!CoreRight
         /\ \A i \in Bus : T!TopBoxes[i].x + T!TopBoxes[i].w <= T!CoreRight
<1> DEFINE n == Len(T!TopRow)
           base == IF T!TwoSlice THEN T!Right(T!Plane["PSA-UPF-2"]) + 32 ELSE 2 * 870
           last == T!Right(T!TopBoxes[n]) + 40
<1>1. n \in Nat /\ n >= 7 /\ Bus = 1 .. n
  BY BusNames, BusFits
<1>2. base = IF T!TwoSlice THEN 1894 ELSE 1740
  <2>1. CASE T!TwoSlice
    <3>1. "PSA-UPF-2" \in T!PlaneRow
      BY <2>1 DEF T!PlaneRow, T!TwoSlice
    <3>2. Drawn(T!Plane["PSA-UPF-2"], 1700, 500, 162)
      BY <3>1, Spots
    <3>3. T!Right(T!Plane["PSA-UPF-2"]) = 1862
      BY <3>2 DEF Drawn, T!Right
    <3> QED  BY <2>1, <3>3
  <2>2. CASE ~T!TwoSlice
    BY <2>2
  <2> QED  BY <2>1, <2>2
<1>3. T!TopBoxes[n] \in Boxes /\ n \in Bus
  <2>1. n \in Bus
    BY <1>1
  <2> QED  BY <2>1, TopIs
<1>4. last \in Int /\ T!TopBoxes[n].x + T!TopBoxes[n].w = last - 40
  <2>1. T!TopBoxes[n].x \in Int /\ T!TopBoxes[n].w \in Int
    BY <1>3 DEF Boxes
  <2> HIDE DEF n
  <2> QED  BY <2>1 DEF T!Right
<1>5. Len(T!TopBoxes) = n
  <2>1. DOMAIN T!TopBoxes = 1 .. n
    BY <1>1, BusFits
  <2>2. T!TopBoxes = [i \in 1 .. n |-> T!TopBoxes[i]]
    BY <1>1 DEF T!TopBoxes, Bus
  <2>3. \A i \in 1 .. n : T!TopBoxes[i] \in Boxes
    BY <1>1, TopIs
  <2> DEFINE f == T!TopBoxes
  <2>4. f \in [1 .. n -> Boxes]
    BY <2>2, <2>3
  <2> HIDE DEF n, f
  <2>5. Len(f) = n
    BY <1>1, <2>4
  <2> QED  BY <2>5 DEF f
<1>6. T!CoreRight = T!Max({base, last})
  BY <1>5 DEF T!CoreRight
<1> HIDE DEF base, last, n
<1>7. base \in Int
  BY <1>2
<1>8. T!CoreRight \in Int /\ base <= T!CoreRight /\ last <= T!CoreRight
  BY <1>4, <1>6, <1>7, MaxOfTwo
<1>9. ASSUME NEW i \in Bus PROVE T!TopBoxes[i].x + T!TopBoxes[i].w <= T!CoreRight
  <2> DEFINE a == T!TopBoxes[i]
             b == T!TopBoxes[n]
  <2>1. a \in Boxes /\ b \in Boxes /\ 96 <= b.w
    BY <1>3, TopIs
  <2>2. CASE i = n
    <3>1. a = b
      BY <2>2
    <3> HIDE DEF a, b
    <3>2. a.x + a.w <= T!CoreRight
      BY <1>4, <1>8, <3>1 DEF b
    <3> QED  BY <3>2 DEF a
  <2>3. CASE i # n
    <3>1. i < n /\ i \in Nat
      BY <1>1, <2>3
    <3>2. T!TopX(i) + WidthAt(i) + 8 <= T!TopX(n)
      BY <1>3, <3>1, BusApart
    <3>3. /\ a.x = 2 * T!TopX(i) /\ a.w = 2 * WidthAt(i) /\ b.x = 2 * T!TopX(n)
          /\ T!TopX(i) \in Int /\ WidthAt(i) \in Nat /\ T!TopX(n) \in Int
      BY <1>3, TopIs, BusGoesOn, BusFits
    <3>4. b.x \in Int /\ b.w \in Int /\ b.x + b.w = last - 40
      BY <1>4, <2>1 DEF Boxes
    <3> HIDE DEF a, b
    <3>5. a.x + a.w <= b.x
      BY <3>2, <3>3
    <3>6. a.x \in Int /\ a.w \in Int
      BY <3>3
    <3>7. a.x + a.w <= T!CoreRight
      BY <1>4, <1>8, <2>1, <3>4, <3>5, <3>6
    <3> QED  BY <3>7 DEF a
  <2> QED  BY <2>2, <2>3
<1> QED  BY <1>2, <1>8, <1>9

LEMMA LanesAre == ASSUME TopoLists
  PROVE  /\ ~T!TwoSlice => \E f \in {"UPF", "I-UPF"}, l \in {"UPF", "PSA-UPF"} :
                              /\ T!Lanes = {<<f, l>>} /\ Drawn(T!Plane[f], 1180, 420, 120)
                              /\ T!Plane[l].y = 420 /\ T!Plane[l].h = 52 /\ T!FirstUpfs = {T!Plane[f]}
         /\ T!TwoSlice => /\ T!Lanes = {<<"I-UPF-1", "PSA-UPF-1">>, <<"I-UPF-2", "PSA-UPF-2">>}
                          /\ T!FirstUpfs = {T!Plane["I-UPF-1"], T!Plane["I-UPF-2"]}
                          /\ Drawn(T!Plane["I-UPF-1"], 1171, 392, 138) /\ Drawn(T!Plane["I-UPF-2"], 1391, 500, 138)
                          /\ Drawn(T!Plane["PSA-UPF-1"], 1520, 392, 162) /\ Drawn(T!Plane["PSA-UPF-2"], 1700, 500, 162)
<1>1. T!CoreTemplate \in Cores
  BY CoreIs
<1>2. CASE T!CoreTemplate = "basic"
  <2>1. "UPF" \in T!PlaneRow /\ ~T!TwoSlice
    BY <1>2 DEF T!PlaneRow, T!TwoSlice
  <2>2. Drawn(T!Plane["UPF"], 1180, 420, 120)
    BY <2>1, Spots
  <2>3. T!Lanes = {<<"UPF", "UPF">>}
    BY <1>2 DEF T!Lanes
  <2>4. T!FirstUpfs = {T!Plane["UPF"]}
    BY <2>3 DEF T!FirstUpfs
  <2> QED  BY <2>1, <2>2, <2>3, <2>4 DEF Drawn
<1>3. CASE T!CoreTemplate = "ulcl"
  <2>1. "I-UPF" \in T!PlaneRow /\ "PSA-UPF" \in T!PlaneRow /\ ~T!TwoSlice
    BY <1>3 DEF T!PlaneRow, T!TwoSlice
  <2>2. Drawn(T!Plane["I-UPF"], 1180, 420, 120) /\ Drawn(T!Plane["PSA-UPF"], 1420, 420, 144)
    BY <2>1, Spots
  <2>3. T!Lanes = {<<"I-UPF", "PSA-UPF">>}
    BY <1>3 DEF T!Lanes
  <2>4. T!FirstUpfs = {T!Plane["I-UPF"]}
    BY <2>3 DEF T!FirstUpfs
  <2> QED  BY <2>1, <2>2, <2>3, <2>4 DEF Drawn
<1>4. CASE T!CoreTemplate = "ulcl-2slice"
  <2>1. /\ "I-UPF-1" \in T!PlaneRow /\ "PSA-UPF-1" \in T!PlaneRow /\ "I-UPF-2" \in T!PlaneRow
        /\ "PSA-UPF-2" \in T!PlaneRow /\ T!TwoSlice
    BY <1>4 DEF T!PlaneRow, T!TwoSlice
  <2>2. Drawn(T!Plane["I-UPF-1"], 1171, 392, 138) /\ Drawn(T!Plane["I-UPF-2"], 1391, 500, 138)
    BY <2>1, Spots
  <2>5. Drawn(T!Plane["PSA-UPF-1"], 1520, 392, 162) /\ Drawn(T!Plane["PSA-UPF-2"], 1700, 500, 162)
    BY <2>1, Spots
  <2>3. T!Lanes = {<<"I-UPF-1", "PSA-UPF-1">>, <<"I-UPF-2", "PSA-UPF-2">>}
    BY <1>4 DEF T!Lanes
  <2>4. T!FirstUpfs = {T!Plane["I-UPF-1"], T!Plane["I-UPF-2"]}
    BY <2>3 DEF T!FirstUpfs
  <2> QED  BY <2>1, <2>2, <2>3, <2>4, <2>5
<1> QED  BY <1>1, <1>2, <1>3, <1>4 DEF Cores

\* The gNB, the core's frame and the data network beside it.
LEMMA SidesAre == ASSUME TopoLists
  PROVE  /\ T!Dn.x = T!CoreRight + 50 /\ T!Dn.w = 100
         /\ T!Dn.y = (IF T!TwoSlice THEN 392 ELSE 420) /\ T!Dn.h = (IF T!TwoSlice THEN 160 ELSE 52)
         /\ T!GnbBox.x = 480 /\ T!GnbBox.y = 256 /\ T!GnbBox.w = 280
         /\ T!GnbBox.h = (IF T!TwoSlice THEN 296 ELSE 216)
         /\ T!UeBox.x = 40 /\ T!UeBox.y = 300 /\ T!UeBox.w = 280 /\ T!UeBox.h = 168
         /\ T!CoreBox.x = 900 /\ T!CoreBox.y = 40 /\ T!CoreBox.w = T!CoreRight - 900
         /\ T!CoreBox.h = (IF T!TwoSlice THEN 540 ELSE 480)
         /\ T!ViewBox.x = 0 /\ T!ViewBox.y = 0 /\ T!ViewBox.w = T!CoreRight + 180
         /\ T!ViewBox.h = (IF T!TwoSlice THEN 612 ELSE 552)
<1> DEFINE top == T!Min({b.y : b \in T!FirstUpfs})
           low == T!Max({T!Bottom(b) : b \in T!FirstUpfs})
<1>1. T!CoreRight \in Int
  BY FrameIs
<1>2. top = (IF T!TwoSlice THEN 392 ELSE 420) /\ low = (IF T!TwoSlice THEN 552 ELSE 472)
  <2>1. CASE ~T!TwoSlice
    <3>1. PICK f : T!FirstUpfs = {T!Plane[f]} /\ Drawn(T!Plane[f], 1180, 420, 120)
      BY <2>1, LanesAre
    <3>2. {b.y : b \in T!FirstUpfs} = {420} /\ {T!Bottom(b) : b \in T!FirstUpfs} = {472}
      <4>1. T!Plane[f].y = 420 /\ T!Bottom(T!Plane[f]) = 472
        BY <3>1 DEF Drawn, T!Bottom
      <4> QED  BY <3>1, <4>1
    <3>3. T!Min({420}) = 420 /\ T!Max({472}) = 472
      BY MaxOfOne
    <3> QED  BY <2>1, <3>2, <3>3
  <2>2. CASE T!TwoSlice
    <3> DEFINE p == T!Plane["I-UPF-1"]
               q == T!Plane["I-UPF-2"]
    <3>1. T!FirstUpfs = {p, q} /\ Drawn(p, 1171, 392, 138) /\ Drawn(q, 1391, 500, 138)
      BY <2>2, LanesAre
    <3> HIDE DEF p, q
    <3>2. p.y = 392 /\ q.y = 500 /\ T!Bottom(p) = 444 /\ T!Bottom(q) = 552
      BY <3>1 DEF Drawn, T!Bottom
    <3>3. {b.y : b \in T!FirstUpfs} = {392, 500} /\ {T!Bottom(b) : b \in T!FirstUpfs} = {444, 552}
      BY <3>1, <3>2
    <3>4. T!Min({392, 500}) = 392 /\ T!Max({444, 552}) = 552
      BY MinOfTwo, MaxOfOrder
    <3> QED  BY <2>2, <3>3, <3>4
  <2> QED  BY <2>1, <2>2
<1>3. T!Dn = [x |-> T!CoreRight + 50, y |-> top, w |-> 100, h |-> low - top]
  BY DEF T!Dn
<1>4. T!GnbBox = T!BoxAt(240, 128, 140, IF T!TwoSlice THEN low \div 2 - 128 ELSE 108)
  BY DEF T!GnbBox
<1> HIDE DEF top, low
<1>5. T!Dn.x = T!CoreRight + 50 /\ T!Dn.w = 100 /\ T!Dn.y = (IF T!TwoSlice THEN 392 ELSE 420)
      /\ T!Dn.h = (IF T!TwoSlice THEN 160 ELSE 52)
  BY <1>2, <1>3
<1>6. (IF T!TwoSlice THEN low \div 2 - 128 ELSE 108) = (IF T!TwoSlice THEN 148 ELSE 108)
  BY <1>2
<1>7. T!GnbBox.x = 480 /\ T!GnbBox.y = 256 /\ T!GnbBox.w = 280 /\ T!GnbBox.h = (IF T!TwoSlice THEN 296 ELSE 216)
  <2>1. T!GnbBox = T!BoxAt(240, 128, 140, IF T!TwoSlice THEN 148 ELSE 108)
    BY <1>4, <1>6
  <2> QED  BY <2>1 DEF T!BoxAt
<1>8. T!UeBox.x = 40 /\ T!UeBox.y = 300 /\ T!UeBox.w = 280 /\ T!UeBox.h = 168
  BY DEF T!UeBox, T!BoxAt
<1>9. T!CoreBox.x = 900 /\ T!CoreBox.y = 40 /\ T!CoreBox.w = T!CoreRight - 900
      /\ T!CoreBox.h = (IF T!TwoSlice THEN 540 ELSE 480)
  BY <1>1 DEF T!CoreBox, T!CoreX, T!CoreY
<1>10. T!Right(T!Dn) = T!CoreRight + 150 /\ T!Bottom(T!CoreBox) = (IF T!TwoSlice THEN 580 ELSE 520)
  BY <1>1, <1>5, <1>9 DEF T!Right, T!Bottom
<1>11. T!ViewBox.x = 0 /\ T!ViewBox.y = 0 /\ T!ViewBox.w = T!CoreRight + 180
       /\ T!ViewBox.h = (IF T!TwoSlice THEN 612 ELSE 552)
  BY <1>1, <1>10 DEF T!ViewBox
<1> QED  BY <1>5, <1>7, <1>8, <1>9, <1>11

-----------------------------------------------------------------------------
(* The parts of DrawnApart. *)

LEMMA BoxesAre == ASSUME TopoLists, NEW a \in T!NfBoxes
  PROVE  (\E i \in Bus : a = T!TopBoxes[i]) \/ (\E p \in T!PlaneRow : a = T!Plane[p])
<1>1. a \in T!Range(T!TopBoxes) \/ a \in T!Range(T!Plane)
  BY DEF T!NfBoxes
<1>2. DOMAIN T!TopBoxes = Bus /\ DOMAIN T!Plane = T!PlaneRow
  BY BusFits, PlaneIs
<1> QED  BY <1>1, <1>2 DEF T!Range

LEMMA NoneMeet == ASSUME TopoLists PROVE \A a, b \in T!NfBoxes : a = b \/ T!Apart(a, b)
<1> SUFFICES ASSUME NEW a \in T!NfBoxes, NEW b \in T!NfBoxes, a # b PROVE T!Apart(a, b)
  OBVIOUS
<1>1. ASSUME NEW i \in Bus, NEW j \in Bus, a = T!TopBoxes[i], b = T!TopBoxes[j] PROVE T!Apart(a, b)
  BY <1>1, TopsApart
<1>2. ASSUME NEW i \in Bus, NEW p \in T!PlaneRow, a = T!TopBoxes[i], b = T!Plane[p] PROVE T!Apart(a, b)
  BY <1>2, TopPlane
<1>3. ASSUME NEW i \in Bus, NEW p \in T!PlaneRow, b = T!TopBoxes[i], a = T!Plane[p] PROVE T!Apart(a, b)
  BY <1>3, TopPlane
<1>4. ASSUME NEW p \in T!PlaneRow, NEW q \in T!PlaneRow, a = T!Plane[p], b = T!Plane[q] PROVE T!Apart(a, b)
  BY <1>4, PlaneApart
<1>5. (\E i \in Bus : a = T!TopBoxes[i]) \/ (\E p \in T!PlaneRow : a = T!Plane[p])
  BY BoxesAre
<1>6. (\E i \in Bus : b = T!TopBoxes[i]) \/ (\E p \in T!PlaneRow : b = T!Plane[p])
  BY BoxesAre
<1> QED  BY <1>1, <1>2, <1>3, <1>4, <1>5, <1>6

LEMMA AllInFrame == ASSUME TopoLists PROVE \A a \in T!NfBoxes : T!Within(a, T!CoreBox)
<1> SUFFICES ASSUME NEW a \in T!NfBoxes PROVE T!Within(a, T!CoreBox)
  OBVIOUS
<1> DEFINE r == T!CoreRight
<1>1. /\ T!CoreBox.x = 900 /\ T!CoreBox.y = 40 /\ T!CoreBox.w = r - 900
      /\ T!CoreBox.h = (IF T!TwoSlice THEN 540 ELSE 480)
  BY SidesAre
<1>2. r \in Int /\ (IF T!TwoSlice THEN 1894 ELSE 1740) <= r
  BY FrameIs
<1>3. ASSUME NEW i \in Bus, a = T!TopBoxes[i] PROVE a \in Boxes /\ 900 <= a.x /\ a.x + a.w <= r /\ a.y = 112 /\ a.h = 52
  <2>1. T!TopBoxes[i] \in Boxes /\ 932 <= T!TopBoxes[i].x /\ T!TopBoxes[i].y = 112 /\ T!TopBoxes[i].h = 52
    BY TopIs
  <2>2. T!TopBoxes[i].x + T!TopBoxes[i].w <= r
    BY FrameIs
  <2>3. T!TopBoxes[i].x \in Int
    BY <2>1 DEF Boxes
  <2> QED  BY <1>3, <2>1, <2>2, <2>3
<1>4. ASSUME NEW p \in T!PlaneRow, a = T!Plane[p]
      PROVE  a \in Boxes /\ 900 <= a.x /\ a.x + a.w <= (IF T!TwoSlice THEN 1862 ELSE 1740) /\ 40 <= a.y /\ a.h = 52
             /\ a.y <= (IF T!TwoSlice THEN 500 ELSE 420)
  <2>1. T!CoreTemplate = "basic" \/ T!CoreTemplate = "ulcl" => ~T!TwoSlice
    BY DEF T!TwoSlice
  <2> DEFINE b == T!Plane[p]
  <2>2. /\ b \in Boxes
        /\ \/ Drawn(b, 932, 260, 120)
           \/ ~T!TwoSlice /\ Drawn(b, 1180, 260, 120)
           \/ ~T!TwoSlice /\ Drawn(b, 1180, 420, 120)
           \/ ~T!TwoSlice /\ Drawn(b, 1420, 420, 144)
           \/ T!TwoSlice /\ Drawn(b, 1180, 260, 120)
           \/ T!TwoSlice /\ Drawn(b, 1400, 260, 120)
           \/ T!TwoSlice /\ Drawn(b, 1171, 392, 138)
           \/ T!TwoSlice /\ Drawn(b, 1391, 500, 138)
           \/ T!TwoSlice /\ Drawn(b, 1520, 392, 162)
           \/ T!TwoSlice /\ Drawn(b, 1700, 500, 162)
    BY <2>1, Spots
  <2> HIDE DEF b
  <2>3. b \in Boxes /\ 900 <= b.x /\ b.x + b.w <= (IF T!TwoSlice THEN 1862 ELSE 1740) /\ 40 <= b.y /\ b.h = 52
        /\ b.y <= (IF T!TwoSlice THEN 500 ELSE 420)
    BY <2>2 DEF Drawn
  <2> QED  BY <1>4, <2>3 DEF b
<1>5. a \in Boxes /\ 900 <= a.x /\ a.x + a.w <= r /\ 40 <= a.y /\ a.y + a.h <= (IF T!TwoSlice THEN 580 ELSE 520)
  <2>1. (\E i \in Bus : a = T!TopBoxes[i]) \/ (\E p \in T!PlaneRow : a = T!Plane[p])
    BY BoxesAre
  <2>2. CASE \E i \in Bus : a = T!TopBoxes[i]
    BY <1>3, <2>2
  <2>3. CASE \E p \in T!PlaneRow : a = T!Plane[p]
    <3>1. a \in Boxes /\ 900 <= a.x /\ a.x + a.w <= (IF T!TwoSlice THEN 1862 ELSE 1740) /\ 40 <= a.y /\ a.h = 52
          /\ a.y <= (IF T!TwoSlice THEN 500 ELSE 420)
      BY <1>4, <2>3
    <3>2. a.x \in Int /\ a.w \in Int /\ a.y \in Int
      BY <3>1 DEF Boxes
    <3> HIDE DEF r
    <3> QED  BY <1>2, <3>1, <3>2
  <2> QED  BY <2>1, <2>2, <2>3
<1>6. a.x \in Int /\ a.w \in Int /\ a.y \in Int /\ a.h \in Int
  BY <1>5 DEF Boxes
<1> HIDE DEF r
<1> QED  BY <1>1, <1>2, <1>5, <1>6 DEF T!Within, T!Right, T!Bottom

LEMMA SidesFit == ASSUME TopoLists
  PROVE  /\ \A a \in {T!UeBox, T!GnbBox, T!Dn} : T!Within(a, T!ViewBox) /\ T!Apart(a, T!CoreBox)
         /\ T!Apart(T!UeBox, T!GnbBox)
<1> DEFINE r == T!CoreRight
           u == T!UeBox
           g == T!GnbBox
           d == T!Dn
           v == T!ViewBox
           c == T!CoreBox
<1>1. r \in Int /\ (IF T!TwoSlice THEN 1894 ELSE 1740) <= r
  BY FrameIs
<1>2. /\ d.x = r + 50 /\ d.w = 100
      /\ d.y = (IF T!TwoSlice THEN 392 ELSE 420) /\ d.h = (IF T!TwoSlice THEN 160 ELSE 52)
  BY SidesAre
<1>3. g.x = 480 /\ g.y = 256 /\ g.w = 280 /\ g.h = (IF T!TwoSlice THEN 296 ELSE 216)
  BY SidesAre
<1>4. u.x = 40 /\ u.y = 300 /\ u.w = 280 /\ u.h = 168
  BY SidesAre
<1>5. c.x = 900 /\ c.y = 40 /\ c.w = r - 900 /\ c.h = (IF T!TwoSlice THEN 540 ELSE 480)
  BY SidesAre
<1>6. v.x = 0 /\ v.y = 0 /\ v.w = r + 180 /\ v.h = (IF T!TwoSlice THEN 612 ELSE 552)
  BY SidesAre
<1> HIDE DEF r, u, g, d, v, c
<1>7. T!Within(u, v) /\ T!Apart(u, c)
  BY <1>1, <1>4, <1>5, <1>6 DEF T!Within, T!Apart, T!Right, T!Bottom
<1>8. T!Within(g, v) /\ T!Apart(g, c)
  BY <1>1, <1>3, <1>5, <1>6 DEF T!Within, T!Apart, T!Right, T!Bottom
<1>9. T!Within(d, v) /\ T!Apart(d, c)
  BY <1>1, <1>2, <1>5, <1>6 DEF T!Within, T!Apart, T!Right, T!Bottom
<1>10. T!Apart(u, g)
  BY <1>3, <1>4 DEF T!Apart, T!Right, T!Bottom
<1> QED  BY <1>7, <1>8, <1>9, <1>10 DEF u, g, d, v, c

\* A core that runs whole tells its template.
LEMMA WholeDrawn == ASSUME TopoLists
  PROVE  \A t \in T!Templates : T!Listed = NfsOf[t] => T!Listed \subseteq T!Drawn
<1> SUFFICES ASSUME NEW t \in T!Templates, T!Listed = NfsOf[t] PROVE T!Listed \subseteq T!Drawn
  OBVIOUS
<1>1. T!Range(T!TopRow) = T!Range(T!TopNfs) \cup (T!Listed \ T!PlaneNfs)
  BY BusNames
<1>2. T!Drawn = T!Range(T!TopRow) \cup T!PlaneRow
  BY PlaneIs DEF T!Drawn
<1>3. t \in {"basic", "ulcl", "ulcl-2slice"}
  BY CoresAre
<1>4. T!Listed \cap T!PlaneNfs \subseteq T!PlaneRow
  <2>1. CASE t = "basic"
    <3>1. T!Listed = {"NRF", "AUSF", "UDM", "UDR", "PCF", "NSSF", "CHF", "AMF", "DB", "WEBCONSOLE"} \cup {"SMF", "UPF"}
      BY <2>1 DEF NfsOf
    <3>2. T!CoreTemplate = "basic"
      BY <3>1 DEF T!CoreTemplate
    <3>3. T!PlaneRow = {"AMF", "SMF", "UPF"}
      BY <3>2 DEF T!PlaneRow
    <3> QED  BY <3>1, <3>3 DEF T!PlaneNfs
  <2>2. CASE t = "ulcl"
    <3>1. T!Listed = {"NRF", "AUSF", "UDM", "UDR", "PCF", "NSSF", "CHF", "AMF", "DB", "WEBCONSOLE"}
                       \cup {"SMF", "I-UPF", "PSA-UPF"}
      BY <2>2 DEF NfsOf
    <3>2. T!CoreTemplate = "ulcl"
      BY <3>1 DEF T!CoreTemplate
    <3>3. T!PlaneRow = {"AMF", "SMF", "I-UPF", "PSA-UPF"}
      BY <3>2 DEF T!PlaneRow
    <3> QED  BY <3>1, <3>3 DEF T!PlaneNfs
  <2>3. CASE t = "ulcl-2slice"
    <3>1. T!Listed = {"NRF", "AUSF", "UDM", "UDR", "PCF", "NSSF", "CHF", "AMF", "DB", "WEBCONSOLE"}
                       \cup {"SMF1", "SMF2", "I-UPF-1", "PSA-UPF-1", "I-UPF-2", "PSA-UPF-2"}
      BY <2>3 DEF NfsOf
    <3>2. T!CoreTemplate = "ulcl-2slice"
      BY <3>1 DEF T!CoreTemplate
    <3>3. T!PlaneRow = {"AMF", "SMF1", "I-UPF-1", "PSA-UPF-1", "SMF2", "I-UPF-2", "PSA-UPF-2"}
      BY <3>2 DEF T!PlaneRow
    <3> QED  BY <3>1, <3>3 DEF T!PlaneNfs
  <2> QED  BY <1>3, <2>1, <2>2, <2>3
<1> QED  BY <1>1, <1>2, <1>4

\* Each lane runs straight from the gNB to the data network.
LEMMA LanesMeet == ASSUME TopoLists
  PROVE  \A lane \in T!Lanes :
            LET mid == T!MidY(T!Plane[lane[1]])
            IN  /\ mid = T!MidY(T!Plane[lane[2]])
                /\ \A b \in {T!GnbBox, T!Dn} : b.y < mid /\ mid < T!Bottom(b)
<1> DEFINE g == T!GnbBox
           d == T!Dn
<1>1. g.y = 256 /\ g.h = (IF T!TwoSlice THEN 296 ELSE 216)
      /\ d.y = (IF T!TwoSlice THEN 392 ELSE 420) /\ d.h = (IF T!TwoSlice THEN 160 ELSE 52)
  BY SidesAre
<1>2. T!Bottom(g) = (IF T!TwoSlice THEN 552 ELSE 472) /\ T!Bottom(d) = (IF T!TwoSlice THEN 552 ELSE 472)
  <2> HIDE DEF g, d
  <2> QED  BY <1>1 DEF T!Bottom
<1>3. \A b : b.y = 420 /\ b.h = 52 => T!MidY(b) = 446
  BY DEF T!MidY
<1>4. \A b : b.h = 52 => (b.y = 392 => T!MidY(b) = 418) /\ (b.y = 500 => T!MidY(b) = 526)
  BY DEF T!MidY
<1> HIDE DEF g, d
<1>5. CASE ~T!TwoSlice
  <2>1. PICK f \in {"UPF", "I-UPF"}, l \in {"UPF", "PSA-UPF"} :
           /\ T!Lanes = {<<f, l>>} /\ Drawn(T!Plane[f], 1180, 420, 120) /\ T!Plane[l].y = 420 /\ T!Plane[l].h = 52
    BY <1>5, LanesAre
  <2>2. T!MidY(T!Plane[f]) = 446 /\ T!MidY(T!Plane[l]) = 446
    BY <1>3, <2>1 DEF Drawn
  <2>3. \A b \in {g, d} : b.y < 446 /\ 446 < T!Bottom(b)
    BY <1>1, <1>2, <1>5
  <2>4. \A lane \in T!Lanes : lane[1] = f /\ lane[2] = l
    BY <2>1
  <2> QED  BY <2>2, <2>3, <2>4 DEF g, d
<1>6. CASE T!TwoSlice
  <2>1. T!Lanes = {<<"I-UPF-1", "PSA-UPF-1">>, <<"I-UPF-2", "PSA-UPF-2">>}
    BY <1>6, LanesAre
  <2>2. Drawn(T!Plane["I-UPF-1"], 1171, 392, 138) /\ Drawn(T!Plane["I-UPF-2"], 1391, 500, 138)
        /\ Drawn(T!Plane["PSA-UPF-1"], 1520, 392, 162) /\ Drawn(T!Plane["PSA-UPF-2"], 1700, 500, 162)
    BY <1>6, LanesAre
  <2>3. T!MidY(T!Plane["I-UPF-1"]) = 418 /\ T!MidY(T!Plane["PSA-UPF-1"]) = 418
    BY <1>4, <2>2 DEF Drawn
  <2>4. T!MidY(T!Plane["I-UPF-2"]) = 526 /\ T!MidY(T!Plane["PSA-UPF-2"]) = 526
    BY <1>4, <2>2 DEF Drawn
  <2>5. \A b \in {g, d} : b.y < 418 /\ 418 < T!Bottom(b) /\ b.y < 526 /\ 526 < T!Bottom(b)
    BY <1>1, <1>2, <1>6
  <2>6. ASSUME NEW lane \in T!Lanes
        PROVE  \/ lane[1] = "I-UPF-1" /\ lane[2] = "PSA-UPF-1"
               \/ lane[1] = "I-UPF-2" /\ lane[2] = "PSA-UPF-2"
    BY <2>1
  <2> QED  BY <2>3, <2>4, <2>5, <2>6 DEF g, d
<1> QED  BY <1>5, <1>6

\* As many boxes as names: each name has its own.
LEMMA SizeOfImage ==
  ASSUME NEW D, NEW f, DOMAIN f = D, IsFiniteSet(D), \A x, y \in D : f[x] = f[y] => x = y
  PROVE  IsFiniteSet(T!Range(f)) /\ Cardinality(T!Range(f)) = Cardinality(D)
<1> DEFINE R0 == T!Range(f)
           g == [x \in D |-> f[x]]
<1>1. g \in [D -> R0] /\ (\A x, y \in D : g[x] = g[y] => x = y) /\ \A z \in R0 : \E x \in D : g[x] = z
  BY DEF T!Range
<1> HIDE DEF R0, g
<1>2. g \in Bijection(D, R0)
  BY <1>1, Fun_IsBij
<1>3. ExistsBijection(D, R0)
  BY <1>2 DEF ExistsBijection
<1> QED  BY <1>3, FS_Bijection DEF R0

LEMMA BoxEach == ASSUME TopoLists PROVE Cardinality(T!NfBoxes) = Cardinality(T!Drawn)
<1> DEFINE n == Len(T!TopRow)
<1>1. n \in Nat /\ Bus = 1 .. n /\ IsFiniteSet(Bus)
  <2>1. n \in Nat /\ Bus = 1 .. n
    BY BusNames, BusFits
  <2> QED  BY <2>1, FS_Interval
<1>2. IsFiniteSet(T!PlaneRow)
  <2>1. T!PlaneRow \subseteq AllNfs
    BY DEF T!PlaneRow, AllNfs
  <2> QED  BY <2>1, NfsFinite, FS_Subset
<1>3. IsFiniteSet(T!Range(T!TopRow)) /\ Cardinality(T!Range(T!TopRow)) = Cardinality(Bus)
  <2>1. \A i, j \in Bus : T!TopRow[i] = T!TopRow[j] => i = j
    BY BusNames
  <2>2. DOMAIN T!TopRow = Bus
    BY DEF Bus
  <2> QED  BY <1>1, <2>1, <2>2, SizeOfImage
<1>4. IsFiniteSet(T!Range(T!TopBoxes)) /\ Cardinality(T!Range(T!TopBoxes)) = Cardinality(Bus)
  <2>1. \A i, j \in Bus : T!TopBoxes[i] = T!TopBoxes[j] => i = j
    BY TopsApart
  <2>2. DOMAIN T!TopBoxes = Bus
    BY BusFits
  <2> QED  BY <1>1, <2>1, <2>2, SizeOfImage
<1>5. IsFiniteSet(T!Range(T!Plane)) /\ Cardinality(T!Range(T!Plane)) = Cardinality(T!PlaneRow)
  <2>1. \A p, q \in T!PlaneRow : T!Plane[p] = T!Plane[q] => p = q
    BY PlaneApart
  <2>2. DOMAIN T!Plane = T!PlaneRow
    BY PlaneIs
  <2> QED  BY <1>2, <2>1, <2>2, SizeOfImage
<1>6. T!Range(T!TopRow) \cap T!PlaneRow = {}
  <2>1. \A i \in Bus : T!TopRow[i] \notin T!PlaneNfs
    BY BusNames DEF Bus
  <2>2. T!PlaneRow \subseteq T!PlaneNfs
    BY DEF T!PlaneRow, T!PlaneNfs
  <2> QED  BY <2>1, <2>2 DEF T!Range, Bus
<1>7. T!Range(T!TopBoxes) \cap T!Range(T!Plane) = {}
  <2>1. DOMAIN T!TopBoxes = Bus /\ DOMAIN T!Plane = T!PlaneRow
    BY BusFits, PlaneIs
  <2>2. \A i \in Bus, p \in T!PlaneRow : T!TopBoxes[i] # T!Plane[p]
    BY TopPlane
  <2> QED  BY <2>1, <2>2 DEF T!Range
<1>8. T!Drawn = T!Range(T!TopRow) \cup T!PlaneRow /\ T!NfBoxes = T!Range(T!TopBoxes) \cup T!Range(T!Plane)
  BY PlaneIs DEF T!Drawn, T!NfBoxes
<1>9. Cardinality(T!Drawn) = Cardinality(T!Range(T!TopRow)) + Cardinality(T!PlaneRow)
  <2> DEFINE A == T!Range(T!TopRow)
             B == T!PlaneRow
  <2>1. IsFiniteSet(A) /\ IsFiniteSet(B) /\ A \cap B = {}
    BY <1>2, <1>3, <1>6
  <2> HIDE DEF A, B
  <2>2. Cardinality(A \cup B) = Cardinality(A) + Cardinality(B) - Cardinality(A \cap B)
    BY <2>1, FS_Union
  <2>3. Cardinality(A \cap B) = 0 /\ Cardinality(A) \in Nat /\ Cardinality(B) \in Nat
    BY <2>1, FS_EmptySet, FS_CardinalityType
  <2> QED  BY <1>8, <2>2, <2>3 DEF A, B
<1>10. Cardinality(T!NfBoxes) = Cardinality(T!Range(T!TopBoxes)) + Cardinality(T!Range(T!Plane))
  <2> DEFINE A == T!Range(T!TopBoxes)
             B == T!Range(T!Plane)
  <2>1. IsFiniteSet(A) /\ IsFiniteSet(B) /\ A \cap B = {}
    BY <1>4, <1>5, <1>7
  <2> HIDE DEF A, B
  <2>2. Cardinality(A \cup B) = Cardinality(A) + Cardinality(B) - Cardinality(A \cap B)
    BY <2>1, FS_Union
  <2>3. Cardinality(A \cap B) = 0 /\ Cardinality(A) \in Nat /\ Cardinality(B) \in Nat
    BY <2>1, FS_EmptySet, FS_CardinalityType
  <2> QED  BY <1>8, <2>2, <2>3 DEF A, B
<1> QED  BY <1>3, <1>4, <1>5, <1>9, <1>10

LEMMA DrawnOK == TopoInv => T!DrawnApart
<1> SUFFICES ASSUME TopoInv PROVE T!DrawnApart
  OBVIOUS
<1>1. TopoLists
  BY TopoParts
<1>2. T!Cardinality(T!NfBoxes) = T!Cardinality(T!Drawn)
  BY <1>1, BoxEach, TopoSame
<1>3. /\ \A a, b \in T!NfBoxes : a = b \/ T!Apart(a, b)
      /\ \A a \in T!NfBoxes : T!Within(a, T!CoreBox)
  BY <1>1, NoneMeet, AllInFrame
<1>4. /\ \A a \in {T!UeBox, T!GnbBox, T!Dn} : T!Within(a, T!ViewBox) /\ T!Apart(a, T!CoreBox)
      /\ T!Apart(T!UeBox, T!GnbBox)
  BY <1>1, SidesFit
<1>5. \A t \in T!Templates : T!Listed = NfsOf[t] => T!Listed \subseteq T!Drawn
  BY <1>1, WholeDrawn
<1>6. \A lane \in T!Lanes :
         LET mid == T!MidY(T!Plane[lane[1]])
         IN  /\ mid = T!MidY(T!Plane[lane[2]])
             /\ \A b \in {T!GnbBox, T!Dn} : b.y < mid /\ mid < T!Bottom(b)
  BY <1>1, LanesMeet
<1> QED  BY <1>2, <1>3, <1>4, <1>5, <1>6 DEF T!DrawnApart

-----------------------------------------------------------------------------
(* What is drawn: the invariants of the pages that draw something. *)

DrawnInv ==
    /\ SetsInv
    /\ On("topology", TopoInv)
    /\ On("charts", ChartInv)
    /\ On("figures", FigInv)

LEMMA DrawnInit == Init => DrawnInv
<1> SUFFICES ASSUME Init PROVE DrawnInv
  OBVIOUS
<1>1. SetsInv
  BY SetsInit
<1>2. ASSUME view = "topology" PROVE TopoInv
  BY <1>2, TopoInit DEF Init
<1>3. ASSUME view = "charts" PROVE ChartInv
  BY <1>3, ChartInit DEF Init
<1>4. ASSUME view = "figures" PROVE FigInv
  BY <1>4, FigInit DEF Init
<1> QED  BY <1>1, <1>2, <1>3, <1>4 DEF DrawnInv, On

LEMMA DrawnStay == DrawnInv /\ UNCHANGED vars => DrawnInv'
<1> SUFFICES ASSUME DrawnInv, UNCHANGED vars PROVE DrawnInv'
  OBVIOUS
<1>1. view' = view /\ UNCHANGED <<s1, s2, s3, s4, s5, s6, s7, s8, s9>>
  BY DEF vars
<1>2. SetsInv'
  BY SetsStay DEF DrawnInv
<1>3. TopoInv => TopoInv'
  BY <1>1, TopoStay
<1>4. ChartInv => ChartInv'
  BY <1>1 DEF ChartInv
<1>5. FigInv => FigInv'
  BY FigStay
<1> QED  BY <1>1, <1>2, <1>3, <1>4, <1>5 DEF DrawnInv, On

LEMMA DrawnStep == DrawnInv /\ Next => DrawnInv'
<1> SUFFICES ASSUME DrawnInv, Next PROVE DrawnInv'
  OBVIOUS
<1>1. view' = view
  BY DEF Next
<1>2. SetsInv'
  BY SetsStep DEF DrawnInv
<1>3. ASSUME view = "topology" PROVE TopoInv'
  BY <1>3, TopoStep DEF Next, DrawnInv, On
<1>4. ASSUME view = "charts" PROVE ChartInv'
  BY <1>4, ChartStep DEF Next, DrawnInv, On
<1>5. ASSUME view = "figures" PROVE FigInv'
  BY <1>5, FigStep DEF Next, DrawnInv, On
<1> QED  BY <1>1, <1>2, <1>3, <1>4, <1>5 DEF DrawnInv, On

LEMMA DrawnShow == DrawnInv => DrawnRight
<1> SUFFICES ASSUME DrawnInv PROVE DrawnRight
  OBVIOUS
<1>1. ASSUME view = "topology" PROVE T!TopoTypeOK /\ T!NotesAgree /\ T!TerminalSized /\ T!DrawnApart
  BY <1>1, NotesOK, DrawnOK DEF DrawnInv, TopoInv, On
<1>2. ASSUME view = "charts" PROVE K!AxesFit /\ K!StepIsWidth
  BY <1>2, AxesOK, StepOK DEF DrawnInv, On
<1>3. ASSUME view = "figures" PROVE G!FiguresFit
  BY <1>3, FigShows DEF DrawnInv, On
<1>4. ASSUME view = "messages" PROVE M!NoneLingers
  BY <1>4, MsgNoneLingers DEF DrawnInv, SetsInv, On
<1>5. ASSUME view = "logs" PROVE L!LogsTypeOK
  BY <1>5 DEF DrawnInv, SetsInv, On
<1> QED  BY <1>1, <1>2, <1>3, <1>4, <1>5 DEF DrawnRight, On

LEMMA DrawnAlways == Spec => []DrawnInv
<1>1. Init => DrawnInv
  BY DrawnInit
<1>2. DrawnInv /\ [Next]_vars => DrawnInv'
  BY DrawnStay, DrawnStep
<1> QED  BY <1>1, <1>2, PTL DEF Spec

\* Whatever core is installed and whatever is watched, clicked, resized, counted and timed:
\* no two boxes of the drawing meet, its notes are of the nodes it shows, an open terminal's
\* shell has the size of its window, a chart's axes cover its data without ticks on top of
\* each other, a run's figures add up although its counts are read at different moments,
\* and no message stays beyond its time (TopologySchematic.tsx, UeTerminalModal.tsx,
\* DashboardPage.tsx, TesterRunPage.tsx, useNotifications.ts).
THEOREM DrawnAlwaysRight == Spec => []DrawnRight
  BY DrawnAlways, DrawnShow, PTL

\* Whatever services run and whatever UEs are listed, no two boxes of the drawing meet, the
\* network functions lie in the core's frame, and each lane meets the gNB and the data
\* network (buildLayout in TopologySchematic.tsx).
THEOREM BoxesNeverMeet == Spec => []On("topology", T!DrawnApart)
<1>1. DrawnInv => On("topology", T!DrawnApart)
  BY DrawnOK DEF DrawnInv, On
<1> QED  BY <1>1, DrawnAlways, PTL

-----------------------------------------------------------------------------
(* The dashboard's actions.                                                *)

\* The button of a call's target or UE is taken.
Flagged(x) == IF x \in Targets THEN busy[x] ELSE busyUe[x]

\* Calls that Tear down has not asked for: one each, with its flag.
CallsApart ==
    /\ tearing = "no" /\ \A c \in calls : c.by # "tear"
    /\ \A c, d \in calls : c.on = d.on => c = d
    /\ \A c \in calls : Flagged(c.on)

ApartInv == ~tore => CallsApart

-----------------------------------------------------------------------------
(* The types.                                                              *)

LEMMA AskTypes ==
  ASSUME NEW by \in {"own", "all", "tear"}, NEW ts \in SUBSET Things, NEW what \in {"up", "down"}
  PROVE  /\ Ask(by, ts, what) \subseteq Calls
         /\ \A c \in Ask(by, ts, what) : c.by = by /\ c.on \in ts /\ c.what = what /\ c.step = "asked"
         /\ \A c, d \in Ask(by, ts, what) : c.on = d.on => c = d
  BY DEF Ask, Calls

LEMMA StepTypes ==
  ASSUME calls \subseteq Calls, NEW c \in calls,
         NEW s \in {"asked", "composing", "starting", "done", "failed"}, Step(c, s)
  PROVE  /\ calls' \subseteq Calls
         /\ \A d \in calls' : d \in calls \/ d = [c EXCEPT !.step = s]
         /\ [c EXCEPT !.step = s] \in Calls
         /\ [c EXCEPT !.step = s].on = c.on /\ [c EXCEPT !.step = s].by = c.by
         /\ calls' = (calls \ {c}) \cup {[c EXCEPT !.step = s]}
  BY DEF Step, Calls

LEMMA GoOnTypes ==
  ASSUME NEW step \in {"ues", "gnbs", "core", "no"}, NEW p \in SUBSET Targets, NEW cs \in SUBSET Calls,
         NEW b \in [Targets -> BOOLEAN], GoOn(step, p, cs, b)
  PROVE  calls' \subseteq Calls /\ busy' \in [Targets -> BOOLEAN] /\ tearing' \in {"no", "ues", "gnbs", "core"}
<1> DEFINE next == Follows(step, p)
           ts == IF next = "gnbs" THEN p \cap Gnbs ELSE IF next = "core" THEN {"core"} ELSE {}
<1>1. next \in {"no", "gnbs", "core"}
  BY DEF Follows
<1>2. ts \in SUBSET Targets
  BY DEF Targets
<1>3. tearing' = next /\ calls' = cs \cup Ask("tear", ts, "down") /\ busy' = [t \in Targets |-> t \in ts \/ b[t]]
  BY DEF GoOn
<1> HIDE DEF next, ts
<1>4. Ask("tear", ts, "down") \subseteq Calls
  BY <1>2, AskTypes DEF Things
<1>5. \A t \in Targets : b[t] \in BOOLEAN
  OBVIOUS
<1> QED  BY <1>1, <1>3, <1>4, <1>5

LEMMA StatusTypes ==
  ASSUME LabTypeOK, NEW t \in Targets
  PROVE  Status(t) \in [on : Targets, status : NodeStatus, nfs : Templates \cup {Nothing}]
  BY DEF Status, LabTypeOK

LEMMA InitTypes == LabInit => LabTypeOK
<1> SUFFICES ASSUME LabInit PROVE LabTypeOK
  OBVIOUS
<1>1. host \in [Targets -> NodeStatus]
  BY DEF LabInit, Labs, NodeStatus
<1>2. hostUe \in [UeIds -> UeStatus]
  <2>1. {"never"} \subseteq UeStatus /\ {"never", "running"} \subseteq UeStatus
    BY DEF UeStatus, NodeStatus
  <2> QED  BY <2>1 DEF LabInit
<1>3. hostTemplate \in Templates /\ nfs \in Templates \cup {Nothing}
  BY DEF LabInit, Status
<1>4. busy \in [Targets -> BOOLEAN] /\ busyUe \in [UeIds -> BOOLEAN]
  BY DEF LabInit
<1>5. labEvents \in 0 .. LabEvents
  BY LabOK DEF LabInit
<1> QED  BY <1>1, <1>2, <1>3, <1>4, <1>5 DEF LabInit, LabTypeOK

HostTypes == host \in [Targets -> NodeStatus] /\ hostTemplate \in Templates
             /\ hostUe \in [UeIds -> UeStatus] /\ subscribers \subseteq UeIds
CardTypes == /\ card \in [Targets -> NodeStatus] /\ nfs \in Templates \cup {Nothing}
             /\ rows \subseteq UeIds /\ ueCard \in [UeIds -> UeStatus]
FlagTypes == busy \in [Targets -> BOOLEAN] /\ busyUe \in [UeIds -> BOOLEAN] /\ calls \subseteq Calls
TearTypes == tearing \in {"no", "ues", "gnbs", "core"} /\ plan \subseteq Targets /\ tore \in BOOLEAN
LateTypes == late \subseteq [on : Targets, status : NodeStatus, nfs : Templates \cup {Nothing}]
                            \cup [on : {"ues"}, status : [UeIds -> UeStatus]]
RestTypes == LateTypes /\ template \in Templates /\ labEvents \in 0 .. LabEvents

LEMMA Parts == LabTypeOK <=> HostTypes /\ CardTypes /\ FlagTypes /\ TearTypes /\ RestTypes
  BY DEF LabTypeOK, HostTypes, CardTypes, FlagTypes, TearTypes, RestTypes, LateTypes

LEMMA EventTypes == labEvents \in 0 .. LabEvents /\ (Happens \/ UNCHANGED labEvents) => labEvents' \in 0 .. LabEvents
  BY LabOK DEF Happens

LEMMA HostSet ==
  ASSUME HostTypes, NEW x \in Things, NEW s \in NodeStatus, SetHost(x, s)
  PROVE  host' \in [Targets -> NodeStatus] /\ hostUe' \in [UeIds -> UeStatus]
<1>1. CASE x \in Targets
  BY <1>1 DEF SetHost, HostTypes
<1>2. CASE x \notin Targets
  BY <1>2 DEF SetHost, HostTypes, Things, UeStatus
<1> QED  BY <1>1, <1>2

\* The polls write cards only.
LEMMA PollingTypes == LabTypeOK /\ Polling => LabTypeOK' /\ UNCHANGED <<calls, busy, busyUe, tearVars>>
<1> SUFFICES ASSUME LabTypeOK, Polling PROVE LabTypeOK' /\ UNCHANGED <<calls, busy, busyUe, tearVars>>
  OBVIOUS
<1>1. ASSUME NEW t \in Targets, Poll(t) PROVE LabTypeOK' /\ UNCHANGED <<calls, busy, busyUe, tearVars>>
  BY <1>1, StatusTypes DEF Poll, ShowStatus, LabTypeOK, hostVars, tearVars
<1>2. ASSUME NEW a \in [on : Targets, status : NodeStatus, nfs : Templates \cup {Nothing}]
                       \cup [on : {"ues"}, status : [UeIds -> UeStatus]],
             PollLate(a)
      PROVE  LabTypeOK' /\ UNCHANGED <<calls, busy, busyUe, tearVars>>
  BY <1>2 DEF PollLate, LabTypeOK, hostVars, cardVars, tearVars
<1>3. [on |-> "ues", status |-> hostUe] \in [on : {"ues"}, status : [UeIds -> UeStatus]]
  BY DEF LabTypeOK
<1>4. CASE PollInstances
  BY <1>4 DEF PollInstances, LabTypeOK, hostVars, tearVars
<1>5. ASSUME NEW a \in late, LateAnswer(a) PROVE LabTypeOK' /\ UNCHANGED <<calls, busy, busyUe, tearVars>>
  <2>1. CASE a.on \in Targets
    <3>1. a \in [on : Targets, status : NodeStatus, nfs : Templates \cup {Nothing}]
      BY <2>1 DEF LabTypeOK, Targets, Gnbs
    <3> QED  BY <1>5, <2>1, <3>1 DEF LateAnswer, ShowStatus, LabTypeOK, hostVars, tearVars
  <2>2. CASE a.on \notin Targets
    <3>1. a \in [on : {"ues"}, status : [UeIds -> UeStatus]]
      BY <2>2 DEF LabTypeOK
    <3> QED  BY <1>5, <2>2, <3>1 DEF LateAnswer, LabTypeOK, hostVars, tearVars
  <2> QED  BY <2>1, <2>2
<1>6. CASE SubscribersRead
  BY <1>6 DEF SubscribersRead, LabTypeOK, hostVars, tearVars
<1> QED  BY <1>1, <1>2, <1>3, <1>4, <1>5, <1>6, StatusTypes DEF Polling

-----------------------------------------------------------------------------
(* What the user clicks.                                                   *)

\* New calls, on things that had none.
LEMMA AsksApart ==
  ASSUME FlagTypes, ApartInv, NEW by \in {"own", "all"}, NEW ts \in SUBSET Things, NEW what \in {"up", "down"},
         calls' = calls \cup Ask(by, ts, what), UNCHANGED <<tore, tearing>>,
         \A x \in ts : ~Flagged(x),
         \A x \in Things : (Flagged(x)' <=> x \in ts \/ Flagged(x))
  PROVE  ApartInv'
<1> SUFFICES ASSUME ~tore PROVE CallsApart'
  BY DEF ApartInv
<1>1. CallsApart
  BY DEF ApartInv
<1> DEFINE new == Ask(by, ts, what)
<1>2. /\ \A c \in new : c.by = by /\ c.on \in ts
      /\ \A c, d \in new : c.on = d.on => c = d
  BY AskTypes
<1>3. calls' = calls \cup new
  OBVIOUS
<1>4. \A c \in calls : c.on \in Things
  BY DEF FlagTypes, Calls
<1> HIDE DEF new
<1>5. \A c \in calls : \A d \in new : c.on # d.on
  BY <1>1, <1>2 DEF CallsApart
<1>6. \A c, d \in calls' : c.on = d.on => c = d
  BY <1>1, <1>2, <1>3, <1>5 DEF CallsApart
<1>7. \A c \in calls' : Flagged(c.on)'
  <2> SUFFICES ASSUME NEW c \in calls' PROVE Flagged(c.on)'
    OBVIOUS
  <2>1. CASE c \in calls
    BY <1>1, <1>4, <2>1 DEF CallsApart
  <2>2. CASE c \in new
    <3>1. c.on \in ts /\ c.on \in Things
      BY <1>2, <2>2
    <3> QED  BY <3>1
  <2> QED  BY <1>3, <2>1, <2>2
<1>8. tearing' = "no" /\ \A c \in calls' : c.by # "tear"
  BY <1>1, <1>2, <1>3 DEF CallsApart
<1> QED  BY <1>6, <1>7, <1>8 DEF CallsApart

\* A click on cards: free targets are asked for.
LEMMA ActApart ==
  ASSUME LabTypeOK, ApartInv, NEW ts \in SUBSET Targets, NEW what \in {"up", "down"}, Act(ts, what),
         UNCHANGED <<busyUe, tore, tearing>>, \A t \in ts : ~busy[t]
  PROVE  ApartInv' /\ FlagTypes'
<1>1. /\ calls' = calls \cup Ask("own", ts, what) /\ ts \in SUBSET Things
      /\ busy' = [t \in Targets |-> t \in ts \/ busy[t]]
  BY DEF Act, Things
<1>2. FlagTypes
  BY Parts
<1>3. \A x \in ts : ~Flagged(x)
  BY DEF Flagged
<1>4. \A x \in Things : (Flagged(x)' <=> x \in ts \/ Flagged(x))
  <2>1. \A x \in Targets : (busy'[x] <=> x \in ts \/ busy[x])
    BY <1>1
  <2> QED  BY <2>1, <1>2 DEF Flagged, Things
<1>5. Ask("own", ts, what) \subseteq Calls
  BY <1>1, AskTypes
<1>6. busy' \in [Targets -> BOOLEAN]
  BY <1>1, <1>2 DEF FlagTypes
<1>7. FlagTypes'
  BY <1>1, <1>2, <1>5, <1>6 DEF FlagTypes
<1> QED  BY <1>1, <1>2, <1>3, <1>4, <1>7, AsksApart

\* A click on rows.
LEMMA AskUesApart ==
  ASSUME LabTypeOK, ApartInv, NEW by \in {"own", "all"}, NEW us \in SUBSET UeIds, NEW what \in {"up", "down"},
         calls' = calls \cup Ask(by, us, what), UNCHANGED <<busy, tore, tearing>>,
         busyUe' \in [UeIds -> BOOLEAN],
         \A u \in us : ~busyUe[u], \A u \in UeIds : (busyUe'[u] <=> u \in us \/ busyUe[u])
  PROVE  ApartInv' /\ FlagTypes'
<1>1. us \in SUBSET Things /\ \A x \in us : x \notin Targets
  BY LabOK DEF Things
<1>2. FlagTypes
  BY Parts
<1>3. \A x \in us : ~Flagged(x)
  BY <1>1 DEF Flagged
<1>4. \A x \in Things : (Flagged(x)' <=> x \in us \/ Flagged(x))
  BY <1>1 DEF Flagged, Things
<1>5. Ask(by, us, what) \subseteq Calls
  BY <1>1, AskTypes
<1>6. FlagTypes'
  BY <1>2, <1>5 DEF FlagTypes
<1> QED  BY <1>1, <1>2, <1>3, <1>4, <1>6, AsksApart

LEMMA ClickingKeeps == LabTypeOK /\ ApartInv /\ Clicking => LabTypeOK' /\ ApartInv'
<1> SUFFICES ASSUME LabTypeOK, ApartInv, Clicking PROVE LabTypeOK' /\ ApartInv'
  OBVIOUS
<1>1. HostTypes /\ CardTypes /\ FlagTypes /\ TearTypes /\ RestTypes
  BY Parts
<1>2. UpRows \in SUBSET UeIds
  BY <1>1 DEF UpRows, CardTypes
<1>3. CASE PickTemplate
  <2>1. labEvents' \in 0 .. LabEvents
    BY <1>1, <1>3, EventTypes DEF PickTemplate, RestTypes
  <2>2. LabTypeOK'
    BY <1>1, <1>3, <2>1 DEF PickTemplate, LabTypeOK, hostVars, cardVars, tearVars
  <2>3. UNCHANGED <<calls, busy, busyUe, tore, tearing>>
    BY <1>3 DEF PickTemplate, tearVars
  <2>4. ApartInv'
    BY <2>3 DEF ApartInv, CallsApart, Flagged
  <2> QED  BY <2>2, <2>4
<1>4. ASSUME NEW t \in Targets, PrimaryAction(t) PROVE LabTypeOK' /\ ApartInv'
  <2>1. t \in {"core", "gnb"} /\ (t = "gnb" => ~TwoSlice) /\ ~ActionPending(t)
    BY <1>4 DEF PrimaryAction, CanAct
  <2>2. ~busy[t]
    BY <2>1 DEF ActionPending
  <2>3. PICK what \in {"up", "down"} : Act({t}, what)
    BY <1>4 DEF PrimaryAction
  <2>4. UNCHANGED <<hostVars, cardVars, late, busyUe, template, tearVars>> /\ Happens
    BY <1>4 DEF PrimaryAction
  <2>5. UNCHANGED <<busyUe, tore, tearing>>
    BY <2>4 DEF tearVars
  <2>6. ApartInv' /\ FlagTypes'
    BY <2>2, <2>3, <2>5, ActApart
  <2>7. HostTypes' /\ CardTypes' /\ TearTypes' /\ RestTypes'
    BY <1>1, <2>4, EventTypes DEF HostTypes, CardTypes, TearTypes, RestTypes, LateTypes, hostVars, cardVars, tearVars
  <2> QED  BY <2>6, <2>7, Parts, PTL
<1>5. CASE PrimaryActionBoth
  <2> DEFINE slices == {"slice1", "slice2"}
  <2>1. ~busy["slice1"] /\ ~busy["slice2"] /\ slices \in SUBSET Targets
    BY <1>5 DEF PrimaryActionBoth, CanAct, ActionPending, Targets, Gnbs
  <2>3. PICK what \in {"up", "down"} : Act(slices, what)
    BY <1>5 DEF PrimaryActionBoth
  <2>4. UNCHANGED <<hostVars, cardVars, late, busyUe, template, tearVars>> /\ Happens
    BY <1>5 DEF PrimaryActionBoth
  <2>5. UNCHANGED <<busyUe, tore, tearing>>
    BY <2>4 DEF tearVars
  <2>6. ApartInv' /\ FlagTypes'
    BY <2>1, <2>3, <2>5, ActApart
  <2>7. HostTypes' /\ CardTypes' /\ TearTypes' /\ RestTypes'
    BY <1>1, <2>4, EventTypes DEF HostTypes, CardTypes, TearTypes, RestTypes, LateTypes, hostVars, cardVars, tearVars
  <2> QED  BY <2>6, <2>7, Parts, PTL
<1>6. ASSUME NEW u \in UeIds, NEW what \in {"up", "down"}, ~busyUe[u], Happens,
             calls' = calls \cup Ask("own", {u}, what), busyUe' = [busyUe EXCEPT ![u] = TRUE],
             UNCHANGED <<hostVars, cardVars, late, busy, template, tearVars>>
      PROVE  LabTypeOK' /\ ApartInv'
  <2>1. UNCHANGED <<busy, tore, tearing>>
    BY <1>6 DEF tearVars
  <2>2. busyUe' \in [UeIds -> BOOLEAN] /\ \A v \in UeIds : (busyUe'[v] <=> v \in {u} \/ busyUe[v])
    BY <1>1, <1>6 DEF FlagTypes
  <2>3. ApartInv' /\ FlagTypes'
    BY <1>6, <2>1, <2>2, AskUesApart
  <2>4. HostTypes' /\ CardTypes' /\ TearTypes' /\ RestTypes'
    BY <1>1, <1>6, EventTypes DEF HostTypes, CardTypes, TearTypes, RestTypes, LateTypes, hostVars, cardVars, tearVars
  <2> QED  BY <2>3, <2>4, Parts, PTL
<1>7. ASSUME NEW u \in UeIds, DeployUe(u) \/ StopUe(u) PROVE LabTypeOK' /\ ApartInv'
  <2>1. ~busyUe[u]
    BY <1>7 DEF DeployUe, StopUe, UeButton
  <2> QED  BY <1>6, <1>7, <2>1 DEF DeployUe, StopUe
<1>8. CASE StopAll
  <2>1. \A u \in UpRows : ~busyUe[u]
    BY <1>8 DEF StopAll, AllFree
  <2>2. /\ calls' = calls \cup Ask("all", UpRows, "down")
        /\ busyUe' = [u \in UeIds |-> u \in UpRows \/ busyUe[u]]
        /\ UNCHANGED <<hostVars, cardVars, late, busy, template, tearVars>> /\ Happens
    BY <1>8 DEF StopAll, StopAllBy
  <2>3. UNCHANGED <<busy, tore, tearing>>
    BY <2>2 DEF tearVars
  <2>4. busyUe' \in [UeIds -> BOOLEAN] /\ \A v \in UeIds : (busyUe'[v] <=> v \in UpRows \/ busyUe[v])
    BY <1>1, <2>2 DEF FlagTypes
  <2>5. ApartInv' /\ FlagTypes'
    BY <1>2, <2>1, <2>2, <2>3, <2>4, AskUesApart
  <2>6. HostTypes' /\ CardTypes' /\ TearTypes' /\ RestTypes'
    BY <1>1, <2>2, EventTypes DEF HostTypes, CardTypes, TearTypes, RestTypes, LateTypes, hostVars, cardVars, tearVars
  <2> QED  BY <2>5, <2>6, Parts, PTL
<1>9. CASE TearDown
  <2>1. tore' = TRUE /\ plan' \subseteq Targets /\ Happens /\ UNCHANGED <<hostVars, cardVars, late, template>>
    BY <1>9 DEF TearDown
  <2>2. ApartInv'
    BY <2>1 DEF ApartInv
  <2>3. FlagTypes' /\ tearing' \in {"no", "ues", "gnbs", "core"}
    <3>1. CASE UpRows # {}
      <4>1. StopAllBy("tear") /\ tearing' = "ues" /\ UNCHANGED busy
        BY <1>9, <3>1 DEF TearDown
      <4>2. Ask("tear", UpRows, "down") \subseteq Calls
        BY <1>2, AskTypes DEF Things
      <4>3. busyUe' \in [UeIds -> BOOLEAN]
        BY <1>1, <4>1 DEF StopAllBy, FlagTypes
      <4> QED  BY <1>1, <4>1, <4>2, <4>3 DEF StopAllBy, FlagTypes
    <3>2. CASE UpRows = {}
      <4>1. GoOn("ues", plan', calls, busy) /\ UNCHANGED busyUe
        BY <1>9, <3>2 DEF TearDown
      <4>2. calls' \subseteq Calls /\ busy' \in [Targets -> BOOLEAN] /\ tearing' \in {"no", "ues", "gnbs", "core"}
        BY <1>1, <2>1, <4>1, GoOnTypes DEF FlagTypes
      <4> QED  BY <1>1, <4>1, <4>2 DEF FlagTypes
    <3> QED  BY <3>1, <3>2
  <2>4. HostTypes' /\ CardTypes' /\ TearTypes' /\ RestTypes'
    BY <1>1, <2>1, <2>3, EventTypes DEF HostTypes, CardTypes, TearTypes, RestTypes, LateTypes, hostVars, cardVars
  <2> QED  BY <2>2, <2>3, <2>4, Parts, PTL
<1> QED  BY <1>3, <1>4, <1>5, <1>7, <1>8, <1>9 DEF Clicking

-----------------------------------------------------------------------------
(* The calls under way, and their ends.                                    *)

\* A call that goes on keeps its thing and its flag.
LEMMA StepApart ==
  ASSUME FlagTypes, ApartInv, NEW c \in calls,
         NEW s \in {"asked", "composing", "starting", "done", "failed"}, Step(c, s),
         UNCHANGED <<busy, busyUe, tore, tearing>>
  PROVE  ApartInv' /\ FlagTypes'
<1> DEFINE k == [c EXCEPT !.step = s]
<1>1. /\ calls' \subseteq Calls /\ k.on = c.on /\ k.by = c.by
      /\ calls' = (calls \ {c}) \cup {k}
  BY StepTypes DEF FlagTypes
<1> HIDE DEF k
<1>2. ASSUME CallsApart PROVE CallsApart'
  <2>1. \A d, e \in calls' : d.on = e.on => d = e
    BY <1>1, <1>2 DEF CallsApart
  <2>2. \A d \in calls' : Flagged(d.on)' /\ d.by # "tear"
    BY <1>1, <1>2 DEF CallsApart, Flagged
  <2> QED  BY <1>2, <2>1, <2>2 DEF CallsApart
<1> QED  BY <1>1, <1>2 DEF ApartInv, FlagTypes

\* Calls that end take no flag back but their own.
LEMMA EndApart ==
  ASSUME ApartInv, NEW gone, calls' = calls \ gone, UNCHANGED <<tore, tearing>>,
         \A d \in calls : Flagged(d.on) /\ (\A c \in gone : c.on # d.on) => Flagged(d.on)',
         gone \subseteq calls
  PROVE  ApartInv'
<1> SUFFICES ASSUME ~tore PROVE CallsApart'
  BY DEF ApartInv
<1>1. CallsApart
  BY DEF ApartInv
<1>2. \A d \in calls' : \A c \in gone : c.on # d.on
  BY <1>1 DEF CallsApart
<1>3. \A d \in calls' : Flagged(d.on)'
  BY <1>1, <1>2 DEF CallsApart
<1> QED  BY <1>1, <1>3 DEF CallsApart

\* The backend at work on a call: only the host changes.
LEMMA HandledKeeps ==
  ASSUME LabTypeOK, ApartInv, NEW c \in calls, Checked(c) \/ Creates(c) \/ UpEnds(c) \/ DownEnds(c)
  PROVE  LabTypeOK' /\ ApartInv'
<1>1. HostTypes /\ CardTypes /\ FlagTypes /\ TearTypes /\ RestTypes
  BY Parts
<1>2. c.on \in Things
  BY <1>1 DEF FlagTypes, Calls
<1>3. \E s \in {"asked", "composing", "starting", "done", "failed"} : Step(c, s)
  BY DEF Checked, Creates, UpEnds, DownEnds
<1>4. UNCHANGED <<subscribers, cardVars, late, busy, busyUe, template, tearVars, labEvents>>
  BY DEF Checked, Creates, UpEnds, DownEnds, hostVars
<1>5. ApartInv' /\ FlagTypes'
  BY <1>1, <1>3, <1>4, StepApart DEF tearVars
<1>6. \A s \in {"deploying", "running", "stopped"} : SetHost(c.on, s)
            => host' \in [Targets -> NodeStatus] /\ hostUe' \in [UeIds -> UeStatus]
  BY <1>1, <1>2, HostSet DEF NodeStatus
<1>7. host' \in [Targets -> NodeStatus] /\ hostUe' \in [UeIds -> UeStatus]
  <2>1. \/ UNCHANGED <<host, hostUe>>
        \/ \E s \in {"deploying", "running", "stopped"} : SetHost(c.on, s)
    BY DEF Checked, Creates, UpEnds, DownEnds, hostVars
  <2> QED  BY <1>1, <1>6, <2>1 DEF HostTypes
<1>8. hostTemplate' \in Templates
  BY <1>1 DEF Checked, Creates, UpEnds, DownEnds, hostVars, HostTypes, RestTypes
<1>9. HostTypes' /\ CardTypes' /\ TearTypes' /\ RestTypes'
  BY <1>1, <1>4, <1>7, <1>8 DEF HostTypes, CardTypes, TearTypes, RestTypes, LateTypes, cardVars, tearVars
<1> QED  BY <1>5, <1>9, Parts, PTL

LEMMA TargetEndedKeeps ==
  ASSUME LabTypeOK, ApartInv, NEW c \in calls, TargetEnded(c)
  PROVE  LabTypeOK' /\ ApartInv'
<1>1. HostTypes /\ CardTypes /\ FlagTypes /\ TearTypes /\ RestTypes
  BY Parts
<1>2. c.on \in Targets /\ UNCHANGED <<hostVars, rows, ueCard, late, busyUe, template, plan, tore, labEvents>>
  BY DEF TargetEnded
<1> DEFINE left == calls \ {c}
<1>3. PICK ok \in BOOLEAN :
        /\ Refreshes(c, ok)
        /\ \/ c.by = "tear" /\ GoOn(tearing, plan, left, Freed(c.on, ok))
           \/ /\ calls' = left /\ busy' = Freed(c.on, ok)
              /\ tearing' = IF c.by = "tear" /\ ~ok THEN "no" ELSE tearing
  BY DEF TargetEnded
<1>4. Freed(c.on, ok) \in [Targets -> BOOLEAN]
  BY <1>1, <1>2 DEF Freed, FlagTypes
<1>5. CardTypes'
  BY <1>1, <1>2, <1>3, StatusTypes DEF Refreshes, CardTypes, HostTypes, Status
<1>6. HostTypes' /\ RestTypes'
  BY <1>1, <1>2 DEF HostTypes, RestTypes, LateTypes, hostVars
<1>7. CASE c.by = "tear" /\ GoOn(tearing, plan, left, Freed(c.on, ok))
  <2>1. tore
    BY <1>7 DEF ApartInv, CallsApart
  <2>2. ApartInv'
    BY <1>2, <2>1 DEF ApartInv
  <2>3. left \subseteq Calls
    BY <1>1 DEF FlagTypes
  <2>4. calls' \subseteq Calls /\ busy' \in [Targets -> BOOLEAN] /\ tearing' \in {"no", "ues", "gnbs", "core"}
    <3> HIDE DEF left
    <3> QED  BY <1>1, <1>4, <1>7, <2>3, GoOnTypes DEF TearTypes
  <2>5. FlagTypes' /\ TearTypes'
    BY <1>1, <1>2, <2>4 DEF FlagTypes, TearTypes
  <2> QED  BY <1>5, <1>6, <2>2, <2>5, Parts, PTL
<1>8. CASE /\ calls' = left /\ busy' = Freed(c.on, ok)
           /\ tearing' = IF c.by = "tear" /\ ~ok THEN "no" ELSE tearing
  <2>1. FlagTypes' /\ TearTypes'
    BY <1>1, <1>2, <1>4, <1>8 DEF FlagTypes, TearTypes
  <2>2. \A t \in Targets : t # c.on => busy'[t] = busy[t]
    BY <1>1, <1>8 DEF Freed, FlagTypes
  <2>3. \A d \in calls : Flagged(d.on) /\ (\A e \in {c} : e.on # d.on) => Flagged(d.on)'
    BY <1>2, <2>2 DEF Flagged
  <2>4. ApartInv'
    <3>1. CASE c.by = "tear"
      BY <1>2, <3>1 DEF ApartInv, CallsApart
    <3>2. CASE c.by # "tear"
      BY <1>2, <1>8, <2>3, <3>2, EndApart
    <3> QED  BY <3>1, <3>2
  <2> QED  BY <1>5, <1>6, <2>1, <2>4, Parts, PTL
<1> QED  BY <1>3, <1>7, <1>8

LEMMA UeEndedKeeps ==
  ASSUME LabTypeOK, ApartInv, NEW c \in calls, UeEnded(c)
  PROVE  LabTypeOK' /\ ApartInv'
<1>1. HostTypes /\ CardTypes /\ FlagTypes /\ TearTypes /\ RestTypes
  BY Parts
<1>2. /\ c.on \in UeIds /\ calls' = calls \ {c} /\ busyUe' = [busyUe EXCEPT ![c.on] = FALSE]
      /\ UNCHANGED <<hostVars, card, nfs, rows, late, busy, template, tearVars, labEvents>>
      /\ ueCard' \in {ueCard, hostUe}
  BY DEF UeEnded
<1>3. \A u \in UeIds : u # c.on => busyUe'[u] = busyUe[u]
  BY <1>1, <1>2 DEF FlagTypes
<1>4. \A d \in calls : d.on \in Things
  BY <1>1 DEF FlagTypes, Calls
<1>5. \A d \in calls : Flagged(d.on) /\ (\A e \in {c} : e.on # d.on) => Flagged(d.on)'
  BY <1>2, <1>3, <1>4 DEF Flagged, Things
<1>6. ApartInv'
  BY <1>2, <1>5, EndApart DEF tearVars
<1>7. FlagTypes' /\ CardTypes'
  BY <1>1, <1>2 DEF FlagTypes, CardTypes, HostTypes
<1>8. HostTypes' /\ TearTypes' /\ RestTypes'
  BY <1>1, <1>2 DEF HostTypes, TearTypes, RestTypes, LateTypes, hostVars, tearVars
<1> QED  BY <1>6, <1>7, <1>8, Parts, PTL

LEMMA StopAllEndedKeeps ==
  ASSUME LabTypeOK, ApartInv, NEW by \in {"all", "tear"}, StopAllEnded(by)
  PROVE  LabTypeOK' /\ ApartInv'
<1>1. HostTypes /\ CardTypes /\ FlagTypes /\ TearTypes /\ RestTypes
  BY Parts
<1> DEFINE group == { c \in calls : c.by = by /\ c.on \in UeIds }
<1>2. PICK read \in BOOLEAN :
        /\ group # {}
        /\ ueCard' = IF read THEN hostUe ELSE ueCard
        /\ busyUe' = [u \in UeIds |-> busyUe[u] /\ ~(read /\ \E c \in group : c.on = u)]
        /\ \/ by = "tear" /\ GoOn("ues", plan, calls \ group, busy)
           \/ /\ calls' = calls \ group /\ UNCHANGED busy
              /\ tearing' = IF by = "tear" THEN "no" ELSE tearing
        /\ UNCHANGED <<hostVars, card, nfs, rows, late, template, plan, tore, labEvents>>
  BY DEF StopAllEnded
<1>3. HostTypes' /\ RestTypes' /\ CardTypes'
  BY <1>1, <1>2 DEF HostTypes, RestTypes, LateTypes, CardTypes, hostVars
<1>4. busyUe' \in [UeIds -> BOOLEAN]
  BY <1>2
<1>5. calls \ group \subseteq Calls /\ group \subseteq calls /\ \A c \in group : c.by = by
  BY <1>1 DEF FlagTypes
<1>6. calls' \subseteq Calls /\ busy' \in [Targets -> BOOLEAN] /\ tearing' \in {"no", "ues", "gnbs", "core"}
  <2> HIDE DEF group
  <2>1. CASE GoOn("ues", plan, calls \ group, busy)
    BY <1>1, <1>5, <2>1, GoOnTypes DEF TearTypes, FlagTypes
  <2> QED  BY <1>1, <1>2, <1>5, <2>1 DEF TearTypes, FlagTypes
<1>7. FlagTypes' /\ TearTypes'
  BY <1>1, <1>2, <1>4, <1>6 DEF FlagTypes, TearTypes
<1>8. ApartInv'
  <2>1. CASE by = "tear"
    BY <1>2, <1>5, <2>1 DEF ApartInv, CallsApart
  <2>2. CASE by = "all"
    <3>1. calls' = calls \ group /\ UNCHANGED <<busy, tore, tearing>>
      BY <1>2, <2>2
    <3>2. \A u \in UeIds : busyUe[u] /\ (\A c \in group : c.on # u) => busyUe'[u]
      BY <1>2
    <3>3. \A d \in calls : d.on \in Things
      BY <1>1 DEF FlagTypes, Calls
    <3>4. \A d \in calls : Flagged(d.on) /\ (\A c \in group : c.on # d.on) => Flagged(d.on)'
      <4> HIDE DEF group
      <4> QED  BY <3>1, <3>2, <3>3 DEF Flagged, Things
    <3> HIDE DEF group
    <3> QED  BY <1>5, <3>1, <3>4, EndApart
  <2> QED  BY <2>1, <2>2
<1> QED  BY <1>3, <1>7, <1>8, Parts, PTL

-----------------------------------------------------------------------------
LEMMA StepKeeps == LabTypeOK /\ ApartInv /\ [LabNext]_labVars => LabTypeOK' /\ ApartInv'
<1> SUFFICES ASSUME LabTypeOK, ApartInv, [LabNext]_labVars PROVE LabTypeOK' /\ ApartInv'
  OBVIOUS
<1>1. ASSUME UNCHANGED <<calls, busy, busyUe, tearVars>> PROVE ApartInv'
  BY <1>1 DEF ApartInv, CallsApart, Flagged, tearVars
<1>2. CASE Polling
  BY <1>1, <1>2, PollingTypes
<1>3. CASE Clicking
  BY <1>3, ClickingKeeps
<1>4. CASE Working
  BY <1>4, HandledKeeps, TargetEndedKeeps, UeEndedKeeps, StopAllEndedKeeps DEF Working
<1>5. ASSUME NEW x \in Things, Fails(x) PROVE LabTypeOK' /\ ApartInv'
  <2>1. HostTypes /\ CardTypes /\ FlagTypes /\ TearTypes /\ RestTypes
    BY Parts
  <2>2. host' \in [Targets -> NodeStatus] /\ hostUe' \in [UeIds -> UeStatus]
    BY <1>5, <2>1, HostSet DEF Fails, NodeStatus
  <2>3. /\ UNCHANGED <<hostTemplate, subscribers, cardVars, late, busy, busyUe, template, calls, tearVars>>
        /\ labEvents' \in 0 .. LabEvents
    BY <1>5, <2>1, EventTypes DEF Fails, RestTypes
  <2>4. HostTypes' /\ CardTypes' /\ FlagTypes' /\ TearTypes' /\ RestTypes'
    BY <2>1, <2>2, <2>3 DEF HostTypes, CardTypes, FlagTypes, TearTypes, RestTypes, LateTypes, cardVars, tearVars
  <2>5. ApartInv'
    BY <1>1, <2>3
  <2> QED  BY <2>4, <2>5, Parts, PTL
<1>6. ASSUME NEW u \in UeIds, SubscriberDeleted(u) PROVE LabTypeOK' /\ ApartInv'
  <2>1. HostTypes /\ CardTypes /\ FlagTypes /\ TearTypes /\ RestTypes
    BY Parts
  <2>2. /\ UNCHANGED <<host, hostTemplate, hostUe, cardVars, late, busy, busyUe, template, calls, tearVars>>
        /\ labEvents' \in 0 .. LabEvents /\ subscribers' \subseteq UeIds
    BY <1>6, <2>1, EventTypes DEF SubscriberDeleted, RestTypes, HostTypes
  <2>3. HostTypes' /\ CardTypes' /\ FlagTypes' /\ TearTypes' /\ RestTypes'
    BY <2>1, <2>2 DEF HostTypes, CardTypes, FlagTypes, TearTypes, RestTypes, LateTypes, cardVars, tearVars
  <2>4. ApartInv'
    BY <1>1, <2>2
  <2> QED  BY <2>3, <2>4, Parts, PTL
<1>7. CASE UNCHANGED labVars
  BY <1>1, <1>7 DEF labVars, hostVars, cardVars, tearVars, LabTypeOK
<1> QED  BY <1>2, <1>3, <1>4, <1>5, <1>6, <1>7 DEF LabNext

LEMMA FewIsOne ==
  ASSUME NEW X, \A c, d \in X : c = d
  PROVE  Cardinality(X) <= 1
<1>1. CASE X = {}
  BY <1>1, FS_EmptySet
<1>2. ASSUME NEW c \in X PROVE Cardinality(X) <= 1
  <2>1. X = {c}
    OBVIOUS
  <2>2. Cardinality({c}) = 1
    BY FS_Singleton
  <2> QED  BY <2>1, <2>2
<1> QED  BY <1>1, <1>2

\* Until Tear down is clicked a target or a UE has one action at a time and its button is
\* taken as long as that lasts, whatever the cards show meanwhile and in whatever order
\* statuses answer (actionBlockedReason, isActionPending and withPending).
THEOREM ActionsAlwaysApart == LabSpec => []ActionsApart
<1>1. LabInit => LabTypeOK /\ ApartInv
  BY InitTypes DEF LabInit, ApartInv, CallsApart
<1>2. LabTypeOK /\ ApartInv => ActionsApart
  <2> SUFFICES ASSUME LabTypeOK, ApartInv, ~tore, NEW x \in Things
               PROVE  /\ Cardinality({c \in calls : c.on = x}) <= 1
                      /\ (\E c \in calls : c.on = x) => IF x \in Targets THEN busy[x] ELSE busyUe[x]
    BY DEF ActionsApart, OneActionEach
  <2>1. CallsApart
    BY DEF ApartInv
  <2>2. Cardinality({c \in calls : c.on = x}) <= 1
    BY <2>1, FewIsOne DEF CallsApart
  <2> QED  BY <2>1, <2>2 DEF CallsApart, Flagged
<1>3. LabTypeOK /\ ApartInv /\ [LabNext]_labVars => (LabTypeOK /\ ApartInv)'
  BY StepKeeps
<1> QED  BY <1>1, <1>2, <1>3, PTL DEF LabSpec

=============================================================================
