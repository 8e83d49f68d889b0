----------------------------- MODULE PageProofs -----------------------------
(***************************************************************************)
(* Theorems about the pages of MCPages, for any items, searches, plans,    *)
(* CPUs, sessions and bounds: lists, bulk actions, forms, logs and         *)
(* messages.  What is drawn is in DrawnProofs.                             *)
(***************************************************************************)
EXTENDS MCPages, SumTheorems

-----------------------------------------------------------------------------
(* What the pages share.                                                   *)

\* n rows fill no more than n pages.
LEMMA PagesFew ==
  ASSUME NEW n \in Nat \ {0}, NEW r \in Nat \ {0}
  PROVE  (n + r - 1) \div r \in 1 .. n
<1> DEFINE a == n + r - 1
           q == a \div r
<1>1. a \in Nat /\ q \in Int /\ a % r \in 0 .. (r - 1) /\ a = r * q + (a % r)
  OBVIOUS
<1> HIDE DEF q
<1>2. r * q <= n + r - 1 /\ n - 1 < r * q
  BY <1>1
<1>3. ASSUME q >= n + 1 PROVE FALSE
  <2>1. r * q >= r * (n + 1)
    BY <1>1, <1>3
  <2>2. r * (n + 1) = r * n + r /\ r * n >= n
    OBVIOUS
  <2>3. r * n \in Int /\ r * q \in Int
    BY <1>1
  <2> QED  BY <1>2, <2>1, <2>2, <2>3
<1>4. ASSUME q <= 0 PROVE FALSE
  <2>1. r * q <= 0
    BY <1>1, <1>4
  <2> QED  BY <1>1, <1>2, <2>1
<1> QED  BY <1>1, <1>3, <1>4 DEF q

LEMMA SomeItems == IsFiniteSet(Items) /\ Cardinality(Items) \in Nat \ {0}
<1>1. Cardinality(Items) \in Nat /\ Cardinality(Items) # 0
  BY PagesOK, FS_CardinalityType, FS_EmptySet
<1> QED  BY <1>1, PagesOK

LEMMA EventsOK ==
    /\ ImageEvents \in Nat /\ SubsEvents \in Nat /\ FormEvents \in Nat
    /\ FleetEvents \in Nat /\ ProfilesEvents \in Nat /\ HistoryEvents \in Nat
  BY PagesOK

LEMMA PartFinite ==
  ASSUME NEW Q \in SUBSET Items
  PROVE  IsFiniteSet(Q) /\ Cardinality(Q) \in 0 .. Cardinality(Items)
<1>1. IsFiniteSet(Q) /\ Cardinality(Q) <= Cardinality(Items)
  BY PagesOK, FS_Subset
<1> QED  BY <1>1, SomeItems, FS_CardinalityType

-----------------------------------------------------------------------------
(* The saved profiles.                                                     *)

LEMMA ProfilesCount == \A Q : P!Cardinality(Q) = Cardinality(Q)
  BY DEF P!Cardinality, Cardinality

ProfilesInv == P!ProfilesTypeOK /\ P!DeletesAreShown /\ P!TickedAreListed

LEMMA ProfilesInit == P!Init => ProfilesInv
<1> SUFFICES ASSUME P!Init PROVE ProfilesInv
  OBVIOUS
<1>1. s5 \in 1 .. P!Cardinality(Items) /\ s4 \in Finds /\ s11 \in 0 .. ProfilesEvents
  BY PagesOK, SomeItems, EventsOK, ProfilesCount DEF P!Init
<1> QED  BY <1>1 DEF P!Init, ProfilesInv, P!ProfilesTypeOK, P!DeletesAreShown, P!TickedAreListed, P!Listed

LEMMA ProfilesSeen ==
  ASSUME P!ProfilesTypeOK
  PROVE  /\ P!Filtered \subseteq Items /\ P!Filtered \subseteq P!Listed /\ P!Rows \subseteq P!Filtered
         /\ P!Chosen \subseteq Items
         /\ P!Pages \in 1 .. Cardinality(Items)
<1>1. P!Filtered \subseteq Items /\ P!Filtered \subseteq P!Listed /\ P!Rows \subseteq P!Filtered /\ P!Chosen \subseteq Items
  BY DEF P!ProfilesTypeOK, P!Listed, P!Filtered, P!Rows, P!Chosen
<1>2. Cardinality(P!Filtered) \in 0 .. Cardinality(Items)
  BY <1>1, PartFinite
<1>3. P!Pages \in 1 .. Cardinality(Items)
  <2>1. CASE Cardinality(P!Filtered) = 0
    BY <2>1, SomeItems, ProfilesCount DEF P!Pages
  <2>2. CASE Cardinality(P!Filtered) # 0
    <3>1. Cardinality(P!Filtered) \in Nat \ {0} /\ PageRows \in Nat \ {0}
      BY <1>2, <2>2, SomeItems, PagesOK
    <3>2. P!Pages \in 1 .. Cardinality(P!Filtered)
      BY <2>2, <3>1, PagesFew, ProfilesCount DEF P!Pages
    <3> QED  BY <1>2, <3>1, <3>2, SomeItems
  <2> QED  BY <2>1, <2>2
<1> QED  BY <1>1, <1>3

LEMMA ProfilesEvent == P!ProfilesTypeOK /\ (P!Happens \/ UNCHANGED s11) => s11' \in 0 .. ProfilesEvents
  BY EventsOK DEF P!Happens, P!ProfilesTypeOK


LEMMA ProfilesStep == ProfilesInv /\ P!Next => ProfilesInv'
<1> SUFFICES ASSUME ProfilesInv, P!Next PROVE ProfilesInv'
  OBVIOUS
<1> USE DEF ProfilesInv
<1>1. /\ P!Filtered \subseteq Items /\ P!Filtered \subseteq P!Listed /\ P!Rows \subseteq P!Filtered
      /\ P!Chosen \subseteq Items
      /\ P!Pages \in 1 .. Cardinality(Items)
  BY ProfilesSeen
<1> HIDE DEF ProfilesInv
<1>2. ASSUME UNCHANGED <<s2, s3, s6, s7, s8>>, s1' \subseteq Items, s4' \in Finds, s5' \in 1 .. Cardinality(Items),
             s9' \subseteq Items, \A l \in s10' : l = None \/ l \subseteq Items, s11' \in 0 .. ProfilesEvents
      PROVE  ProfilesInv'
  BY <1>2, ProfilesCount DEF ProfilesInv, P!ProfilesTypeOK, P!DeletesAreShown, P!TickedAreListed, P!Listed
<1>3. CASE P!SavedElsewhere
  <2>1. s11' \in 0 .. ProfilesEvents
    BY <1>3, ProfilesEvent DEF ProfilesInv, P!SavedElsewhere
  <2> QED  BY <1>2, <1>3, <2>1, ProfilesCount DEF P!SavedElsewhere, ProfilesInv, P!ProfilesTypeOK
<1>4. CASE P!ListHandled
  BY <1>2, <1>4, ProfilesCount DEF P!ListHandled, ProfilesInv, P!ProfilesTypeOK
<1>5. CASE P!Search
  <2>1. s11' \in 0 .. ProfilesEvents
    BY <1>5, ProfilesEvent DEF ProfilesInv, P!Search
  <2> QED  BY <1>2, <1>5, <2>1, SomeItems DEF P!Search, ProfilesInv, P!ProfilesTypeOK
<1>6. CASE P!Turn
  <2>1. s11' \in 0 .. ProfilesEvents
    BY <1>6, ProfilesEvent DEF ProfilesInv, P!Turn
  <2>2. s5' \in 1 .. Cardinality(Items)
    BY <1>1, <1>6, SomeItems DEF P!Turn
  <2> QED  BY <1>2, <1>6, <2>1, <2>2 DEF P!Turn, ProfilesInv, P!ProfilesTypeOK
<1>7. ASSUME P!unticked' = P!unticked, s3' \subseteq P!Listed, P!Happens PROVE ProfilesInv'
  <2>1. s11' \in 0 .. ProfilesEvents
    BY <1>7, ProfilesEvent DEF ProfilesInv
  <2>2. P!Listed \subseteq Items
    BY DEF ProfilesInv, P!ProfilesTypeOK, P!Listed
  <2> QED  BY <1>7, <2>1, <2>2 DEF P!unticked, ProfilesInv, P!ProfilesTypeOK, P!DeletesAreShown, P!TickedAreListed, P!Listed
<1>8. CASE P!Toggle \/ P!SelectAll \/ P!ClearSelection
  BY <1>1, <1>7, <1>8 DEF P!Toggle, P!SelectAll, P!ClearSelection, ProfilesInv, P!TickedAreListed
<1>9. CASE P!AskDelete \/ P!AskDeleteSelected
  <2>1. s11' \in 0 .. ProfilesEvents /\ ~s7 /\ s6' \subseteq Items
    BY <1>1, <1>9, ProfilesEvent DEF ProfilesInv, P!AskDelete, P!AskDeleteSelected
  <2>2. UNCHANGED <<s1, s2, s3, s4, s5, s7, s8, s9, s10>>
    BY <1>9 DEF P!AskDelete, P!AskDeleteSelected
  <2> QED  BY <2>1, <2>2 DEF ProfilesInv, P!ProfilesTypeOK, P!DeletesAreShown, P!TickedAreListed, P!Listed
<1>10. CASE P!CancelDelete
  BY <1>10 DEF P!CancelDelete, ProfilesInv, P!ProfilesTypeOK, P!DeletesAreShown, P!TickedAreListed, P!Listed
<1>11. CASE P!HandleDelete
  <2>1. s8' \subseteq P!Deletes
    BY <1>11 DEF P!HandleDelete, P!Deletes, ProfilesInv, P!ProfilesTypeOK
  <2> QED  BY <1>11, <2>1 DEF P!HandleDelete, ProfilesInv, P!ProfilesTypeOK, P!DeletesAreShown, P!TickedAreListed, P!Listed
<1>12. CASE P!Settled
  <2>1. s8' = {} /\ s9' \subseteq Items
    BY <1>12 DEF P!Settled, P!Over, P!Deletes, ProfilesInv, P!ProfilesTypeOK
  <2>2. UNCHANGED <<s1, s2, s3, s4, s5, s6, s11>> /\ s7' = FALSE /\ s10' = s10 \cup {None}
    BY <1>12 DEF P!Settled
  <2> QED  BY <2>1, <2>2 DEF ProfilesInv, P!ProfilesTypeOK, P!DeletesAreShown, P!TickedAreListed, P!Listed
<1>13. ASSUME NEW d \in s8, P!DeleteHandled(d) PROVE ProfilesInv'
  <2>1. s11' \in 0 .. ProfilesEvents
    BY <1>13, ProfilesEvent DEF ProfilesInv, P!DeleteHandled
  <2>2. s8' \subseteq P!Deletes /\ s1' \subseteq Items
    BY <1>13 DEF P!DeleteHandled, P!Deletes, ProfilesInv, P!ProfilesTypeOK
  <2>3. UNCHANGED <<s2, s3, s4, s5, s6, s7, s9, s10>>
    BY <1>13 DEF P!DeleteHandled
  <2> QED  BY <1>13, <2>1, <2>2, <2>3 DEF ProfilesInv, P!ProfilesTypeOK, P!DeletesAreShown, P!TickedAreListed, P!Listed
<1>14. ASSUME NEW l \in s10, P!ListAnswered(l) PROVE ProfilesInv'
  <2>1. /\ l # None /\ l \subseteq Items /\ s2' = l /\ s3' = s3 \cap l /\ s10' = s10 \ {l}
        /\ UNCHANGED <<s1, s4, s5, s6, s7, s8, s9, s11>>
    BY <1>14 DEF P!ListAnswered, P!Refreshed, ProfilesInv, P!ProfilesTypeOK
  <2> QED  BY <2>1 DEF ProfilesInv, P!ProfilesTypeOK, P!DeletesAreShown, P!TickedAreListed, P!Listed
<1> QED  BY <1>3, <1>4, <1>5, <1>6, <1>8, <1>9, <1>10, <1>11, <1>12, <1>13, <1>14 DEF P!Next

-----------------------------------------------------------------------------
(* The finished runs.                                                      *)

LEMMA HistoryCount == \A Q : R!Cardinality(Q) = Cardinality(Q)
  BY DEF R!Cardinality, Cardinality

\* The first n elements are different.
Apart(s, n) == \A i, j \in 1 .. n : s[i] = s[j] => i = j

\* Runs are ticked once each, of a list that has been read; a run's report is asked for once
\* at a time.
HistoryInv ==
    /\ R!HistoryTypeOK /\ R!BlankTabsWait
    /\ s2 \in Seq(Items) /\ (s2 # <<>> => s1 = Items /\ s1 # None)
    /\ Apart(s2, Len(s2))
    /\ s3 => Len(s2) = 2
    /\ \A p, q \in s6 : p.run = q.run => p = q

LEMMA HistoryInit == R!Init => HistoryInv
<1> SUFFICES ASSUME R!Init PROVE HistoryInv
  OBVIOUS
<1>1. s5 \in 1 .. R!Cardinality(Items) /\ s4 \in Finds /\ s8 \in 0 .. HistoryEvents
  BY PagesOK, SomeItems, EventsOK, HistoryCount DEF R!Init
<1>2. s2 = <<>> /\ s2 \in Seq(Items) /\ Len(s2) = 0 /\ DOMAIN s2 = {} /\ R!Ticked \subseteq Items
  BY DEF R!Init, R!Ticked
<1>3. s7 = [r \in Items |-> "none"] /\ s6 = {} /\ ~s3 /\ s3 \in BOOLEAN /\ s1 = None
  BY DEF R!Init
<1> QED  BY <1>1, <1>2, <1>3 DEF HistoryInv, R!HistoryTypeOK, R!BlankTabsWait, Apart

LEMMA HistoryEvent == R!HistoryTypeOK /\ (R!Happens \/ UNCHANGED s8) => s8' \in 0 .. HistoryEvents
  BY EventsOK DEF R!Happens, R!HistoryTypeOK

LEMMA HistorySeen ==
  ASSUME R!HistoryTypeOK
  PROVE  /\ R!Filtered \subseteq Items /\ R!Rows \subseteq R!Filtered
         /\ R!Pages \in 1 .. Cardinality(Items)
         /\ \A r \in R!Rows : s1 = Items /\ s1 # None
<1>1. R!Filtered \subseteq Items /\ R!Rows \subseteq R!Filtered
  BY DEF R!HistoryTypeOK, R!Filtered, R!Rows
<1>2. Cardinality(R!Filtered) \in 0 .. Cardinality(Items)
  BY <1>1, PartFinite
<1>3. R!Pages \in 1 .. Cardinality(Items)
  <2>1. CASE Cardinality(R!Filtered) = 0
    BY <2>1, SomeItems, HistoryCount DEF R!Pages
  <2>2. CASE Cardinality(R!Filtered) # 0
    <3>1. Cardinality(R!Filtered) \in Nat \ {0} /\ PageRows \in Nat \ {0}
      BY <1>2, <2>2, SomeItems, PagesOK
    <3>2. R!Pages \in 1 .. Cardinality(R!Filtered)
      BY <2>2, <3>1, PagesFew, HistoryCount DEF R!Pages
    <3> QED  BY <1>2, <3>1, <3>2, SomeItems
  <2> QED  BY <2>1, <2>2
<1>4. \A r \in R!Rows : s1 = Items /\ s1 # None
  BY <1>1 DEF R!Filtered, R!HistoryTypeOK
<1> QED  BY <1>1, <1>3, <1>4

\* t has all of s but the k-th of n.
Skips(t, s, n, k) == \A i \in 1 .. n - 1 : t[i] = IF i <= k - 1 THEN s[i] ELSE s[i + 1]

LEMMA SkipsOne ==
  ASSUME NEW n \in Nat, NEW k \in 1 .. n, NEW s, NEW t, Apart(s, n), Skips(t, s, n, k)
  PROVE  Apart(t, n - 1)
<1>1. ASSUME NEW i \in 1 .. n - 1, i <= k - 1 PROVE t[i] = s[i] /\ i \in 1 .. n
  BY <1>1 DEF Skips
<1>2. ASSUME NEW i \in 1 .. n - 1, ~(i <= k - 1) PROVE t[i] = s[i + 1] /\ i + 1 \in 1 .. n
  BY <1>2 DEF Skips
<1> SUFFICES ASSUME NEW i \in 1 .. n - 1, NEW j \in 1 .. n - 1, t[i] = t[j] PROVE i = j
  BY DEF Apart
<1>3. CASE i <= k - 1 /\ j <= k - 1
  BY <1>1, <1>3 DEF Apart
<1>4. CASE ~(i <= k - 1) /\ ~(j <= k - 1)
  <2>1. s[i + 1] = s[j + 1] /\ i + 1 \in 1 .. n /\ j + 1 \in 1 .. n
    BY <1>2, <1>4
  <2>2. i + 1 = j + 1
    BY <2>1 DEF Apart
  <2> QED  BY <2>2
<1>5. CASE i <= k - 1 /\ ~(j <= k - 1)
  <2>1. s[i] = s[j + 1] /\ i \in 1 .. n /\ j + 1 \in 1 .. n
    BY <1>1, <1>2, <1>5
  <2>2. i = j + 1
    BY <2>1 DEF Apart
  <2> QED  BY <1>5, <2>2
<1>6. CASE ~(i <= k - 1) /\ j <= k - 1
  <2>1. s[i + 1] = s[j] /\ i + 1 \in 1 .. n /\ j \in 1 .. n
    BY <1>1, <1>2, <1>6
  <2>2. i + 1 = j
    BY <2>1 DEF Apart
  <2> QED  BY <1>6, <2>2
<1> QED  BY <1>3, <1>4, <1>5, <1>6

\* A sequence of different elements, one of which is taken out.
TakesOut(t, s, k) == t = SubSeq(s, 1, k - 1) \o SubSeq(s, k + 1, Len(s))

LEMMA TakenOut ==
  ASSUME NEW X, NEW s \in Seq(X), NEW k \in 1 .. Len(s), NEW t, Apart(s, Len(s)), TakesOut(t, s, k)
  PROVE  t \in Seq(X) /\ Len(t) = Len(s) - 1 /\ Apart(t, Len(t))
<1> DEFINE n == Len(s)
           a == SubSeq(s, 1, k - 1)
           b == SubSeq(s, k + 1, n)
<1>1. n \in Nat /\ k \in 1 .. n /\ \A i \in 1 .. n : s[i] \in X
  OBVIOUS
<1>2. t = a \o b
  BY DEF TakesOut
<1> HIDE DEF n
<1>3. a \in Seq(X) /\ Len(a) = k - 1 /\ \A i \in 1 .. k - 1 : a[i] = s[i]
  <2>1. k - 1 \in Int /\ 1 \in Int /\ \A i \in 1 .. k - 1 : s[i] \in X
    BY <1>1
  <2>2. /\ a \in Seq(X) /\ Len(a) = (IF 1 <= k - 1 THEN k - 1 - 1 + 1 ELSE 0)
        /\ \A i \in 1 .. k - 1 - 1 + 1 : a[i] = s[1 + i - 1]
    BY <2>1, SubSeqProperties
  <2> HIDE DEF a
  <2> QED  BY <1>1, <2>2
<1>4. b \in Seq(X) /\ Len(b) = n - k /\ \A i \in 1 .. n - k : b[i] = s[i + k]
  <2>1. k + 1 \in Int /\ n \in Int /\ \A i \in k + 1 .. n : s[i] \in X
    BY <1>1
  <2>2. /\ b \in Seq(X) /\ Len(b) = (IF k + 1 <= n THEN n - (k + 1) + 1 ELSE 0)
        /\ \A i \in 1 .. n - (k + 1) + 1 : b[i] = s[k + 1 + i - 1]
    BY <2>1, SubSeqProperties, SMTT(30)
  <2> HIDE DEF b
  <2>3. \A i \in 1 .. n - k : i \in 1 .. n - (k + 1) + 1 /\ k + 1 + i - 1 = i + k
    BY <1>1
  <2> QED  BY <1>1, <2>2, <2>3
<1> HIDE DEF a, b
<1>5. /\ t \in Seq(X) /\ Len(t) = Len(a) + Len(b)
      /\ \A i \in 1 .. Len(a) + Len(b) : t[i] = IF i <= Len(a) THEN a[i] ELSE b[i - Len(a)]
  <2>1. /\ a \o b \in Seq(X) /\ Len(a \o b) = Len(a) + Len(b)
        /\ \A i \in 1 .. Len(a) + Len(b) : (a \o b)[i] = IF i <= Len(a) THEN a[i] ELSE b[i - Len(a)]
    BY ONLY <1>3, <1>4, ConcatProperties
  <2> QED  BY ONLY <1>2, <2>1
<1>6. Len(t) = n - 1 /\ Len(a) + Len(b) = n - 1
  BY ONLY <1>1, <1>3, <1>4, <1>5
<1>7. \A i \in 1 .. n - 1 : t[i] = IF i <= k - 1 THEN a[i] ELSE b[i - (k - 1)]
  BY ONLY <1>3, <1>5, <1>6
<1>8. Skips(t, s, n, k)
  <2> SUFFICES ASSUME NEW i \in 1 .. n - 1 PROVE t[i] = IF i <= k - 1 THEN s[i] ELSE s[i + 1]
    BY DEF Skips
  <2>1. CASE i <= k - 1
    BY ONLY <1>1, <1>3, <1>7, <2>1
  <2>2. CASE ~(i <= k - 1)
    <3>1. t[i] = b[i - (k - 1)]
      BY ONLY <1>7, <2>2
    <3>2. i - (k - 1) \in 1 .. n - k /\ i - (k - 1) + k = i + 1
      BY ONLY <1>1, <2>2
    <3>3. b[i - (k - 1)] = s[i - (k - 1) + k]
      BY ONLY <1>4, <3>2
    <3> QED  BY ONLY <2>2, <3>1, <3>2, <3>3
  <2> QED  BY ONLY <2>1, <2>2
<1>9. Apart(s, n)
  BY DEF n
<1>10. Apart(t, n - 1)
  BY ONLY <1>1, <1>8, <1>9, SkipsOne
<1>11. t \in Seq(X) /\ Len(t) = n - 1 /\ Apart(t, Len(t))
  BY ONLY <1>5, <1>6, <1>10
<1> QED  BY ONLY <1>11 DEF n

\* Ticking and unticking keep the runs ticked apart, and at most two.
LEMMA ToggledTwo ==
  ASSUME HistoryInv, NEW r \in Items
  PROVE  R!Toggled(r) \in Seq(Items) /\ Len(R!Toggled(r)) \in 0 .. 2 /\ Apart(R!Toggled(r), Len(R!Toggled(r)))
<1> DEFINE t == R!Toggled(r)
<1>1. s2 \in Seq(Items) /\ Len(s2) \in 0 .. 2 /\ DOMAIN s2 = 1 .. Len(s2) /\ Apart(s2, Len(s2))
  BY DEF HistoryInv, R!HistoryTypeOK
<1>2. t \in Seq(Items) /\ Len(t) \in 0 .. 2 /\ Apart(t, Len(t))
  <2>1. CASE r \in R!Ticked
    <3>1. PICK k \in DOMAIN s2 : k = CHOOSE i \in DOMAIN s2 : s2[i] = r
      BY <2>1 DEF R!Ticked
    <3>2. TakesOut(t, s2, k)
      BY <2>1, <3>1 DEF R!Toggled, R!Without, TakesOut
    <3> HIDE DEF t
    <3>3. k \in 1 .. Len(s2)
      BY <1>1
    <3>4. t \in Seq(Items) /\ Len(t) = Len(s2) - 1 /\ Apart(t, Len(t))
      BY ONLY <1>1, <3>2, <3>3, TakenOut
    <3> QED  BY <1>1, <3>3, <3>4
  <2>2. CASE r \notin R!Ticked /\ Len(s2) = 2
    <3>1. t = <<s2[2], r>>
      BY <2>2 DEF R!Toggled
    <3>2. 2 \in DOMAIN s2 /\ s2[2] \in Items
      BY <1>1, <2>2
    <3>3. s2[2] # r
      BY <2>2, <3>2 DEF R!Ticked
    <3> HIDE DEF t
    <3> QED  BY <3>1, <3>2, <3>3 DEF Apart
  <2>3. CASE r \notin R!Ticked /\ Len(s2) # 2
    <3>1. t = Append(s2, r) /\ \A i \in DOMAIN s2 : s2[i] # r
      BY <2>3 DEF R!Toggled, R!Ticked
    <3> HIDE DEF t
    <3>2. /\ t \in Seq(Items) /\ Len(t) = Len(s2) + 1 /\ t[Len(s2) + 1] = r
          /\ \A i \in 1 .. Len(s2) : t[i] = s2[i]
      BY <1>1, <3>1, AppendProperties
    <3>3. Apart(t, Len(t))
      BY <1>1, <3>1, <3>2 DEF Apart
    <3> QED  BY <1>1, <2>3, <3>2, <3>3
  <2> QED  BY <2>1, <2>2, <2>3
<1> QED  BY <1>2

LEMMA HistoryStep == HistoryInv /\ R!Next => HistoryInv'
<1> SUFFICES ASSUME HistoryInv, R!Next PROVE HistoryInv'
  OBVIOUS
<1>1. R!HistoryTypeOK /\ s2 \in Seq(Items)
  BY DEF HistoryInv
<1>2. R!Rows \subseteq Items /\ R!Pages \in 1 .. Cardinality(Items) /\ \A r \in R!Rows : s1 = Items /\ s1 # None
  BY <1>1, HistorySeen
<1>3. CASE R!Loaded
  BY <1>3 DEF R!Loaded, HistoryInv, R!HistoryTypeOK, R!BlankTabsWait, R!Ticked
<1>4. CASE R!Search
  <2>1. s8' \in 0 .. HistoryEvents /\ s5' \in 1 .. R!Cardinality(Items)
    BY <1>1, <1>4, HistoryEvent, SomeItems, HistoryCount DEF R!Search
  <2> QED  BY <1>4, <2>1 DEF R!Search, HistoryInv, R!HistoryTypeOK, R!BlankTabsWait, R!Ticked
<1>5. CASE R!TurnPage
  <2>1. s8' \in 0 .. HistoryEvents /\ s5' \in 1 .. R!Cardinality(Items)
    BY <1>1, <1>2, <1>5, HistoryEvent, SomeItems, HistoryCount DEF R!TurnPage
  <2> QED  BY <1>5, <2>1 DEF R!TurnPage, HistoryInv, R!HistoryTypeOK, R!BlankTabsWait, R!Ticked
<1>6. CASE R!Toggle
  <2>1. PICK r \in R!Rows : s2' = R!Toggled(r)
    BY <1>6 DEF R!Toggle
  <2>2. s2' \in Seq(Items) /\ Len(s2') \in 0 .. 2 /\ Apart(s2, Len(s2))'
    BY <1>2, <2>1, ToggledTwo
  <2>3. /\ s3' \in BOOLEAN /\ (s3' => Len(s2') = 2) /\ UNCHANGED <<s1, s4, s5, s6, s7>>
        /\ s1 = Items /\ s1 # None /\ s8' \in 0 .. HistoryEvents
    BY <1>1, <1>2, <1>6, <2>1, HistoryEvent DEF R!Toggle, R!Compares, R!HistoryTypeOK
  <2>4. R!Ticked' \subseteq Items
    BY <2>2 DEF R!Ticked
  <2> QED  BY <2>2, <2>3, <2>4 DEF HistoryInv, R!HistoryTypeOK, R!BlankTabsWait, R!Ticked
<1>7. CASE R!Compare
  <2>1. s8' \in 0 .. HistoryEvents /\ s3' \in BOOLEAN
    BY <1>1, <1>7, HistoryEvent DEF R!Compare
  <2>2. Len(s2) = 2 /\ UNCHANGED <<s1, s2, s4, s5, s6, s7>>
    BY <1>7 DEF R!Compare
  <2>3. R!HistoryTypeOK'
    BY <1>1, <2>1, <2>2 DEF R!HistoryTypeOK, R!Ticked
  <2> QED  BY <2>2, <2>3 DEF HistoryInv, R!BlankTabsWait
<1>8. ASSUME NEW r \in Items, NEW how \in {"view", "download"}, R!Report(r, how) PROVE HistoryInv'
  <2>1. s8' \in 0 .. HistoryEvents
    BY <1>1, <1>8, HistoryEvent DEF R!Report
  <2> DEFINE p == [run |-> r, how |-> how, st |-> "sent"]
  <2>2. p \in R!Reports /\ p.run = r /\ p.how = how
    BY DEF R!Reports
  <2>3. /\ \A q \in s6 : q.run # r
        /\ s6' = s6 \cup {p} /\ s7' = [s7 EXCEPT ![r] = IF how = "view" THEN "blank" ELSE @]
        /\ UNCHANGED <<s1, s2, s3, s4, s5>>
    BY <1>8 DEF R!Report
  <2> HIDE DEF p
  <2>4. s6' \subseteq R!Reports /\ s7' \in [Items -> {"none", "blank", "report", "closed"}]
    BY <1>1, <2>2, <2>3 DEF R!HistoryTypeOK
  <2>5. \A t \in Items : s7'[t] = "blank" => \E q \in s6' : q.run = t /\ q.how = "view"
    <3> SUFFICES ASSUME NEW t \in Items, s7'[t] = "blank" PROVE \E q \in s6' : q.run = t /\ q.how = "view"
      OBVIOUS
    <3>1. CASE t = r /\ how = "view"
      BY <2>2, <2>3, <3>1
    <3>2. CASE ~(t = r /\ how = "view")
      <4>1. s7[t] = "blank"
        BY <1>1, <2>3, <3>2 DEF R!HistoryTypeOK
      <4> QED  BY <2>3, <4>1 DEF HistoryInv, R!BlankTabsWait
    <3> QED  BY <3>1, <3>2
  <2>6. \A q, w \in s6' : q.run = w.run => q = w
    BY <2>2, <2>3 DEF HistoryInv
  <2> QED  BY <2>1, <2>3, <2>4, <2>5, <2>6 DEF HistoryInv, R!HistoryTypeOK, R!BlankTabsWait, R!Ticked
<1>9. ASSUME NEW p \in s6, R!ReportHandled(p) PROVE HistoryInv'
  <2>1. s8' \in 0 .. HistoryEvents
    BY <1>1, <1>9, HistoryEvent DEF R!ReportHandled
  <2>2. PICK st \in {"ok", "lost"} : s6' = (s6 \ {p}) \cup {[p EXCEPT !.st = st]}
    BY <1>9 DEF R!ReportHandled
  <2> DEFINE k == [p EXCEPT !.st = st]
  <2>3. k \in R!Reports /\ k.run = p.run /\ k.how = p.how /\ s6 \subseteq R!Reports
    BY <1>1 DEF R!Reports, R!HistoryTypeOK
  <2>4. s6' = (s6 \ {p}) \cup {k} /\ UNCHANGED <<s1, s2, s3, s4, s5, s7>>
    BY <1>9, <2>2 DEF R!ReportHandled
  <2> HIDE DEF k
  <2>5. \A q, w \in s6' : q.run = w.run => q = w
    BY <2>3, <2>4 DEF HistoryInv
  <2>6. \A t \in Items : s7'[t] = "blank" => \E q \in s6' : q.run = t /\ q.how = "view"
    BY <2>3, <2>4 DEF HistoryInv, R!BlankTabsWait
  <2>7. s6' \subseteq R!Reports
    BY <2>3, <2>4
  <2> QED  BY <2>1, <2>4, <2>5, <2>6, <2>7 DEF HistoryInv, R!HistoryTypeOK, R!BlankTabsWait, R!Ticked
<1>10. ASSUME NEW p \in s6, R!ReportAnswered(p) PROVE HistoryInv'
  <2>1. /\ s6' = s6 \ {p} /\ UNCHANGED <<s1, s2, s3, s4, s5, s8>>
        /\ s7' = [s7 EXCEPT ![p.run] = IF p.how = "view" THEN R!TabEnds(p) ELSE @]
    BY <1>10 DEF R!ReportAnswered
  <2>2. R!TabEnds(p) \in {"report", "closed"} /\ p.run \in Items
    BY <1>1 DEF R!TabEnds, R!HistoryTypeOK, R!Reports
  <2>3. s7' \in [Items -> {"none", "blank", "report", "closed"}]
    BY <1>1, <2>1, <2>2 DEF R!HistoryTypeOK
  <2>4. \A t \in Items : s7'[t] = "blank" => \E q \in s6' : q.run = t /\ q.how = "view"
    <3> SUFFICES ASSUME NEW t \in Items, s7'[t] = "blank" PROVE \E q \in s6' : q.run = t /\ q.how = "view"
      OBVIOUS
    <3>1. s7[t] = "blank" /\ (t = p.run => p.how # "view")
      BY <1>1, <2>1, <2>2 DEF R!HistoryTypeOK
    <3>2. PICK q \in s6 : q.run = t /\ q.how = "view"
      BY <3>1 DEF HistoryInv, R!BlankTabsWait
    <3> QED  BY <2>1, <3>1, <3>2
  <2> QED  BY <2>1, <2>3, <2>4 DEF HistoryInv, R!HistoryTypeOK, R!BlankTabsWait, R!Ticked
<1> QED  BY <1>3, <1>4, <1>5, <1>6, <1>7, <1>8, <1>9, <1>10 DEF R!Next

\* Two runs ticked are two runs compared.
LEMMA HistoryShows == HistoryInv => R!HistoryTypeOK /\ R!ComparesTicked /\ R!BlankTabsWait
<1> SUFFICES ASSUME HistoryInv, s3 PROVE R!ShowCompare /\ R!Compared = R!Ticked
  BY DEF HistoryInv, R!ComparesTicked
<1>1. s2 \in Seq(Items) /\ Len(s2) = 2 /\ s2 # <<>> /\ s1 = Items /\ s1 # None
  BY DEF HistoryInv
<1>2. R!Ticked = {s2[1], s2[2]} /\ s2[1] # s2[2] /\ s2[1] \in Items /\ s2[2] \in Items
  BY <1>1 DEF HistoryInv, R!Ticked, Apart
<1>3. R!Compared = {s2[1], s2[2]}
  BY <1>1, <1>2 DEF R!Compared
<1>4. Cardinality({s2[1], s2[2]}) = 2
  <2>1. IsFiniteSet({s2[1]}) /\ Cardinality({s2[1]}) = 1
    BY FS_Singleton
  <2>2. {s2[1], s2[2]} = {s2[1]} \cup {s2[2]} /\ s2[2] \notin {s2[1]}
    BY <1>2
  <2> QED  BY <2>1, <2>2, FS_AddElement
<1> QED  BY <1>2, <1>3, <1>4, HistoryCount DEF R!ShowCompare

-----------------------------------------------------------------------------
(* The testers' page.                                                      *)

LEMMA FleetCount == \A Q : W!Cardinality(Q) = Cardinality(Q)
  BY DEF W!Cardinality, Cardinality

\* What is asked of a tester is asked of one listed.
FleetInv ==
    /\ W!FleetTypeOK /\ W!ReachedIsUp
    /\ s7 \subseteq W!Rows \X {"sent", "ok", "lost"}

LEMMA FleetOne == \A X, a : X = {} \/ X = {a} => W!Cardinality(X) <= 1
<1> SUFFICES ASSUME NEW X, NEW a, X = {} \/ X = {a} PROVE W!Cardinality(X) <= 1
  OBVIOUS
<1>1. Cardinality({}) = 0 /\ Cardinality({a}) = 1
  BY FS_Singleton, FS_EmptySet
<1>2. W!Cardinality(X) = Cardinality(X)
  BY FleetCount
<1>3. CASE X = {}
  BY <1>1, <1>2, <1>3
<1>4. CASE X = {a}
  BY <1>1, <1>2, <1>4
<1> QED  BY <1>3, <1>4

LEMMA FleetInit == W!Init => FleetInv
<1> SUFFICES ASSUME W!Init PROVE FleetInv
  OBVIOUS
<1>1. /\ s1 \subseteq Testers /\ s2 \subseteq Testers /\ s3 = {} /\ s4 = {W!Asked}
      /\ s5 = [t \in Testers |-> W!Fresh] /\ s6 = {} /\ s7 = {} /\ s8 = {} /\ s9 = FALSE
      /\ s10 = {} /\ s11 = {}
  BY DEF W!Init
<1>2. W!Asked \in [st : {"sent", "ok", "lost"}, list : SUBSET Testers]
  BY DEF W!Asked
<1>3. W!Fresh \in [st : {"connecting", "up", "down"}, system : BOOLEAN]
  BY DEF W!Fresh
<1>4. W!Cardinality(s3) <= 1 /\ W!Cardinality(s10) <= 1
  BY <1>1, FleetOne
<1> QED  BY <1>1, <1>2, <1>3, <1>4 DEF FleetInv, W!FleetTypeOK, W!ReachedIsUp

\* The rows are those of the list, if there is one.
LEMMA FleetRows ==
  ASSUME W!FleetTypeOK
  PROVE  W!Rows \subseteq Testers
  BY DEF W!FleetTypeOK, W!Rows

LEMMA FleetStep == FleetInv /\ W!Next => FleetInv'
<1> SUFFICES ASSUME FleetInv, W!Next PROVE FleetInv'
  OBVIOUS
<1> DEFINE Edits == [t : Testers \ BuiltIn, st : {"sent", "ok", "failed"}]
           Loads == [st : {"sent", "ok", "lost"}, list : SUBSET Testers]
           Entry == [st : {"connecting", "up", "down"}, system : BOOLEAN]
           Sts   == {"sent", "ok", "lost"}
<1>1. /\ s1 \subseteq Testers /\ s2 \subseteq Testers
      /\ s3 \subseteq SUBSET Testers /\ W!Cardinality(s3) <= 1
      /\ s4 \subseteq Loads /\ s5 \in [Testers -> Entry] /\ s6 \subseteq Testers
      /\ s7 \subseteq W!Rows \X Sts /\ s8 \subseteq W!Rows
      /\ s9 \in BOOLEAN /\ W!Cardinality(s10) <= 1 /\ s10 \subseteq Edits /\ s11 \subseteq Edits
      /\ W!Rows \subseteq Testers
      /\ \A t \in s6 : t \in W!Rows /\ s5[t].st = "up"
  BY FleetRows DEF FleetInv, W!FleetTypeOK, W!ReachedIsUp
<1>2. ASSUME s1' \subseteq Testers, s2' \subseteq Testers, s3' = s3, s4' \subseteq Loads,
             s5' \in [Testers -> Entry], s7' \subseteq W!Rows \X Sts, s8' \subseteq W!Rows,
             s9' \in BOOLEAN, W!Cardinality(s10') <= 1, s10' \subseteq Edits, s11' \subseteq Edits,
             \A t \in s6' : t \in W!Rows /\ s5'[t].st = "up"
      PROVE  FleetInv'
  <2>1. W!Rows' = W!Rows
    BY <1>2 DEF W!Rows
  <2>2. s6' \subseteq Testers /\ s7' \subseteq Testers \X Sts
    BY <1>1, <1>2
  <2> QED  BY <1>1, <1>2, <2>1, <2>2 DEF FleetInv, W!FleetTypeOK, W!ReachedIsUp
<1> HIDE DEF Edits, Loads, Entry, Sts
<1>3. ASSUME UNCHANGED <<s3, s5, s6, s7, s8>>, s1' \subseteq Testers, s2' \subseteq Testers,
             s4' \subseteq Loads, s9' \in BOOLEAN, W!Cardinality(s10') <= 1,
             s10' \subseteq Edits, s11' \subseteq Edits
      PROVE  FleetInv'
  BY <1>1, <1>2, <1>3
<1>4. W!Asked \in Loads
  BY DEF W!Asked, Loads
<1>5. CASE W!AliveChanges
  BY <1>1, <1>3, <1>5 DEF W!AliveChanges, W!pollVars, W!editVars
<1>6. CASE W!ListHandled
  <2>1. [st |-> "ok", list |-> s1] \in Loads /\ [st |-> "lost", list |-> {}] \in Loads
    BY <1>1 DEF Loads
  <2>2. s4' \subseteq Loads
    BY <1>1, <1>6, <2>1 DEF W!ListHandled
  <2> QED  BY <1>1, <1>3, <1>6, <2>2 DEF W!ListHandled, W!hostVars, W!pollVars, W!editVars
<1>7. CASE W!Poll
  <2>1. s7' \subseteq W!Rows \X Sts
    BY <1>1, <1>7 DEF W!Poll, Sts
  <2> QED  BY <1>1, <1>2, <1>7, <2>1 DEF W!Poll, W!hostVars, W!editVars
<1>8. CASE W!OpenForm \/ W!CancelForm
  BY <1>1, <1>3, <1>8 DEF W!OpenForm, W!CancelForm, W!hostVars, W!pollVars
<1>9. ASSUME NEW l \in s4, W!ListRead(l) PROVE FleetInv'
  <2>1. s4' = s4 \ {l} /\ UNCHANGED <<s1, s2, s9, s10, s11>> /\ l.list \in SUBSET Testers
    BY <1>1, <1>9 DEF W!ListRead, W!hostVars, W!editVars, Loads
  <2>2. CASE l.st = "lost"
    <3>1. UNCHANGED <<s3, s5, s6, s7, s8>>
      BY <1>9, <2>2 DEF W!ListRead, W!pollVars
    <3> QED  BY <1>1, <1>3, <2>1, <3>1
  <2>3. CASE l.st # "lost"
    <3> DEFINE Told == l.list
    <3>1. s3' = {Told} /\ s6' = {} /\ s7' = Told \X {"sent"} /\ s8' = {} /\ s5' = s5
      BY <1>9, <2>3 DEF W!ListRead
    <3>2. Told \in SUBSET Testers
      BY <2>1
    <3> HIDE DEF Told
    <3>3. W!Rows' = Told
      BY <3>1 DEF W!Rows
    <3>4. W!Cardinality(s3') <= 1
      BY <3>1, FleetOne
    <3> QED  BY <1>1, <2>1, <3>1, <3>2, <3>3, <3>4 DEF FleetInv, W!FleetTypeOK, W!ReachedIsUp,
                Edits, Loads, Entry, Sts
  <2> QED  BY <2>2, <2>3
<1>10. ASSUME NEW t \in Testers, W!StatusHandled(t) PROVE FleetInv'
  <2>1. <<t, "sent">> \in s7 /\ UNCHANGED <<s1, s2, s3, s4, s5, s6, s8, s9, s10, s11>>
    BY <1>10 DEF W!StatusHandled, W!hostVars, W!editVars
  <2>2. t \in W!Rows
    BY <1>1, <2>1
  <2>3. s7' \subseteq W!Rows \X Sts
    BY <1>1, <1>10, <2>2 DEF W!StatusHandled, Sts
  <2> QED  BY <1>1, <1>2, <2>1, <2>3
<1>11. ASSUME NEW t \in Testers, W!StatusRead(t) PROVE FleetInv'
  <2>1. /\ <<t, "ok">> \in s7 /\ s7' = s7 \ {<<t, "ok">>}
        /\ s5' = [s5 EXCEPT ![t].st = "up"] /\ s6' = s6 \cup {t} /\ s8' \subseteq s8 \cup {t}
        /\ UNCHANGED <<s1, s2, s3, s4, s9, s10, s11>>
    BY <1>11 DEF W!StatusRead, W!hostVars, W!editVars
  <2>2. t \in W!Rows
    BY <1>1, <2>1
  <2>3. s5' \in [Testers -> Entry] /\ \A v \in Testers : s5'[v].st = "up" \/ (v # t /\ s5'[v] = s5[v])
    BY <1>1, <2>1 DEF Entry
  <2>4. s7' \subseteq W!Rows \X Sts /\ s8' \subseteq W!Rows
    BY <1>1, <2>1, <2>2
  <2>5. \A v \in s6' : v \in W!Rows /\ s5'[v].st = "up"
    BY <1>1, <2>1, <2>2, <2>3
  <2> QED  BY <1>1, <1>2, <2>1, <2>3, <2>4, <2>5
<1>12. ASSUME NEW t \in Testers, W!StatusLost(t) PROVE FleetInv'
  <2>1. /\ s7' = s7 \ {<<t, "lost">>}
        /\ s5' = [s5 EXCEPT ![t].st = "down"] /\ s6' = s6 \ {t}
        /\ UNCHANGED <<s1, s2, s3, s4, s8, s9, s10, s11>>
    BY <1>12 DEF W!StatusLost, W!hostVars, W!editVars
  <2>2. s5' \in [Testers -> Entry] /\ \A v \in Testers : v # t => s5'[v] = s5[v]
    BY <1>1, <2>1 DEF Entry
  <2>3. s7' \subseteq W!Rows \X Sts
    BY <1>1, <2>1
  <2>4. \A v \in s6' : v \in W!Rows /\ s5'[v].st = "up"
    BY <1>1, <2>1, <2>2
  <2> QED  BY <1>1, <1>2, <2>1, <2>2, <2>3, <2>4
<1>13. ASSUME NEW t \in Testers, W!SystemRead(t) PROVE FleetInv'
  <2>1. /\ s8' = s8 \ {t} /\ (s5' = s5 \/ s5' = [s5 EXCEPT ![t].system = TRUE])
        /\ UNCHANGED <<s1, s2, s3, s4, s6, s7, s9, s10, s11>>
    BY <1>13 DEF W!SystemRead, W!hostVars, W!editVars
  <2>2. s5' \in [Testers -> Entry] /\ \A v \in Testers : s5'[v].st = s5[v].st
    <3>1. CASE s5' = s5
      BY <1>1, <3>1
    <3>2. CASE s5' = [s5 EXCEPT ![t].system = TRUE]
      <4>1. s5[t] \in Entry
        BY <1>1
      <4>2. [s5[t] EXCEPT !.system = TRUE] \in Entry /\ [s5[t] EXCEPT !.system = TRUE].st = s5[t].st
        BY <4>1 DEF Entry
      <4> QED  BY <1>1, <3>2, <4>2
    <3> QED  BY <2>1, <3>1, <3>2
  <2>3. \A v \in s6' : v \in W!Rows /\ s5'[v].st = "up"
    BY <1>1, <2>1, <2>2
  <2> QED  BY <1>1, <1>2, <2>1, <2>2, <2>3
<1>14. ASSUME NEW t \in Testers, W!HandleRemove(t) PROVE FleetInv'
  <2>1. /\ t \notin BuiltIn /\ s11' = s11 \cup {[t |-> t, st |-> "sent"]}
        /\ UNCHANGED <<s1, s2, s3, s4, s5, s6, s7, s8, s9, s10>>
    BY <1>14 DEF W!HandleRemove, W!FleetRow, W!hostVars, W!pollVars
  <2>2. s11' \subseteq Edits
    BY <1>1, <2>1 DEF Edits
  <2> QED  BY <1>1, <1>3, <2>1, <2>2
<1>15. ASSUME NEW t \in Testers \ BuiltIn, W!HandleAdd(t) PROVE FleetInv'
  <2>1. /\ s10' = {[t |-> t, st |-> "sent"]}
        /\ UNCHANGED <<s1, s2, s3, s4, s5, s6, s7, s8, s9, s11>>
    BY <1>15 DEF W!HandleAdd, W!hostVars, W!pollVars
  <2>2. s10' \subseteq Edits /\ W!Cardinality(s10') <= 1
    <3>1. s10' \subseteq Edits
      BY <2>1 DEF Edits
    <3> QED  BY <2>1, <3>1, FleetOne
  <2> QED  BY <1>1, <1>3, <2>1, <2>2
<1>16. ASSUME NEW a \in s10, W!AddHandled(a) PROVE FleetInv'
  <2>1. PICK st \in {"ok", "failed"} : s10' = {[a EXCEPT !.st = st]}
    BY <1>16 DEF W!AddHandled
  <2>2. s10' \subseteq Edits
    BY <1>1, <2>1 DEF Edits
  <2>3. W!Cardinality(s10') <= 1
    BY <2>1, FleetOne
  <2>4. a.t \in Testers
    BY <1>1 DEF Edits
  <2>5. s1' \subseteq Testers /\ UNCHANGED <<s2, s3, s4, s5, s6, s7, s8, s9, s11>>
    BY <1>1, <1>16, <2>4 DEF W!AddHandled, W!pollVars
  <2> QED  BY <1>1, <1>3, <2>2, <2>3, <2>5
<1>17. ASSUME NEW a \in s10, W!AddAnswered(a) PROVE FleetInv'
  <2>1. /\ s10' = {} /\ s4' \subseteq s4 \cup {W!Asked} /\ s9' \in BOOLEAN
        /\ UNCHANGED <<s1, s2, s3, s5, s6, s7, s8, s11>>
    BY <1>1, <1>17 DEF W!AddAnswered, W!hostVars, W!pollVars
  <2>2. W!Cardinality(s10') <= 1
    BY <2>1, FleetOne
  <2> QED  BY <1>1, <1>3, <1>4, <2>1, <2>2
<1>18. ASSUME NEW r \in s11, W!RemoveHandled(r) PROVE FleetInv'
  <2>1. PICK st \in {"ok", "failed"} : s11' = (s11 \ {r}) \cup {[r EXCEPT !.st = st]}
    BY <1>18 DEF W!RemoveHandled
  <2>2. s11' \subseteq Edits
    BY <1>1, <2>1 DEF Edits
  <2>3. s1' \subseteq Testers /\ UNCHANGED <<s2, s3, s4, s5, s6, s7, s8, s9, s10>>
    BY <1>1, <1>18 DEF W!RemoveHandled, W!pollVars
  <2> QED  BY <1>1, <1>3, <2>2, <2>3
<1>19. ASSUME NEW r \in s11, W!RemoveAnswered(r) PROVE FleetInv'
  <2>1. /\ s11' = s11 \ {r} /\ s4' \subseteq s4 \cup {W!Asked}
        /\ UNCHANGED <<s1, s2, s3, s5, s6, s7, s8, s9, s10>>
    BY <1>19 DEF W!RemoveAnswered, W!hostVars, W!pollVars
  <2> QED  BY <1>1, <1>3, <1>4, <2>1
<1> QED  BY <1>5, <1>6, <1>7, <1>8, <1>9, <1>10, <1>11, <1>12, <1>13, <1>14, <1>15, <1>16, <1>17, <1>18, <1>19 DEF W!Next

-----------------------------------------------------------------------------
(* runLimited, which the subscribers' pages share: its size, next, at,     *)
(* done, failed and finished are their s1 .. s6.                           *)

Run == INSTANCE Bulk WITH size <- s1, next <- s2, at <- s3, done <- s4, failed <- s5, finished <- s6

pool == <<s1, s2, s3, s4, s5, s6>>

\* Calls of runLimited, one after another: each with items of its own.
BulkNext ==
    \/ Run!BulkEnded /\ \E n \in Nat : Run!BulkStart(n)
    \/ \E w \in Run!Workers, ok \in BOOLEAN : Run!BulkFinish(w, ok)
BulkSpec == Run!NoBulk /\ [][BulkNext]_pool

\* The items at work or done are the first ones, and no worker has ended while one is left.
BulkInv ==
    /\ s1 \in Nat /\ s2 \in 0 .. s1
    /\ s3 \in [Run!Workers -> 0 .. s2]
    /\ s6 \subseteq 1 .. s2
    /\ \A v, w \in Run!Workers : s3[v] # 0 /\ s3[v] = s3[w] => v = w
    /\ \A w \in Run!Workers : s3[w] \notin s6
    /\ \A i \in 1 .. s2 : i \in s6 \/ \E w \in Run!Workers : s3[w] = i
    /\ s2 < s1 => \A w \in Run!Workers : s3[w] # 0

\* Before the first call nothing is at work.
LEMMA BulkInvInit == ASSUME Limit \in Nat \ {0} PROVE Run!NoBulk => BulkInv
BY DEF Run!NoBulk, BulkInv, Run!Workers

\* A call's workers start with the first items, one each.
LEMMA BulkStartInv ==
    ASSUME Limit \in Nat \ {0}, NEW n \in Nat, Run!BulkStart(n)
    PROVE  BulkInv'
<1>1. /\ s1' = n /\ s6' = {}
      /\ s2' = IF n < Limit THEN n ELSE Limit
      /\ s3' = [w \in Run!Workers |-> IF w <= n THEN w ELSE 0]
  BY DEF Run!BulkStart
<1>2. \A w \in Run!Workers : s3'[w] = IF w <= n THEN w ELSE 0
  BY <1>1
<1>3. s1' \in Nat /\ s2' \in 0 .. s1' /\ s3' \in [Run!Workers -> 0 .. s2'] /\ s6' \subseteq 1 .. s2'
  BY <1>1 DEF Run!Workers
<1>4. \A v, w \in Run!Workers : s3'[v] # 0 /\ s3'[v] = s3'[w] => v = w
  BY <1>2 DEF Run!Workers
<1>5. \A w \in Run!Workers : s3'[w] \notin s6'
  BY <1>1
<1>6. \A i \in 1 .. s2' : \E w \in Run!Workers : s3'[w] = i
  <2> TAKE i \in 1 .. s2'
  <2>1. i \in Run!Workers /\ i <= n
    BY <1>1 DEF Run!Workers
  <2> QED BY <2>1, <1>2
<1>7. s2' < s1' => \A w \in Run!Workers : s3'[w] # 0
  BY <1>1, <1>2 DEF Run!Workers
<1> QED BY <1>3, <1>4, <1>5, <1>6, <1>7 DEF BulkInv

\* A worker that finishes takes the item after the last one taken, or there is none.
LEMMA BulkFinishInv ==
    ASSUME Limit \in Nat \ {0}, BulkInv, NEW u \in Run!Workers, NEW ok \in BOOLEAN, Run!BulkFinish(u, ok)
    PROVE  BulkInv'
<1>1. /\ s3[u] # 0 /\ s1' = s1 /\ s6' = s6 \cup {s3[u]}
      /\ Run!Take(u)
  BY DEF Run!BulkFinish
<1>2. /\ s1 \in Nat /\ s2 \in 0 .. s1 /\ s3 \in [Run!Workers -> 0 .. s2] /\ s6 \subseteq 1 .. s2
      /\ s3[u] \in 1 .. s2
  BY <1>1 DEF BulkInv
<1>3. CASE s2 < s1
  <2>1. s2' = s2 + 1 /\ s3' = [s3 EXCEPT ![u] = s2 + 1]
    BY <1>1, <1>3 DEF Run!Take
  <2>2. \A w \in Run!Workers : s3'[w] = IF w = u THEN s2 + 1 ELSE s3[w]
    BY <1>2, <2>1
  <2>3. s1' \in Nat /\ s2' \in 0 .. s1' /\ s3' \in [Run!Workers -> 0 .. s2'] /\ s6' \subseteq 1 .. s2'
    <3>1. s1' \in Nat /\ s2' \in 0 .. s1'
      BY <1>1, <1>2, <1>3, <2>1
    <3>2. 0 .. s2 \subseteq 0 .. s2' /\ 1 .. s2 \subseteq 1 .. s2' /\ s2 + 1 \in 0 .. s2'
      BY <1>2, <2>1
    <3>3. s3' \in [Run!Workers -> 0 .. s2']
      BY <1>2, <2>1, <3>2
    <3>4. s6' \subseteq 1 .. s2'
      BY <1>1, <1>2, <3>2
    <3> QED BY <3>1, <3>3, <3>4
  <2>4. \A v, w \in Run!Workers : s3'[v] # 0 /\ s3'[v] = s3'[w] => v = w
    BY <1>2, <2>2 DEF BulkInv
  <2>5. \A w \in Run!Workers : s3'[w] \notin s6'
    BY <1>1, <1>2, <2>2 DEF BulkInv
  <2>6. \A i \in 1 .. s2' : i \in s6' \/ \E w \in Run!Workers : s3'[w] = i
    BY <1>1, <1>2, <2>1, <2>2 DEF BulkInv
  <2>7. s2' < s1' => \A w \in Run!Workers : s3'[w] # 0
    BY <1>2, <1>3, <2>2 DEF BulkInv
  <2> QED BY <2>3, <2>4, <2>5, <2>6, <2>7 DEF BulkInv
<1>4. CASE ~(s2 < s1)
  <2>1. s2' = s2 /\ s3' = [s3 EXCEPT ![u] = 0]
    BY <1>1, <1>4 DEF Run!Take
  <2>2. \A w \in Run!Workers : s3'[w] = IF w = u THEN 0 ELSE s3[w]
    BY <1>2, <2>1
  <2>3. s1' \in Nat /\ s2' \in 0 .. s1' /\ s3' \in [Run!Workers -> 0 .. s2'] /\ s6' \subseteq 1 .. s2'
    <3>1. 0 \in 0 .. s2
      BY <1>2
    <3>2. s3' \in [Run!Workers -> 0 .. s2']
      BY <1>2, <2>1, <3>1
    <3>3. s6' \subseteq 1 .. s2'
      BY <1>1, <1>2, <2>1
    <3> QED BY <1>1, <1>2, <2>1, <3>2, <3>3
  <2>4. \A v, w \in Run!Workers : s3'[v] # 0 /\ s3'[v] = s3'[w] => v = w
    BY <2>2 DEF BulkInv
  <2>5. \A w \in Run!Workers : s3'[w] \notin s6'
    BY <1>1, <1>2, <2>2 DEF BulkInv
  <2>6. \A i \in 1 .. s2' : i \in s6' \/ \E w \in Run!Workers : s3'[w] = i
    BY <1>1, <1>2, <2>1, <2>2 DEF BulkInv
  <2>7. ~(s2' < s1')
    BY <1>1, <1>4, <2>1
  <2> QED BY <2>3, <2>4, <2>5, <2>6, <2>7 DEF BulkInv
<1> QED BY <1>3, <1>4

\* The strengthening says what the properties say.
LEMMA BulkInvImplies == ASSUME Limit \in Nat \ {0}, BulkInv PROVE Run!EachItemOnce
<1>1. 1 .. s2 = s6 \cup ({s3[w] : w \in Run!Workers} \ {0})
  <2>1. ASSUME NEW i \in 1 .. s2 PROVE i \in s6 \cup ({s3[w] : w \in Run!Workers} \ {0})
    BY <2>1 DEF BulkInv
  <2>2. ASSUME NEW w \in Run!Workers, s3[w] # 0 PROVE s3[w] \in 1 .. s2
    BY <2>2 DEF BulkInv
  <2>3. s6 \subseteq 1 .. s2
    BY DEF BulkInv
  <2> QED BY <2>1, <2>2, <2>3
<1>2. s2 < s1 => ~Run!BulkEnded
  <2>1. 1 \in Run!Workers
    BY DEF Run!Workers
  <2> QED BY <2>1 DEF BulkInv, Run!BulkEnded
<1> QED BY <1>1, <1>2 DEF BulkInv, Run!EachItemOnce

\* bulk.ts:12-14: "calls run for every item": none is run twice, none is left when the
\* workers have ended, whatever items there are, whatever the limit and whichever call
\* ends first.
THEOREM EachItemOnceAlways ==
    ASSUME Limit \in Nat \ {0}
    PROVE  BulkSpec => []Run!EachItemOnce
<1>1. Run!NoBulk => BulkInv
  BY BulkInvInit
<1>2. BulkInv /\ [BulkNext]_pool => BulkInv'
  <2> SUFFICES ASSUME BulkInv, [BulkNext]_pool PROVE BulkInv'
    OBVIOUS
  <2>1. ASSUME NEW n \in Nat, Run!BulkStart(n) PROVE BulkInv'
    BY <2>1, BulkStartInv
  <2>2. ASSUME NEW w \in Run!Workers, NEW ok \in BOOLEAN, Run!BulkFinish(w, ok) PROVE BulkInv'
    BY <2>2, BulkFinishInv
  <2>3. CASE UNCHANGED pool
    BY <2>3 DEF pool, BulkInv
  <2> QED BY <2>1, <2>2, <2>3 DEF BulkNext
<1>3. BulkInv => Run!EachItemOnce
  BY BulkInvImplies
<1> QED BY <1>1, <1>2, <1>3, PTL DEF BulkSpec

\* What the pages keep of runLimited.
PoolInv == BulkInv /\ s4 \in Nat /\ s5 \subseteq s6

LEMMA LimitOK == Limit \in Nat \ {0}
  BY PagesOK

LEMMA PoolSays ==
  ASSUME PoolInv
  PROVE  /\ U!BulkTypeOK /\ U!EachItemOnce /\ F!EachItemOnce
         /\ s1 \in Nat /\ s5 \subseteq 1 .. s1
<1>1. Run!EachItemOnce
  BY LimitOK, BulkInvImplies DEF PoolInv
<1>2. U!EachItemOnce /\ F!EachItemOnce
  BY <1>1 DEF Run!EachItemOnce, Run!Workers, Run!BulkEnded, U!EachItemOnce, U!Workers, U!BulkEnded,
     F!EachItemOnce, F!Workers, F!BulkEnded
<1>3. s1 \in Nat /\ s2 \in 0 .. s1 /\ s3 \in [U!Workers -> 0 .. s2] /\ s6 \subseteq 1 .. s2
  BY DEF PoolInv, BulkInv, Run!Workers, U!Workers
<1>4. 0 .. s2 \subseteq 0 .. s1 /\ 1 .. s2 \subseteq 1 .. s1
  BY <1>3
<1>5. s3 \in [U!Workers -> 0 .. s1]
  BY <1>3, <1>4
<1> QED  BY <1>2, <1>3, <1>4, <1>5 DEF U!BulkTypeOK, PoolInv

LEMMA PoolInit == U!NoBulk \/ F!NoBulk => PoolInv
<1> SUFFICES ASSUME U!NoBulk \/ F!NoBulk PROVE PoolInv
  OBVIOUS
<1>1. Run!NoBulk
  BY DEF U!NoBulk, U!Workers, F!NoBulk, F!Workers, Run!NoBulk, Run!Workers
<1>2. BulkInv
  BY <1>1, LimitOK, BulkInvInit
<1> QED  BY <1>1, <1>2 DEF PoolInv, Run!NoBulk

LEMMA PoolStarts ==
  ASSUME NEW n \in Nat, U!BulkStart(n) \/ F!BulkStart(n)
  PROVE  PoolInv' /\ s1' = n
<1>1. Run!BulkStart(n)
  BY DEF U!BulkStart, U!Workers, F!BulkStart, F!Workers, Run!BulkStart, Run!Workers
<1>2. BulkInv'
  BY <1>1, LimitOK, BulkStartInv
<1> QED  BY <1>1, <1>2 DEF PoolInv, Run!BulkStart

LEMMA PoolGoesOn ==
  ASSUME PoolInv, NEW w \in Run!Workers, NEW ok \in BOOLEAN, U!BulkFinish(w, ok) \/ F!BulkFinish(w, ok)
  PROVE  PoolInv' /\ s1' = s1
<1>1. Run!BulkFinish(w, ok)
  BY DEF U!BulkFinish, U!Take, F!BulkFinish, F!Take, Run!BulkFinish, Run!Take
<1>2. BulkInv'
  BY <1>1, LimitOK, BulkFinishInv DEF PoolInv
<1> QED  BY <1>1, <1>2 DEF PoolInv, Run!BulkFinish

LEMMA PoolStays == PoolInv /\ UNCHANGED <<s1, s2, s3, s4, s5, s6>> => PoolInv'
  BY DEF PoolInv, BulkInv

-----------------------------------------------------------------------------
(* The images.                                                             *)

\* While a question is open, no image it is about is in an action.
ImagesInv ==
    /\ I!ImagesTypeOK /\ I!OneActionPerImage
    /\ s5 # None => /\ s2 \subseteq Items
                    /\ \A i \in Items : i = s5 \/ s5 = 0 => s3[i] = "no"

LEMMA ImagesInit == I!Init => ImagesInv
<1> SUFFICES ASSUME I!Init PROVE ImagesInv
  OBVIOUS
<1>1. s6 \in 0 .. ImageEvents
  BY EventsOK DEF I!Init
<1>2. I!Reading \in I!Jobs /\ I!Reading.mine = {} /\ I!Reading.todo = {}
  BY DEF I!Reading, I!Job, I!Jobs
<1>3. s1 \subseteq Items /\ s2 = None /\ s3 = [i \in Items |-> "no"] /\ s4 = {I!Reading} /\ s5 = None
  BY DEF I!Init
<1> QED  BY <1>1, <1>2, <1>3 DEF ImagesInv, I!ImagesTypeOK, I!OneActionPerImage

LEMMA ImagesEvent == I!ImagesTypeOK /\ (I!Happens \/ UNCHANGED s6) => s6' \in 0 .. ImageEvents
  BY EventsOK DEF I!Happens, I!ImagesTypeOK

\* An action begins on images in none.
LEMMA BegunApart ==
  ASSUME ImagesInv, NEW kind \in {"pull", "clear", "missing", "all"}, NEW is \in SUBSET Items,
         \A i \in is : s3[i] = "no", I!Begin(kind, is), UNCHANGED <<s1, s2>>, s5' = None,
         s6' \in 0 .. ImageEvents
  PROVE  ImagesInv'
<1> DEFINE k == I!Job(kind, is)
<1>1. k \in I!Jobs /\ k.mine = is /\ k.todo = is /\ k.kind = kind
  BY DEF I!Job, I!Jobs
<1>2. s4' = s4 \cup {k} /\ s3' = [i \in Items |-> IF i \in is THEN I!Flag(kind) ELSE s3[i]]
  BY DEF I!Begin
<1> HIDE DEF k
<1>3. I!Flag(kind) \in {"pull", "clear"}
  BY DEF I!Flag
<1>4. s3' \in [Items -> {"no", "pull", "clear"}] /\ s4' \subseteq I!Jobs
  BY <1>1, <1>2, <1>3 DEF ImagesInv, I!ImagesTypeOK
<1>5. \A j \in s4 : j.mine \subseteq Items /\ j.todo \subseteq j.mine /\ \A i \in j.mine : s3[i] = I!Flag(j.kind)
  BY DEF ImagesInv, I!OneActionPerImage, I!ImagesTypeOK, I!Jobs
<1>6. \A j \in s4 : j.mine \cap is = {}
  BY <1>5 DEF I!Flag
<1>7. I!OneActionPerImage'
  <2>1. \A j, l \in s4' : j # l => j.mine \cap l.mine = {}
    BY <1>1, <1>2, <1>6 DEF ImagesInv, I!OneActionPerImage
  <2>2. \A j \in s4' : j.todo \subseteq j.mine /\ \A i \in j.mine : s3'[i] = I!Flag(j.kind)
    BY <1>1, <1>2, <1>5, <1>6
  <2> QED  BY <2>1, <2>2 DEF I!OneActionPerImage, I!Flag
<1> QED  BY <1>4, <1>7 DEF ImagesInv, I!ImagesTypeOK

\* Action j goes on as the one of Ks, with fewer images, or ends, and takes back the flags
\* of the images is, which are its own.
GoesOn(j, Ks, is) ==
    /\ Ks \subseteq I!Jobs /\ s4' = (s4 \ {j}) \cup Ks /\ \A k, l \in Ks : k = l
    /\ I!Unflag(is) /\ is \subseteq j.mine
    /\ \A k \in Ks : k.kind = j.kind /\ k.mine \subseteq j.mine \ is /\ k.todo \subseteq k.mine
    /\ s1' \subseteq Items /\ s5' = s5 /\ (s2' = s2 \/ s2' \subseteq Items) /\ s6' \in 0 .. ImageEvents

LEMMA OthersKeepFlags ==
  ASSUME ImagesInv, NEW j \in s4, NEW Ks, NEW is, GoesOn(j, Ks, is)
  PROVE  ImagesInv'
<1> USE DEF GoesOn
<1>1. s3' = [i \in Items |-> IF i \in is THEN "no" ELSE s3[i]]
  BY DEF I!Unflag
<1>2. s3' \in [Items -> {"no", "pull", "clear"}] /\ s4' \subseteq I!Jobs
  BY <1>1 DEF ImagesInv, I!ImagesTypeOK
<1>3. \A k \in s4 : /\ k.mine \subseteq Items /\ k.todo \subseteq k.mine
                    /\ \A i \in k.mine : s3[i] = I!Flag(k.kind)
                    /\ k # j => k.mine \cap j.mine = {}
  BY DEF ImagesInv, I!OneActionPerImage, I!ImagesTypeOK, I!Jobs
<1>4. \A k \in s4' : k \in Ks \/ (k \in s4 /\ k # j)
  OBVIOUS
<1>5. \A k, l \in s4' : k # l => k.mine \cap l.mine = {}
  <2> SUFFICES ASSUME NEW k \in s4', NEW l \in s4', k # l PROVE k.mine \cap l.mine = {}
    OBVIOUS
  <2>1. CASE k \in s4 /\ k # j /\ l \in s4 /\ l # j
    BY <2>1 DEF ImagesInv, I!OneActionPerImage
  <2>2. CASE k \in Ks /\ l \in s4 /\ l # j
    <3>1. k.mine \subseteq j.mine /\ l.mine \cap j.mine = {}
      BY <1>3, <2>2
    <3> QED  BY <3>1
  <2>3. CASE l \in Ks /\ k \in s4 /\ k # j
    <3>1. l.mine \subseteq j.mine /\ k.mine \cap j.mine = {}
      BY <1>3, <2>3
    <3> QED  BY <3>1
  <2> QED  BY <1>4, <2>1, <2>2, <2>3
<1>6. \A k \in s4' : k.todo \subseteq k.mine /\ \A i \in k.mine : s3'[i] = I!Flag(k.kind)
  <2> SUFFICES ASSUME NEW k \in s4'
               PROVE  k.todo \subseteq k.mine /\ \A i \in k.mine : s3'[i] = I!Flag(k.kind)
    OBVIOUS
  <2>1. CASE k \in Ks
    <3>1. k.todo \subseteq k.mine /\ k.kind = j.kind /\ k.mine \subseteq j.mine \ is
      BY <2>1
    <3>2. \A i \in k.mine : i \in Items /\ i \notin is /\ s3[i] = I!Flag(j.kind)
      BY <1>3, <3>1
    <3> QED  BY <1>1, <3>1, <3>2
  <2>2. CASE k \in s4 /\ k # j
    <3>1. \A i \in k.mine : i \in Items /\ i \notin is /\ s3[i] = I!Flag(k.kind)
      BY <1>3, <2>2
    <3> QED  BY <1>1, <1>3, <2>2, <3>1
  <2> QED  BY <1>4, <2>1, <2>2
<1>7. I!OneActionPerImage'
  BY <1>5, <1>6 DEF I!OneActionPerImage, I!Flag
<1>8. s5' # None => s2' \subseteq Items /\ \A i \in Items : i = s5' \/ s5' = 0 => s3'[i] = "no"
  BY <1>1 DEF ImagesInv
<1> QED  BY <1>2, <1>7, <1>8 DEF ImagesInv, I!ImagesTypeOK

LEMMA ImagesStep == ImagesInv /\ I!Next => ImagesInv'
<1> SUFFICES ASSUME ImagesInv, I!Next PROVE ImagesInv'
  OBVIOUS
<1>1. /\ I!ImagesTypeOK /\ s1 \subseteq Items /\ (s2 = None \/ s2 \subseteq Items)
      /\ s3 \in [Items -> {"no", "pull", "clear"}] /\ s4 \subseteq I!Jobs /\ s5 \in Items \cup {0, None}
  BY DEF ImagesInv, I!ImagesTypeOK
<1>2. CASE I!PullMissing
  <2>1. /\ s5 = None /\ I!Missing \subseteq Items /\ \A i \in I!Missing : s3[i] = "no"
        /\ I!Begin("missing", I!Missing) /\ UNCHANGED <<s1, s2, s5>> /\ s6' \in 0 .. ImageEvents
    BY <1>1, <1>2, ImagesEvent DEF I!PullMissing, I!Shown, I!Missing, I!AnyPending
  <2> QED  BY <2>1, BegunApart
<1>3. ASSUME NEW i \in Items, I!HandlePull(i) PROVE ImagesInv'
  <2>1. /\ s5 = None /\ {i} \subseteq Items /\ \A l \in {i} : s3[l] = "no"
        /\ I!Begin("pull", {i}) /\ UNCHANGED <<s1, s2, s5>> /\ s6' \in 0 .. ImageEvents
    BY <1>1, <1>3, ImagesEvent DEF I!HandlePull, I!Shown
  <2> QED  BY <2>1, BegunApart
<1>4. CASE I!AskClear
  <2>1. s6' \in 0 .. ImageEvents /\ UNCHANGED <<s1, s2, s3, s4>> /\ s2 # None
    BY <1>1, <1>4, ImagesEvent DEF I!AskClear, I!Shown
  <2>2. \/ s5' \in s2 /\ s3[s5'] = "no"
        \/ s5' = 0 /\ \A i \in Items : s3[i] = "no"
    BY <1>4 DEF I!AskClear, I!AnyPending
  <2>3. 0 \notin Items
    BY PagesOK
  <2>4. /\ s5' \in Items \cup {0, None} /\ s2' \subseteq Items
        /\ \A i \in Items : i = s5' \/ s5' = 0 => s3'[i] = "no"
    BY <1>1, <2>1, <2>2, <2>3
  <2> QED  BY <2>1, <2>4 DEF ImagesInv, I!ImagesTypeOK, I!OneActionPerImage, I!Flag
<1>5. CASE I!CancelClear
  BY <1>1, <1>5 DEF I!CancelClear, ImagesInv, I!ImagesTypeOK, I!OneActionPerImage, I!Flag
<1>6. CASE I!HandleConfirmClear
  <2>1. s5 # None /\ s5' = None /\ UNCHANGED <<s1, s2, s6>> /\ s6' \in 0 .. ImageEvents
    BY <1>1, <1>6 DEF I!HandleConfirmClear, I!ImagesTypeOK
  <2>2. s2 \subseteq Items /\ \A i \in Items : i = s5 \/ s5 = 0 => s3[i] = "no"
    BY <2>1 DEF ImagesInv
  <2>3. CASE s5 = 0 /\ s2 = {}
    <3>1. UNCHANGED <<s3, s4>>
      BY <1>6, <2>3 DEF I!HandleConfirmClear
    <3> QED  BY <1>1, <2>1, <3>1 DEF ImagesInv, I!ImagesTypeOK, I!OneActionPerImage, I!Flag
  <2>4. CASE s5 = 0 /\ s2 # {}
    <3>1. I!Begin("all", s2)
      BY <1>6, <2>4 DEF I!HandleConfirmClear
    <3> QED  BY <2>1, <2>2, <2>4, <3>1, BegunApart
  <2>5. CASE s5 # 0
    <3>1. I!Begin("clear", {s5}) /\ s5 \in Items
      BY <1>1, <1>6, <2>1, <2>5 DEF I!HandleConfirmClear
    <3>2. {s5} \subseteq Items /\ \A i \in {s5} : s3[i] = "no"
      BY <2>2, <3>1
    <3> QED  BY <2>1, <3>1, <3>2, BegunApart
  <2> QED  BY <2>3, <2>4, <2>5
<1>7. CASE I!Refresh
  <2>1. /\ s4' = s4 \cup {I!Reading} /\ UNCHANGED <<s1, s2, s3, s5>> /\ s6' \in 0 .. ImageEvents
    BY <1>1, <1>7, ImagesEvent DEF I!Refresh
  <2>2. I!Reading \in I!Jobs /\ I!Reading.mine = {} /\ I!Reading.todo = {}
    BY DEF I!Reading, I!Job, I!Jobs
  <2>3. I!OneActionPerImage'
    BY <2>1, <2>2 DEF ImagesInv, I!OneActionPerImage, I!Flag
  <2> QED  BY <1>1, <2>1, <2>2, <2>3 DEF ImagesInv, I!ImagesTypeOK
<1>8. ASSUME NEW j \in s4, I!ListHandled(j) PROVE ImagesInv'
  <2> DEFINE k == [j EXCEPT !.step = "read", !.list = s1]
  <2>1. j \in I!Jobs /\ j.todo \subseteq j.mine
    BY <1>1 DEF ImagesInv, I!OneActionPerImage
  <2>2. k \in I!Jobs /\ k.kind = j.kind /\ k.mine = j.mine /\ k.todo = j.todo
    BY <1>1, <2>1 DEF I!Jobs
  <2>3. s4' = (s4 \ {j}) \cup {k} /\ UNCHANGED <<s1, s2, s3, s5, s6>>
    BY <1>8 DEF I!ListHandled, I!Becomes
  <2> HIDE DEF k
  <2>4. I!Unflag({}) /\ s6' \in 0 .. ImageEvents
    BY <1>1, <2>3 DEF I!Unflag, I!ImagesTypeOK
  <2>5. /\ {k} \subseteq I!Jobs /\ {} \subseteq j.mine /\ \A a, b \in {k} : a = b
        /\ \A l \in {k} : l.kind = j.kind /\ l.mine \subseteq j.mine \ {} /\ l.todo \subseteq l.mine
    BY <2>1, <2>2
  <2>6. GoesOn(j, {k}, {})
    BY <1>1, <2>3, <2>4, <2>5 DEF GoesOn
  <2> QED  BY <2>6, OthersKeepFlags
<1>9. ASSUME NEW j \in s4, I!ListShown(j) PROVE ImagesInv'
  <2>1. /\ s4' = (s4 \ {j}) \cup {} /\ I!Unflag(j.mine) /\ UNCHANGED <<s1, s5, s6>>
        /\ j.list \subseteq Items
    BY <1>1, <1>9 DEF I!ListShown, I!Jobs
  <2>2. s2' \subseteq Items /\ s6' \in 0 .. ImageEvents
    BY <1>1, <1>9, <2>1 DEF I!ListShown, I!ImagesTypeOK
  <2>3. GoesOn(j, {}, j.mine)
    BY <1>1, <2>1, <2>2 DEF GoesOn
  <2> QED  BY <2>3, OthersKeepFlags
<1>10. ASSUME NEW j \in s4, NEW i \in Items, I!Called(j, i) PROVE ImagesInv'
  <2>1. /\ i \in j.todo /\ UNCHANGED <<s2, s5, s6>> /\ j \in I!Jobs
        /\ j.todo \subseteq j.mine
    BY <1>1, <1>10 DEF I!Called, I!Turn, ImagesInv, I!OneActionPerImage
  <2>2. s1' \subseteq Items /\ s6' \in 0 .. ImageEvents
    BY <1>1, <1>10, <2>1 DEF I!Called, I!ImagesTypeOK
  <2> DEFINE k == [j EXCEPT !.todo = @ \ {i}, !.mine = IF j.kind = "missing" THEN @ \ {i} ELSE @,
                            !.step = IF j.todo = {i} THEN "reading" ELSE @]
  <2>3. \/ s4' = s4 \ {j} /\ I!Unflag({i})
        \/ I!Becomes(j, k) /\ I!Unflag(j.mine \ k.mine)
    BY <1>10 DEF I!Called
  <2>4. k \in I!Jobs /\ k.kind = j.kind /\ k.mine \subseteq j.mine /\ k.todo \subseteq k.mine
    <3>1. /\ k.kind = j.kind /\ k.todo = j.todo \ {i}
          /\ k.mine = IF j.kind = "missing" THEN j.mine \ {i} ELSE j.mine
          /\ k \in I!Jobs
      BY <2>1 DEF I!Jobs
    <3> HIDE DEF k
    <3> QED  BY <2>1, <3>1
  <2> HIDE DEF k
  <2>5. CASE s4' = s4 \ {j} /\ I!Unflag({i})
    <3>1. s4' = (s4 \ {j}) \cup {} /\ {i} \subseteq j.mine
      BY <2>1, <2>5
    <3>2. GoesOn(j, {}, {i})
      BY <2>1, <2>2, <2>5, <3>1 DEF GoesOn
    <3> QED  BY <3>2, OthersKeepFlags
  <2>6. CASE I!Becomes(j, k) /\ I!Unflag(j.mine \ k.mine)
    <3>1. /\ s4' = (s4 \ {j}) \cup {k} /\ {k} \subseteq I!Jobs /\ \A a, b \in {k} : a = b
          /\ j.mine \ k.mine \subseteq j.mine
          /\ \A l \in {k} : l.kind = j.kind /\ l.mine \subseteq j.mine \ (j.mine \ k.mine) /\ l.todo \subseteq l.mine
      BY <2>4, <2>6 DEF I!Becomes
    <3>2. GoesOn(j, {k}, j.mine \ k.mine)
      BY <2>1, <2>2, <2>6, <3>1 DEF GoesOn
    <3> QED  BY <3>2, OthersKeepFlags
  <2> QED  BY <2>3, <2>5, <2>6
<1> QED  BY <1>2, <1>3, <1>4, <1>5, <1>6, <1>7, <1>8, <1>9, <1>10 DEF I!Next

-----------------------------------------------------------------------------
(* The subscribers.                                                        *)

LEMMA SubsCount == \A Q : U!Cardinality(Q) = Cardinality(Q)
  BY DEF U!Cardinality, Cardinality

LEMMA SubsNth == \A Q, k : U!Nth(Q, k) = Nth(Q, k)
  BY SubsCount DEF U!Nth, Nth

LEMMA SortedOK ==
  ASSUME NEW Q \in SUBSET Items
  PROVE  U!Sorted(Q) \in Seq(Q) /\ Len(U!Sorted(Q)) = Cardinality(Q)
<1> DEFINE n == Cardinality(Q)
<1>1. IsFiniteSet(Q) /\ Q \in SUBSET Int
  BY PartFinite, PagesOK
<1>2. n \in Nat /\ \A k \in 1 .. n : Nth(Q, k) \in Q
  BY <1>1, NthOK
<1>3. U!Sorted(Q) = [k \in 1 .. n |-> Nth(Q, k)]
  BY SubsCount, SubsNth DEF U!Sorted, U!InOrder
<1> HIDE DEF n
<1>4. U!Sorted(Q) \in Seq(Q) /\ Len(U!Sorted(Q)) = n
  BY <1>2, <1>3
<1> QED  BY <1>4 DEF n

\* A page of a list has only what the list has.
LEMMA PageOfOK ==
  ASSUME NEW l \in Seq(Items), NEW p \in Nat \ {0}
  PROVE  U!Pages(l) \in Nat \ {0} /\ U!ItemsOf(U!PageOf(l, p)) \subseteq Items
<1> DEFINE c == IF p > U!Pages(l) THEN U!Pages(l) ELSE p
           m == (c - 1) * PageRows + 1
           n == IF c * PageRows < Len(l) THEN c * PageRows ELSE Len(l)
<1>1. PageRows \in Nat \ {0} /\ Len(l) \in Nat
  BY PagesOK
<1>2. U!Pages(l) \in Nat \ {0}
  <2>1. CASE l = <<>>
    BY <2>1 DEF U!Pages
  <2>2. CASE l # <<>>
    <3>1. Len(l) \in Nat \ {0}
      BY <1>1, <2>2
    <3>2. (Len(l) + PageRows - 1) \div PageRows \in 1 .. Len(l)
      BY <1>1, <3>1, PagesFew
    <3> QED  BY <2>2, <3>1, <3>2 DEF U!Pages
  <2> QED  BY <2>1, <2>2
<1>3. c \in Nat \ {0}
  BY <1>2
<1> HIDE DEF c
<1>4. m \in Nat \ {0} /\ n \in Nat /\ n <= Len(l)
  <2>1. (c - 1) * PageRows \in Nat /\ c * PageRows \in Nat
    BY <1>1, <1>3
  <2> QED  BY <1>1, <2>1
<1>5. U!PageOf(l, p) = SubSeq(l, m, n)
  BY DEF U!PageOf, c
<1> HIDE DEF m, n
<1>6. \A i \in m .. n : l[i] \in Items
  BY <1>1, <1>4
<1>7. SubSeq(l, m, n) \in Seq(Items)
  BY <1>4, <1>6, SubSeqProperties
<1>8. \A i \in DOMAIN SubSeq(l, m, n) : SubSeq(l, m, n)[i] \in Items
  BY <1>7
<1> QED  BY <1>2, <1>5, <1>8 DEF U!ItemsOf

\* The bulk deletion's items are the subscribers it is for.
SubsInv == U!SubsTypeOK /\ PoolInv /\ Len(s18) = s1

LEMMA SubsEvent == U!SubsTypeOK /\ (U!Happens \/ UNCHANGED s19) => s19' \in 0 .. SubsEvents
  BY EventsOK DEF U!Happens, U!SubsTypeOK

LEMMA SubsInit == U!Init => SubsInv
<1> SUFFICES ASSUME U!Init PROVE SubsInv
  OBVIOUS
<1>1. PoolInv /\ s1 = 0
  BY PoolInit DEF U!Init, U!NoBulk
<1>2. U!BulkTypeOK
  BY <1>1, PoolSays
<1>3. s18 = <<>> /\ s18 \in Seq(Items) /\ Len(s18) = 0
  BY DEF U!Init
<1>4. s11 \in Finds /\ s19 \in 0 .. SubsEvents
  BY PagesOK, EventsOK DEF U!Init
<1>5. s9 \subseteq [st : {"asked", "read"}, subs : SUBSET Items]
  BY DEF U!Init, U!Asked
<1>6. /\ s7 \subseteq Items /\ s8 = {} /\ s10 = "loading" /\ s12 = 1 /\ s13 = {} /\ s14 = None
      /\ s15 = {} /\ s16 = 0 /\ s17 = FALSE
  BY DEF U!Init
<1>7. /\ s12 \in Nat \ {0}
      /\ s16 \in Items \cup {0} /\ s17 \in BOOLEAN
      /\ s8 \subseteq Items /\ s13 \subseteq Items
  <2>1. s12 = 1 /\ s16 = 0 /\ s8 = {} /\ s13 = {}
    BY <1>6
  <2>2. s17 = FALSE
    BY <1>6
  <2>3. s17 \in BOOLEAN
    BY <2>2
  <2>4. s12 \in Nat \ {0} /\ s16 \in Items \cup {0} /\ s8 \subseteq Items /\ s13 \subseteq Items
    BY <2>1
  <2> QED  BY <2>3, <2>4
<1>8. s15 \subseteq [sub : Items, st : {"sent", "deleted"}]
  BY <1>6
<1>9. U!SubsTypeOK
  BY <1>2, <1>3, <1>4, <1>5, <1>6, <1>7, <1>8 DEF U!SubsTypeOK
<1> QED  BY <1>1, <1>3, <1>9 DEF SubsInv

LEMMA SubsSeen ==
  ASSUME U!SubsTypeOK
  PROVE  /\ U!Filtered \subseteq Items /\ U!Rows \subseteq Items /\ U!Selected \subseteq Items
         /\ U!Pages(U!Sorted(U!Filtered)) \in Nat \ {0}
         /\ U!Sorted(U!Selected) \in Seq(Items) /\ Len(U!Sorted(U!Selected)) = Cardinality(U!Selected)
         /\ Cardinality(U!Selected) \in Nat
<1>1. U!Filtered \in SUBSET Items /\ U!Selected \in SUBSET Items /\ s12 \in Nat \ {0}
  BY DEF U!SubsTypeOK, U!Filtered, U!Selected
<1>2. U!Sorted(U!Filtered) \in Seq(Items)
  <2>1. U!Sorted(U!Filtered) \in Seq(U!Filtered)
    BY <1>1, SortedOK
  <2> QED  BY <1>1, <2>1
<1>3. U!Sorted(U!Selected) \in Seq(Items) /\ Len(U!Sorted(U!Selected)) = Cardinality(U!Selected)
  <2>1. U!Sorted(U!Selected) \in Seq(U!Selected) /\ Len(U!Sorted(U!Selected)) = Cardinality(U!Selected)
    BY <1>1, SortedOK
  <2> QED  BY <1>1, <2>1
<1>4. U!Pages(U!Sorted(U!Filtered)) \in Nat \ {0} /\ U!ItemsOf(U!PageOf(U!Sorted(U!Filtered), s12)) \subseteq Items
  BY <1>1, <1>2, PageOfOK
<1>5. U!Rows \subseteq Items
  BY <1>4 DEF U!Rows
<1>6. Cardinality(U!Selected) \in Nat
  BY <1>1, PartFinite, SomeItems
<1> QED  BY <1>1, <1>3, <1>4, <1>5, <1>6

\* What the lists, the ticks and the questions may become.
SubsMoves ==
    /\ s7' \subseteq Items /\ s8' \subseteq Items
    /\ s9' \subseteq [st : {"asked", "read"}, subs : SUBSET Items]
    /\ s10' \in {"loading", "failed", "shown"}
    /\ s11' \in Finds /\ s12' \in Nat \ {0} /\ s13' \subseteq Items
    /\ (s14' = None \/ s14' \in Items \cup {0})
    /\ s15' \subseteq [sub : Items, st : {"sent", "deleted"}]
    /\ s16' \in Items \cup {0} /\ s17' \in BOOLEAN
    /\ s19' \in 0 .. SubsEvents

LEMMA PoolTypes == PoolInv => U!BulkTypeOK
  BY PoolSays

LEMMA SubsMoved ==
  ASSUME SubsMoves, PoolInv', s18' \in Seq(Items), Len(s18') = s1'
  PROVE  SubsInv'
<1>1. PoolInv'
  OBVIOUS
<1>2. U!BulkTypeOK'
  BY <1>1, PoolTypes, PTL
<1>3. U!SubsTypeOK'
  BY <1>2 DEF SubsMoves, U!SubsTypeOK
<1> QED  BY <1>3 DEF SubsInv

LEMMA SubsStep == SubsInv /\ U!Next => SubsInv'
<1> SUFFICES ASSUME SubsInv, U!Next PROVE SubsInv'
  OBVIOUS
<1> DEFINE Reads == [st : {"asked", "read"}, subs : SUBSET Items]
           Dels  == [sub : Items, st : {"sent", "deleted"}]
<1>1. /\ U!SubsTypeOK /\ PoolInv /\ s18 \in Seq(Items) /\ Len(s18) = s1
      /\ s7 \subseteq Items /\ s8 \subseteq Items /\ s9 \subseteq Reads
      /\ s10 \in {"loading", "failed", "shown"} /\ s11 \in Finds /\ s12 \in Nat \ {0}
      /\ s13 \subseteq Items /\ (s14 = None \/ s14 \in Items \cup {0}) /\ s15 \subseteq Dels
      /\ s16 \in Items \cup {0} /\ s17 \in BOOLEAN /\ s19 \in 0 .. SubsEvents
  BY DEF SubsInv, U!SubsTypeOK
<1>2. /\ U!Filtered \subseteq Items /\ U!Rows \subseteq Items /\ U!Selected \subseteq Items
      /\ U!Pages(U!Sorted(U!Filtered)) \in Nat \ {0}
      /\ U!Sorted(U!Selected) \in Seq(Items) /\ Len(U!Sorted(U!Selected)) = Cardinality(U!Selected)
      /\ Cardinality(U!Selected) \in Nat
  BY <1>1, SubsSeen
<1>3. U!Asked \in Reads /\ \A Q \in SUBSET Items : [st |-> "read", subs |-> Q] \in Reads
  BY DEF U!Asked
<1>4. U!Happens \/ UNCHANGED s19 => s19' \in 0 .. SubsEvents
  BY <1>1, SubsEvent
<1> HIDE DEF Reads, Dels
<1>5. ASSUME SubsMoves, UNCHANGED <<s1, s2, s3, s4, s5, s6, s18>> PROVE SubsInv'
  BY <1>1, <1>5, PoolStays, SubsMoved
<1>6. ASSUME s7' \subseteq Items, s8' \subseteq Items, s9' \subseteq Reads,
             s10' \in {"loading", "failed", "shown"}, s11' \in Finds, s12' \in Nat \ {0},
             s13' \subseteq Items, s14' = None \/ s14' \in Items \cup {0}, s15' \subseteq Dels,
             s16' \in Items \cup {0}, s17' \in BOOLEAN, s19' \in 0 .. SubsEvents
      PROVE  SubsMoves
  BY <1>6 DEF SubsMoves, Reads, Dels
<1>7. CASE U!ReadHandled
  <2>1. /\ s9' = (s9 \ {U!Asked}) \cup {[st |-> "read", subs |-> s7]}
        /\ UNCHANGED <<s1, s2, s3, s4, s5, s6, s7, s8, s10, s11, s12, s13, s14, s15, s16, s17, s18, s19>>
    BY <1>7 DEF U!ReadHandled, U!pageState, U!bulkVars
  <2> QED  BY <1>1, <1>3, <1>5, <1>6, <2>1
<1>8. ASSUME NEW r \in s9, U!ReadShown(r) \/ U!ReadFailed(r) PROVE SubsInv'
  <2>1. /\ s9' = s9 \ {r} /\ s10' \in {"shown", "failed"} /\ (s8' = s8 \/ s8' = r.subs)
        /\ UNCHANGED <<s1, s2, s3, s4, s5, s6, s7, s11, s12, s13, s14, s15, s16, s17, s18>>
        /\ (U!Happens \/ UNCHANGED s19)
    BY <1>8 DEF U!ReadShown, U!ReadFailed, U!pageState, U!bulkVars
  <2>2. r.subs \subseteq Items
    BY <1>1 DEF Reads
  <2> QED  BY <1>1, <1>4, <1>5, <1>6, <2>1, <2>2
<1>9. ASSUME U!untouched' = U!untouched, s11' \in Finds, s12' \in Nat \ {0}, s13' \subseteq Items,
             s14' = None \/ s14' \in Items \cup {0}, U!Happens \/ UNCHANGED s19
      PROVE  SubsInv'
  <2>1. UNCHANGED <<s1, s2, s3, s4, s5, s6, s7, s8, s9, s10, s15, s16, s17, s18>>
    BY <1>9 DEF U!untouched, U!bulkVars
  <2> QED  BY <1>1, <1>4, <1>5, <1>6, <1>9, <2>1
<1>10. CASE U!Search
  BY <1>1, <1>9, <1>10 DEF U!Search
<1>11. CASE U!TurnPage
  <2>1. s12' \in Nat \ {0}
    BY <1>2, <1>11 DEF U!TurnPage
  <2> QED  BY <1>1, <1>9, <1>11, <2>1 DEF U!TurnPage
<1>12. CASE U!SelectRow \/ U!SelectMatching \/ U!ClearSelection
  <2>1. s13' \subseteq Items
    BY <1>1, <1>2, <1>12 DEF U!SelectRow, U!SelectMatching, U!ClearSelection, U!Toggled, U!SetMany
  <2> QED  BY <1>1, <1>9, <1>12, <2>1 DEF U!SelectRow, U!SelectMatching, U!ClearSelection
<1>13. CASE U!AskDelete \/ U!AskBulkDelete \/ U!Cancel
  <2>1. s14' = None \/ s14' \in Items \cup {0}
    BY <1>2, <1>13 DEF U!AskDelete, U!AskBulkDelete, U!Cancel
  <2> QED  BY <1>1, <1>9, <1>13, <2>1 DEF U!AskDelete, U!AskBulkDelete, U!Cancel
<1>14. CASE U!HandleConfirmDelete
  <2>1. /\ s14 \in Items /\ s14' = None /\ s16' = s14 /\ s15' = s15 \cup {[sub |-> s14, st |-> "sent"]}
        /\ UNCHANGED <<s1, s2, s3, s4, s5, s6, s7, s8, s9, s10, s11, s12, s13, s17, s18, s19>>
    BY <1>14 DEF U!HandleConfirmDelete, U!bulkVars
  <2>2. s15' \subseteq Dels
    BY <1>1, <2>1 DEF Dels
  <2> QED  BY <1>1, <1>5, <1>6, <2>1, <2>2
<1>15. CASE U!HandleBulkDelete
  <2>1. /\ s14' = None /\ s17' = TRUE /\ s18' = U!Sorted(U!Selected)
        /\ U!BulkStart(U!Cardinality(U!Selected))
        /\ UNCHANGED <<s7, s8, s9, s10, s11, s12, s13, s15, s16, s19>>
    BY <1>15 DEF U!HandleBulkDelete
  <2>2. U!BulkStart(Cardinality(U!Selected))
    BY <2>1, SubsCount
  <2>3. PoolInv' /\ s1' = Cardinality(U!Selected)
    BY <1>2, <2>2, PoolStarts
  <2>4. SubsMoves
    BY <1>1, <1>6, <2>1
  <2>5. s18' \in Seq(Items) /\ Len(s18') = s1'
    BY <1>2, <2>1, <2>3
  <2> QED  BY <2>3, <2>4, <2>5, SubsMoved
<1>16. ASSUME NEW d \in s15, U!DeleteAnswered(d) PROVE SubsInv'
  <2>1. /\ s7' \subseteq s7 /\ s9' \subseteq s9 \cup {U!Asked} /\ s10' \in {s10, "loading"}
        /\ s15' \subseteq s15 \cup {[d EXCEPT !.st = "deleted"]} /\ s16' \in {s16, 0}
        /\ UNCHANGED <<s1, s2, s3, s4, s5, s6, s8, s11, s12, s13, s14, s17, s18, s19>>
    BY <1>16 DEF U!DeleteAnswered, U!Deleted, U!Refresh, U!pageState, U!bulkVars
  <2>2. [d EXCEPT !.st = "deleted"] \in Dels
    BY <1>1 DEF Dels
  <2> QED  BY <1>1, <1>3, <1>5, <1>6, <2>1, <2>2
<1>17. ASSUME NEW d \in s15, U!DeleteEnds(d) PROVE SubsInv'
  <2>1. /\ s15' = s15 \ {d} /\ s16' = 0
        /\ UNCHANGED <<s1, s2, s3, s4, s5, s6, s7, s8, s9, s10, s11, s12, s13, s14, s17, s18, s19>>
    BY <1>17 DEF U!DeleteEnds, U!pageState, U!bulkVars
  <2> QED  BY <1>1, <1>5, <1>6, <2>1
<1>18. ASSUME NEW w \in U!Workers, NEW ok \in BOOLEAN, U!BulkItem(w, ok) PROVE SubsInv'
  <2>1. /\ s7' \subseteq s7 /\ U!BulkFinish(w, ok)
        /\ UNCHANGED <<s8, s9, s10, s11, s12, s13, s14, s15, s16, s17, s18, s19>>
    BY <1>18 DEF U!BulkItem, U!Deleted, U!pageState
  <2>2. w \in Run!Workers
    BY DEF U!Workers, Run!Workers
  <2>3. PoolInv' /\ s1' = s1
    BY <1>1, <2>1, <2>2, PoolGoesOn
  <2>4. SubsMoves
    BY <1>1, <1>6, <2>1
  <2>5. s18' \in Seq(Items) /\ Len(s18') = s1'
    BY <1>1, <2>1, <2>3
  <2> QED  BY <2>3, <2>4, <2>5, SubsMoved
<1>19. CASE U!BulkDone
  <2>1. /\ s17' = FALSE /\ s13' = {s18[i] : i \in s5} /\ s9' = s9 \cup {U!Asked} /\ s10' = "loading"
        /\ UNCHANGED <<s1, s2, s3, s4, s5, s6, s7, s8, s11, s12, s14, s15, s16, s18, s19>>
    BY <1>19 DEF U!BulkDone, U!Refresh, U!bulkVars
  <2>2. s5 \subseteq 1 .. Len(s18)
    BY <1>1, PoolSays
  <2>3. s13' \subseteq Items
    BY <1>1, <2>1, <2>2
  <2> QED  BY <1>1, <1>3, <1>5, <1>6, <2>1, <2>3
<1> QED  BY <1>7, <1>8, <1>10, <1>11, <1>12, <1>13, <1>14, <1>15, <1>16, <1>17, <1>18, <1>19 DEF U!Next

-----------------------------------------------------------------------------
(* The subscriber form, as far as its bulk creation goes.                  *)

FormInv == PoolInv /\ s10 \in AddCounts

LEMMA FormInit == F!Init => FormInv
  BY PoolInit DEF F!Init, FormInv

LEMMA FormStep == FormInv /\ F!Next => FormInv'
<1> SUFFICES ASSUME FormInv, F!Next PROVE FormInv'
  OBVIOUS
<1>1. ASSUME UNCHANGED F!bulkVars, s10' \in AddCounts PROVE FormInv'
  BY <1>1, PoolStays DEF FormInv, F!bulkVars
<1>2. CASE F!Open \/ F!ToEdit \/ F!StartAdd \/ F!Loaded \/ F!Back
  BY <1>1, <1>2, PagesOK DEF FormInv, F!Open, F!ToEdit, F!StartAdd, F!Loaded, F!Back
<1>3. CASE F!EditRow \/ F!AddSlice \/ F!DeleteSlice \/ F!EditImsi
  BY <1>1, <1>3 DEF FormInv, F!EditRow, F!AddSlice, F!DeleteSlice, F!EditImsi
<1>4. CASE F!Submit
  <2>1. s10' = s10 /\ (F!BulkStart(s10) \/ UNCHANGED F!bulkVars)
    BY <1>4 DEF F!Submit
  <2>2. CASE F!BulkStart(s10)
    <3>1. s10 \in Nat /\ s10' \in AddCounts
      BY <2>1, PagesOK DEF FormInv
    <3>2. PoolInv'
      BY <2>2, <3>1, PoolStarts
    <3> QED  BY <3>1, <3>2 DEF FormInv
  <2> QED  BY <1>1, <2>1, <2>2 DEF FormInv
<1>5. ASSUME NEW ok \in BOOLEAN, F!SaveAnswered(ok) PROVE FormInv'
  BY <1>1, <1>5 DEF FormInv, F!SaveAnswered
<1>6. ASSUME NEW ok \in BOOLEAN, NEW w \in F!Workers, F!BulkItem(w, ok) PROVE FormInv'
  <2>1. F!BulkFinish(w, ok) /\ s10' = s10
    BY <1>6 DEF F!BulkItem
  <2>2. w \in Run!Workers
    BY DEF F!Workers, Run!Workers
  <2>3. PoolInv'
    BY <2>1, <2>2, PoolGoesOn DEF FormInv
  <2> QED  BY <2>1, <2>3 DEF FormInv
<1>7. CASE F!BulkDone
  BY <1>1, <1>7 DEF FormInv, F!BulkDone
<1> QED  BY <1>2, <1>3, <1>4, <1>5, <1>6, <1>7 DEF F!Next

-----------------------------------------------------------------------------
(* The open page.                                                          *)

TicksInv ==
    /\ On("profiles", ProfilesInv)
    /\ On("history", HistoryInv)
    /\ On("fleet", FleetInv)

LEMMA TicksInit == Init => TicksInv
<1> SUFFICES ASSUME Init PROVE TicksInv
  OBVIOUS
<1>1. ASSUME view = "profiles" PROVE ProfilesInv
  BY <1>1, ProfilesInit DEF Init
<1>2. ASSUME view = "history" PROVE HistoryInv
  BY <1>2, HistoryInit DEF Init
<1>3. ASSUME view = "fleet" PROVE FleetInv
  BY <1>3, FleetInit DEF Init
<1> QED  BY <1>1, <1>2, <1>3 DEF TicksInv, On

LEMMA TicksStay == TicksInv /\ UNCHANGED vars => TicksInv'
<1> SUFFICES ASSUME TicksInv, UNCHANGED vars PROVE TicksInv'
  OBVIOUS
<1>1. UNCHANGED <<view, s1, s2, s3, s4, s5, s6, s7, s8, s9, s10, s11>>
  BY DEF vars
<1>2. ProfilesInv => ProfilesInv'
  BY <1>1 DEF ProfilesInv, P!ProfilesTypeOK, P!DeletesAreShown, P!TickedAreListed, P!Listed
<1>3. HistoryInv => HistoryInv'
  BY <1>1 DEF HistoryInv, R!HistoryTypeOK, R!BlankTabsWait, R!Ticked
<1>4. FleetInv => FleetInv'
  BY <1>1 DEF FleetInv, W!FleetTypeOK, W!ReachedIsUp, W!Rows
<1> QED  BY <1>1, <1>2, <1>3, <1>4 DEF TicksInv, On

LEMMA TicksStep == TicksInv /\ Next => TicksInv'
<1> SUFFICES ASSUME TicksInv, Next PROVE TicksInv'
  OBVIOUS
<1>1. view' = view
  BY DEF Next
<1>2. ASSUME view = "profiles" PROVE ProfilesInv'
  BY <1>2, ProfilesStep DEF Next, TicksInv, On
<1>3. ASSUME view = "history" PROVE HistoryInv'
  BY <1>3, HistoryStep DEF Next, TicksInv, On
<1>4. ASSUME view = "fleet" PROVE FleetInv'
  BY <1>4, FleetStep DEF Next, TicksInv, On
<1> QED  BY <1>1, <1>2, <1>3, <1>4 DEF TicksInv, On

\* Ticks, comparisons and polls are of what is listed, on the pages of the profiles, of
\* the finished runs and of the testers, however lists, deletions and answers interleave.
THEOREM TicksAlwaysListed == Spec => []TicksAreListed
<1>1. Init => TicksInv
  BY TicksInit
<1>2. TicksInv /\ [Next]_vars => TicksInv'
  BY TicksStay, TicksStep
<1>3. TicksInv => TicksAreListed
  BY HistoryShows DEF TicksInv, TicksAreListed, On, ProfilesInv, FleetInv
<1> QED  BY <1>1, <1>2, <1>3, PTL DEF Spec

ItemsInv ==
    /\ On("subscribers", SubsInv)
    /\ On("subscriber", FormInv)
    /\ On("images", ImagesInv)

LEMMA ItemsInit == Init => ItemsInv
<1> SUFFICES ASSUME Init PROVE ItemsInv
  OBVIOUS
<1>1. ASSUME view = "subscribers" PROVE SubsInv
  BY <1>1, SubsInit DEF Init
<1>2. ASSUME view = "subscriber" PROVE FormInv
  BY <1>2, FormInit DEF Init
<1>3. ASSUME view = "images" PROVE ImagesInv
  BY <1>3, ImagesInit DEF Init
<1> QED  BY <1>1, <1>2, <1>3 DEF ItemsInv, On

LEMMA ItemsStay == ItemsInv /\ UNCHANGED vars => ItemsInv'
<1> SUFFICES ASSUME ItemsInv, UNCHANGED vars PROVE ItemsInv'
  OBVIOUS
<1>1. UNCHANGED <<view, s1, s2, s3, s4, s5, s6, s7, s8, s9, s10, s11, s12, s13, s14, s15, s16, s17, s18, s19>>
  BY DEF vars
<1>2. PoolInv => PoolInv'
  BY <1>1, PoolStays
<1>3. ASSUME SubsInv PROVE SubsInv'
  <2>1. SubsMoves /\ PoolInv' /\ s18' \in Seq(Items) /\ Len(s18') = s1'
    BY <1>1, <1>2, <1>3 DEF SubsInv, SubsMoves, U!SubsTypeOK
  <2> QED  BY <2>1, SubsMoved
<1>4. FormInv => FormInv'
  BY <1>1, <1>2 DEF FormInv
<1>5. ImagesInv => ImagesInv'
  BY <1>1 DEF ImagesInv, I!ImagesTypeOK, I!OneActionPerImage
<1> QED  BY <1>1, <1>3, <1>4, <1>5 DEF ItemsInv, On

LEMMA ItemsStep == ItemsInv /\ Next => ItemsInv'
<1> SUFFICES ASSUME ItemsInv, Next PROVE ItemsInv'
  OBVIOUS
<1>1. view' = view
  BY DEF Next
<1>2. ASSUME view = "subscribers" PROVE SubsInv'
  BY <1>2, SubsStep DEF Next, ItemsInv, On
<1>3. ASSUME view = "subscriber" PROVE FormInv'
  BY <1>3, FormStep DEF Next, ItemsInv, On
<1>4. ASSUME view = "images" PROVE ImagesInv'
  BY <1>4, ImagesStep DEF Next, ItemsInv, On
<1> QED  BY <1>1, <1>2, <1>3, <1>4 DEF ItemsInv, On

\* A bulk creation or deletion runs each of its items once, and an image is in one action
\* at a time, whatever else the user does on the page meanwhile.
THEOREM ItemsAlwaysOnce == Spec => []ItemsOnce
<1>1. Init => ItemsInv
  BY ItemsInit
<1>2. ItemsInv /\ [Next]_vars => ItemsInv'
  BY ItemsStay, ItemsStep
<1>3. ItemsInv => ItemsOnce
  BY PoolSays DEF ItemsInv, ItemsOnce, On, SubsInv, FormInv, ImagesInv
<1> QED  BY <1>1, <1>2, <1>3, PTL DEF Spec

\* What a bulk deletion has done without failing is gone, so those left are the failed.
SubsKept == s17 => \A i \in s6 \ s5 : s18[i] \notin s7

LEMMA PoolEnded == PoolInv /\ (\A w \in Run!Workers : s3[w] = 0) => s6 = 1 .. s1
<1> SUFFICES ASSUME PoolInv, \A w \in Run!Workers : s3[w] = 0 PROVE s6 = 1 .. s1
  OBVIOUS
<1>1. 1 \in Run!Workers
  BY LimitOK DEF Run!Workers
<1>2. s1 \in Nat /\ s2 \in 0 .. s1 /\ ~(s2 < s1)
  BY <1>1 DEF PoolInv, BulkInv
<1>3. s2 = s1
  BY <1>2
<1>4. \A i \in 1 .. s2 : i \in s6
  <2> SUFFICES ASSUME NEW i \in 1 .. s2 PROVE i \in s6
    OBVIOUS
  <2>1. i # 0
    BY <1>2
  <2>2. i \in s6 \/ \E w \in Run!Workers : s3[w] = i
    BY DEF PoolInv, BulkInv
  <2> QED  BY <2>1, <2>2
<1>5. s6 \subseteq 1 .. s2
  BY DEF PoolInv, BulkInv
<1> QED  BY <1>3, <1>4, <1>5

LEMMA PoolFinishes ==
  ASSUME PoolInv, NEW w \in Run!Workers, NEW ok \in BOOLEAN, U!BulkFinish(w, ok) \/ F!BulkFinish(w, ok)
  PROVE  /\ s3[w] \in 1 .. s1 /\ s1' = s1
         /\ s6' = s6 \cup {s3[w]} /\ s5 \subseteq s5'
         /\ ok \/ s3[w] \in s5'
<1>1. /\ s3[w] # 0 /\ s1' = s1 /\ s6' = s6 \cup {s3[w]}
      /\ s5' = IF ok THEN s5 ELSE s5 \cup {s3[w]}
  BY DEF U!BulkFinish, F!BulkFinish
<1>2. s1 \in Nat /\ s2 \in 0 .. s1 /\ s3[w] \in 0 .. s2
  BY DEF PoolInv, BulkInv
<1>3. s3[w] \in 1 .. s1
  BY <1>1, <1>2
<1> QED  BY <1>1, <1>3

LEMMA SubsKeeps == SubsInv /\ SubsKept /\ U!Next => SubsKept' /\ U!NobodyLost
<1> SUFFICES ASSUME SubsInv, SubsKept, U!Next PROVE SubsKept' /\ U!NobodyLost
  OBVIOUS
<1>1. ASSUME s7' \subseteq s7, UNCHANGED <<s5, s6, s17, s18>> PROVE SubsKept' /\ U!NobodyLost
  BY <1>1 DEF SubsKept, U!NobodyLost
<1>2. CASE U!ReadHandled
  BY <1>1, <1>2 DEF U!ReadHandled, U!bulkVars
<1>3. ASSUME NEW r \in s9, U!ReadShown(r) \/ U!ReadFailed(r) PROVE SubsKept' /\ U!NobodyLost
  BY <1>1, <1>3 DEF U!ReadShown, U!ReadFailed, U!bulkVars
<1>4. CASE U!Search \/ U!TurnPage \/ U!SelectRow \/ U!SelectMatching \/ U!ClearSelection
           \/ U!AskDelete \/ U!AskBulkDelete \/ U!Cancel
  <2>1. U!untouched' = U!untouched
    BY <1>4 DEF U!Search, U!TurnPage, U!SelectRow, U!SelectMatching, U!ClearSelection,
       U!AskDelete, U!AskBulkDelete, U!Cancel
  <2>2. UNCHANGED <<s5, s6, s7, s17, s18>>
    BY <2>1 DEF U!untouched, U!bulkVars
  <2> QED  BY <1>1, <2>2
<1>5. CASE U!HandleConfirmDelete
  BY <1>1, <1>5 DEF U!HandleConfirmDelete, U!bulkVars
<1>6. CASE U!HandleBulkDelete
  <2>1. s17' = TRUE /\ s6' = {}
    BY <1>6 DEF U!HandleBulkDelete, U!BulkStart
  <2> QED  BY <2>1 DEF SubsKept, U!NobodyLost
<1>7. ASSUME NEW d \in s15, U!DeleteAnswered(d) \/ U!DeleteEnds(d) PROVE SubsKept' /\ U!NobodyLost
  <2>1. s7' \subseteq s7 /\ UNCHANGED <<s5, s6, s17, s18>>
    BY <1>7 DEF U!DeleteAnswered, U!DeleteEnds, U!Deleted, U!bulkVars
  <2> QED  BY <1>1, <2>1
<1>8. ASSUME NEW w \in U!Workers, NEW ok \in BOOLEAN, U!BulkItem(w, ok) PROVE SubsKept' /\ U!NobodyLost
  <2>1. /\ U!BulkFinish(w, ok) /\ UNCHANGED <<s17, s18>> /\ s7' \subseteq s7
        /\ ok => s7' = s7 \ {s18[s3[w]]}
    BY <1>8 DEF U!BulkItem, U!Deleted
  <2>2. w \in Run!Workers
    BY DEF U!Workers, Run!Workers
  <2>3. s6' = s6 \cup {s3[w]} /\ s5 \subseteq s5' /\ (ok \/ s3[w] \in s5')
    BY <2>1, <2>2, PoolFinishes DEF SubsInv
  <2>4. s17 => \A i \in s6' \ s5' : s18[i] \notin s7'
    <3> SUFFICES ASSUME s17, NEW i \in s6' \ s5' PROVE s18[i] \notin s7'
      OBVIOUS
    <3>1. CASE i = s3[w]
      <4>1. ok
        BY <2>3, <3>1
      <4> QED  BY <2>1, <3>1, <4>1
    <3>2. CASE i # s3[w]
      <4>1. i \in s6 \ s5
        BY <2>3, <3>2
      <4> QED  BY <2>1, <4>1 DEF SubsKept
    <3> QED  BY <3>1, <3>2
  <2> QED  BY <2>1, <2>4 DEF SubsKept, U!NobodyLost
<1>9. CASE U!BulkDone
  <2>1. /\ s17 /\ s17' = FALSE /\ s13' = {s18[i] : i \in s5} /\ s7' = s7
        /\ \A w \in U!Workers : s3[w] = 0
    BY <1>9 DEF U!BulkDone, U!BulkEnded
  <2>2. s6 = 1 .. s1 /\ Len(s18) = s1 /\ s18 \in Seq(Items)
    BY <2>1, PoolEnded DEF SubsInv, U!SubsTypeOK, U!Workers, Run!Workers
  <2>3. \A u \in U!ItemsOf(s18) \cap s7 : u \in s13'
    <3> SUFFICES ASSUME NEW i \in DOMAIN s18, s18[i] \in s7 PROVE s18[i] \in s13'
      BY DEF U!ItemsOf
    <3>1. i \in s6
      BY <2>2
    <3> QED  BY <2>1, <3>1 DEF SubsKept
  <2> QED  BY <2>1, <2>3 DEF SubsKept, U!NobodyLost
<1> QED  BY <1>2, <1>3, <1>4, <1>5, <1>6, <1>7, <1>8, <1>9 DEF U!Next

-----------------------------------------------------------------------------
\* While many subscribers are being created the form stays, and those without a failure
\* are there, each with its number in a row and as the form had it.
ManyKept ==
    /\ s15 /\ s10 = s1
    /\ \A i \in 1 .. s1 : s13.ids[i] = s13.ids[1] + i - 1
    /\ \A i \in s6 \ s5 : s13.ids[i] \in DOMAIN s7 /\ s7[s13.ids[i]] = s13.sub
FormKept ==
    /\ DOMAIN s7 \subseteq Int /\ s11 \in Int
    /\ s13.kind # "none" => s13.ids[1] \in Int
    /\ s13.kind = "many" => ManyKept

LEMMA FormKeptInit == F!Init => FormKept
<1> SUFFICES ASSUME F!Init PROVE FormKept
  OBVIOUS
<1>1. DOMAIN s7 = {} /\ s11 \in {1, LastImsi} /\ s13.kind = "none"
  BY DEF F!Init, F!NoSave
<1>2. s11 \in Int
  BY <1>1, PagesOK
<1> QED  BY <1>1, <1>2 DEF FormKept

\* What the form is saved as is stored, and nothing else changes.
LEMMA Stores ==
  ASSUME NEW u, F!Store(u)
  PROVE  /\ DOMAIN s7' = DOMAIN s7 \cup {u} /\ s7'[u] = s13.sub
         /\ \A i \in DOMAIN s7 \ {u} : s7'[i] = s7[i]
  BY DEF F!Store

LEMMA FormKeeps == FormInv /\ FormKept /\ F!Next => FormKept' /\ F!BulkCreatesAll
<1> SUFFICES ASSUME FormInv, FormKept, F!Next PROVE FormKept' /\ F!BulkCreatesAll
  OBVIOUS
<1>1. /\ s10 \in Nat \ {0} /\ s1 \in Nat /\ DOMAIN s7 \subseteq Int /\ s11 \in Int
      /\ s13.kind # "none" => s13.ids[1] \in Int
      /\ s13.kind = "many" => ManyKept
  BY PagesOK, PoolSays DEF FormInv, FormKept
<1>2. ASSUME UNCHANGED <<s1, s5, s6, s7, s13>>, s11' \in Int,
             s13.kind = "many" => UNCHANGED <<s10, s15>>
      PROVE  FormKept' /\ F!BulkCreatesAll
  <2>1. s13.kind = "many" => ManyKept'
    BY <1>1, <1>2 DEF ManyKept
  <2> QED  BY <1>1, <1>2, <2>1 DEF FormKept, F!BulkCreatesAll
<1>3. CASE F!Open \/ F!StartAdd
  <2>1. ~s15 /\ UNCHANGED <<s1, s5, s6, s7, s13>> /\ (s11' \in DOMAIN s7 \/ s11' = 1)
    BY <1>3 DEF F!Open, F!StartAdd, F!bulkVars
  <2>2. s13.kind # "many"
    BY <1>1, <2>1 DEF ManyKept
  <2>3. s11' \in Int
    BY <1>1, <2>1
  <2> QED  BY <1>2, <2>1, <2>2, <2>3
<1>4. CASE F!ToEdit \/ F!Loaded \/ F!EditRow \/ F!AddSlice \/ F!DeleteSlice
  <2>1. UNCHANGED <<s1, s5, s6, s7, s10, s11, s13, s15>>
    BY <1>4 DEF F!ToEdit, F!Loaded, F!EditRow, F!AddSlice, F!DeleteSlice, F!bulkVars
  <2> QED  BY <1>1, <1>2, <2>1
<1>5. CASE F!EditImsi
  <2>1. UNCHANGED <<s1, s5, s6, s7, s10, s13, s15>> /\ s11' \in 1 .. LastImsi
    BY <1>5 DEF F!EditImsi, F!Imsis, F!bulkVars
  <2>2. s11' \in Int
    BY <2>1, PagesOK
  <2> QED  BY <1>1, <1>2, <2>1, <2>2
<1>6. CASE F!Back
  <2>1. UNCHANGED <<s1, s5, s6, s7, s10, s11, s13>> /\ s13.kind = "none"
    BY <1>6 DEF F!Back, F!NoSave, F!bulkVars
  <2> QED  BY <1>1, <1>2, <2>1
<1>7. CASE F!Submit
  <2>1. /\ s15 /\ s13.kind = "none" /\ UNCHANGED <<s7, s10, s11, s15>>
        /\ s13' = [kind |-> IF F!IsBulk THEN "many" ELSE "one",
                   ids |-> IF F!IsBulk THEN F!BulkUeIds ELSE <<s11>>, sub |-> F!ToSubscription(s12), rows |-> s12]
        /\ F!IsBulk => F!BulkUeIds # <<>> /\ F!BulkStart(s10)
    BY <1>7 DEF F!Submit, F!NoSave
  <2>2. CASE ~F!IsBulk
    <3>1. s13'.kind = "one" /\ s13'.ids[1] = s11
      BY <2>1, <2>2
    <3> QED  BY <1>1, <2>1, <3>1 DEF FormKept, F!BulkCreatesAll
  <2>3. CASE F!IsBulk
    <3>1. F!BulkUeIds = [i \in 1 .. s10 |-> s11 + i - 1]
      BY <2>1, <2>3 DEF F!BulkUeIds
    <3>2. s13'.kind = "many" /\ s13'.ids = [i \in 1 .. s10 |-> s11 + i - 1]
      BY <2>1, <2>3, <3>1
    <3>3. s1' = s10 /\ s6' = {}
      BY <2>1, <2>3 DEF F!BulkStart
    <3>4. s13'.ids[1] = s11 /\ \A i \in 1 .. s10 : s13'.ids[i] = s11 + i - 1
      BY <1>1, <3>2
    <3>5. ManyKept'
      BY <1>1, <2>1, <3>3, <3>4 DEF ManyKept
    <3> QED  BY <1>1, <2>1, <3>4, <3>5 DEF FormKept, F!BulkCreatesAll
  <2> QED  BY <2>2, <2>3
<1>8. ASSUME NEW ok \in BOOLEAN, F!SaveAnswered(ok) PROVE FormKept' /\ F!BulkCreatesAll
  <2>1. s13.kind = "one" /\ s13'.kind = "none" /\ s11' = s11 /\ (F!Store(s13.ids[1]) \/ s7' = s7)
    BY <1>8 DEF F!SaveAnswered, F!NoSave
  <2>2. s13.ids[1] \in Int
    BY <1>1, <2>1
  <2>3. DOMAIN s7' = DOMAIN s7 \cup {s13.ids[1]} \/ DOMAIN s7' = DOMAIN s7
    BY <2>1 DEF F!Store
  <2>4. DOMAIN s7' \subseteq Int
    BY <1>1, <2>2, <2>3
  <2> QED  BY <1>1, <2>1, <2>4 DEF FormKept, F!BulkCreatesAll
<1>9. ASSUME NEW ok \in BOOLEAN, NEW w \in F!Workers, F!BulkItem(w, ok) PROVE FormKept' /\ F!BulkCreatesAll
  <2>1. /\ s13.kind = "many" /\ UNCHANGED <<s10, s11, s13, s15>> /\ F!BulkFinish(w, ok)
        /\ IF ok THEN F!Store(s13.ids[s3[w]]) ELSE s7' = s7
    BY <1>9 DEF F!BulkItem
  <2>2. w \in Run!Workers
    BY DEF F!Workers, Run!Workers
  <2>3. /\ s3[w] \in 1 .. s1 /\ s1' = s1 /\ s6' = s6 \cup {s3[w]} /\ s5 \subseteq s5'
        /\ ok \/ s3[w] \in s5'
    BY <2>1, <2>2, PoolFinishes DEF FormInv
  <2>4. ManyKept /\ s13.ids[1] \in Int
    BY <1>1, <2>1
  <2>5. s13.ids[s3[w]] \in Int
    <3>1. s13.ids[s3[w]] = s13.ids[1] + s3[w] - 1
      BY <2>3, <2>4 DEF ManyKept
    <3> QED  BY <1>1, <2>3, <2>4, <3>1
  <2>s. DOMAIN s7' = DOMAIN s7 \cup {s13.ids[s3[w]]} \/ DOMAIN s7' = DOMAIN s7
    BY <2>1 DEF F!Store
  <2>6. DOMAIN s7' \subseteq Int
    BY <1>1, <2>5, <2>s
  <2>7. \A i \in s6' \ s5' : s13.ids[i] \in DOMAIN s7' /\ s7'[s13.ids[i]] = s13.sub
    <3> SUFFICES ASSUME NEW i \in s6' \ s5'
                 PROVE  s13.ids[i] \in DOMAIN s7' /\ s7'[s13.ids[i]] = s13.sub
      OBVIOUS
    <3>1. CASE i = s3[w]
      <4>1. F!Store(s13.ids[i])
        BY <2>1, <2>3, <3>1
      <4> QED  BY <4>1 DEF F!Store
    <3>2. CASE i # s3[w]
      <4>1. s13.ids[i] \in DOMAIN s7 /\ s7[s13.ids[i]] = s13.sub
        BY <2>3, <2>4, <3>2 DEF ManyKept
      <4>2. CASE ok
        BY <2>1, <4>1, <4>2, Stores
      <4>3. CASE ~ok
        BY <2>1, <4>1, <4>3
      <4> QED  BY <4>2, <4>3
    <3> QED  BY <3>1, <3>2
  <2>8. ManyKept'
    BY <2>1, <2>3, <2>4, <2>7 DEF ManyKept
  <2> QED  BY <1>1, <2>1, <2>4, <2>6, <2>8 DEF FormKept, F!BulkCreatesAll, ManyKept
<1>10. CASE F!BulkDone
  <2>1. /\ s13.kind = "many" /\ s13'.kind = "none" /\ UNCHANGED <<s7, s10, s11>> /\ (s15' <=> s5 # {})
        /\ \A w \in F!Workers : s3[w] = 0
    BY <1>10 DEF F!BulkDone, F!NoSave, F!BulkEnded
  <2>2. s6 = 1 .. s1 /\ ManyKept
    BY <1>1, <2>1, PoolEnded DEF FormInv, F!Workers, Run!Workers
  <2>3. ASSUME ~s15', NEW i \in 0 .. s10 - 1
        PROVE  s13.ids[1] + i \in DOMAIN s7' /\ s7'[s13.ids[1] + i] = s13.sub
    <3>0. s5 = {}
      BY <2>1, <2>3
    <3>1. i + 1 \in 1 .. s1 /\ s5 = {}
      BY <1>1, <2>2, <2>3, <3>0 DEF ManyKept
    <3>2. s13.ids[i + 1] = s13.ids[1] + (i + 1) - 1
      BY <2>2, <3>1 DEF ManyKept
    <3>3. s13.ids[i + 1] = s13.ids[1] + i
      BY <1>1, <2>1, <3>1, <3>2
    <3>4. s13.ids[i + 1] \in DOMAIN s7 /\ s7[s13.ids[i + 1]] = s13.sub
      BY <2>2, <3>1 DEF ManyKept
    <3> QED  BY <2>1, <3>3, <3>4
  <2> QED  BY <1>1, <2>1, <2>3 DEF FormKept, F!BulkCreatesAll
<1> QED  BY <1>3, <1>4, <1>5, <1>6, <1>7, <1>8, <1>9, <1>10 DEF F!Next

-----------------------------------------------------------------------------
(* The test plan's form, as far as its runs go. *)

OpFields == s9 = [kind |-> s9.kind, form |-> s9.form, id |-> s9.id, then |-> s9.then]

LEMMA OpInit == S!Init => OpFields
  BY DEF S!Init, S!NoOp, OpFields

LEMMA Sends ==
  ASSUME NEW kind, NEW f, NEW id, NEW then, S!Send(kind, f, id, then)
  PROVE  OpFields' /\ s9'.kind = kind /\ s9'.form = f
  BY DEF S!Send, OpFields

LEMMA OpKeeps == OpFields /\ S!Next => OpFields' /\ S!RunsWhatIsSaved
<1> SUFFICES ASSUME OpFields, S!Next PROVE OpFields' /\ S!RunsWhatIsSaved
  OBVIOUS
<1>1. ASSUME s9' = s9 PROVE OpFields' /\ S!RunsWhatIsSaved
  BY <1>1 DEF OpFields, S!RunsWhatIsSaved
<1>2. ASSUME OpFields', s9'.kind # "start" PROVE OpFields' /\ S!RunsWhatIsSaved
  BY <1>2 DEF S!RunsWhatIsSaved
<1>3. ASSUME NEW name, NEW then, S!SaveNew(name, then) PROVE OpFields' /\ S!RunsWhatIsSaved
  <2>1. s9' = s9 \/ S!Send("create", [s3 EXCEPT !.name = name], None, then)
    BY <1>3 DEF S!SaveNew
  <2>2. ASSUME S!Send("create", [s3 EXCEPT !.name = name], None, then)
        PROVE  OpFields' /\ s9'.kind = "create"
    BY <2>2, Sends
  <2> QED  BY <1>1, <1>2, <2>1, <2>2
<1>4. CASE S!HandleChange \/ S!Switch \/ S!HandleCancel \/ S!CloseModal \/ S!Elsewhere
           \/ S!ListLoaded \/ S!ListFailed \/ S!TestersListed \/ S!TimerFires \/ \E c \in s11 : S!CheckAnswered(c)
  <2>1. s9' = s9
    BY <1>4 DEF S!HandleChange, S!Switch, S!HandleCancel, S!CloseModal, S!Elsewhere, S!ListLoaded,
       S!ListFailed, S!TestersListed, S!TimerFires, S!CheckAnswered
  <2> QED  BY <1>1, <2>1
<1>5. CASE S!HandleSave
  BY <1>1, <1>3, <1>5 DEF S!HandleSave
<1>6. CASE S!HandleUpdate
  <2>1. S!Send("update", s3, s5, "save")
    BY <1>6 DEF S!HandleUpdate
  <2> QED  BY <1>2, <2>1, Sends
<1>7. CASE S!HandleSaveAsNew
  BY <1>3, <1>7 DEF S!HandleSaveAsNew
<1>8. CASE S!HandleRename
  BY <1>3, <1>8 DEF S!HandleRename
<1>9. CASE S!HandleStart
  <2>1. CASE s5 = None
    BY <1>3, <1>9, <2>1 DEF S!HandleStart
  <2>2. CASE s5 # None
    <3>1. S!Send(IF S!Dirty THEN "update" ELSE "start", s3, s5, "start") /\ s4' = s4
      BY <1>9, <2>2 DEF S!HandleStart, S!unedited
    <3>2. OpFields' /\ s9'.kind = (IF S!Dirty THEN "update" ELSE "start") /\ s9'.form = s3
      BY <3>1, Sends
    <3>3. s9'.kind = "start" => s9'.form = s4'
      BY <3>1, <3>2 DEF S!Dirty
    <3> QED  BY <3>2, <3>3 DEF S!RunsWhatIsSaved
  <2> QED  BY <2>1, <2>2
<1>10. CASE S!SaveAnswered
  <2>1. s4' = s9.form
    BY <1>10 DEF S!SaveAnswered, S!OpenProfile
  <2>2. s9' = [s9 EXCEPT !.kind = "start"] \/ s9' = S!NoOp
    BY <1>10 DEF S!SaveAnswered
  <2>3. CASE s9' = [s9 EXCEPT !.kind = "start"]
    <3>1. s9' = [kind |-> "start", form |-> s9.form, id |-> s9.id, then |-> s9.then]
      BY <2>3 DEF OpFields
    <3> QED  BY <2>1, <3>1 DEF OpFields, S!RunsWhatIsSaved
  <2>4. CASE s9' = S!NoOp
    BY <1>2, <2>4 DEF S!NoOp, OpFields
  <2> QED  BY <2>2, <2>3, <2>4
<1>11. CASE S!SaveFailed \/ S!StartAnswered
  <2>1. s9' = s9 \/ s9' = S!NoOp
    BY <1>11 DEF S!SaveFailed, S!StartAnswered
  <2>2. ASSUME s9' = S!NoOp PROVE OpFields' /\ s9'.kind # "start"
    BY <2>2 DEF S!NoOp, OpFields
  <2> QED  BY <1>1, <1>2, <2>1, <2>2
<1> QED  BY <1>4, <1>5, <1>6, <1>7, <1>8, <1>9, <1>10, <1>11 DEF S!Next, S!User, S!Answers

-----------------------------------------------------------------------------
LostInv ==
    /\ ItemsInv
    /\ On("subscribers", SubsKept)
    /\ On("subscriber", FormKept)
    /\ On("setup", OpFields)

LEMMA LostInit == Init => LostInv
<1> SUFFICES ASSUME Init PROVE LostInv
  OBVIOUS
<1>1. ItemsInv
  BY ItemsInit
<1>2. ASSUME view = "subscribers" PROVE SubsKept
  BY <1>2 DEF Init, U!Init, SubsKept
<1>3. ASSUME view = "subscriber" PROVE FormKept
  BY <1>3, FormKeptInit DEF Init
<1>4. ASSUME view = "setup" PROVE OpFields
  BY <1>4, OpInit DEF Init
<1> QED  BY <1>1, <1>2, <1>3, <1>4 DEF LostInv, On

LEMMA LostStay == LostInv /\ UNCHANGED vars => LostInv'
<1> SUFFICES ASSUME LostInv, UNCHANGED vars PROVE LostInv'
  OBVIOUS
<1>1. UNCHANGED <<view, s1, s2, s3, s4, s5, s6, s7, s8, s9, s10, s11, s12, s13, s14, s15, s16, s17, s18, s19>>
  BY DEF vars
<1>2. ItemsInv'
  BY ItemsStay DEF LostInv
<1>3. (SubsKept => SubsKept') /\ (FormKept => FormKept') /\ (OpFields => OpFields')
  BY <1>1 DEF SubsKept, FormKept, ManyKept, OpFields
<1> QED  BY <1>1, <1>2, <1>3 DEF LostInv, On

\* One step of the open page.
Keeps ==
    /\ On("subscribers", U!NobodyLost)
    /\ On("subscriber", F!BulkCreatesAll)
    /\ On("setup", S!RunsWhatIsSaved)

LEMMA LostStep == LostInv /\ Next => LostInv' /\ Keeps
<1> SUFFICES ASSUME LostInv, Next PROVE LostInv' /\ Keeps
  OBVIOUS
<1>1. view' = view
  BY DEF Next
<1>2. ItemsInv'
  BY ItemsStep DEF LostInv
<1>3. ASSUME view = "subscribers" PROVE SubsKept' /\ U!NobodyLost
  BY <1>3, SubsKeeps DEF Next, LostInv, ItemsInv, On
<1>4. ASSUME view = "subscriber" PROVE FormKept' /\ F!BulkCreatesAll
  BY <1>4, FormKeeps DEF Next, LostInv, ItemsInv, On
<1>5. ASSUME view = "setup" PROVE OpFields' /\ S!RunsWhatIsSaved
  BY <1>5, OpKeeps DEF Next, LostInv, On
<1> QED  BY <1>1, <1>2, <1>3, <1>4, <1>5 DEF LostInv, Keeps, On

\* No subscriber a bulk deletion was for is left unticked, a bulk creation without a failure
\* has made them all, and a run is started with the plan as it was last saved.
THEOREM NothingEverLost == Spec => NothingLost
<1>1. Init => LostInv
  BY LostInit
<1>2. LostInv /\ [Next]_vars => LostInv'
  BY LostStay, LostStep
<1>3. LostInv /\ [Next]_vars => [Keeps]_vars
  BY LostStep
<1> QED  BY <1>1, <1>2, <1>3, PTL DEF Spec, NothingLost, Keeps

-----------------------------------------------------------------------------
(* The logs.                                                               *)

LEMMA LogsInit == L!Init => L!LogsTypeOK
<1> SUFFICES ASSUME L!Init PROVE L!LogsTypeOK
  OBVIOUS
<1>1. s2 \subseteq Ues
  BY DEF L!Init
<1>2. LogEvents \in Nat
  BY PagesOK
<1>3. s13 \in 0 .. LogEvents
  BY <1>2 DEF L!Init
<1> QED  BY <1>1, <1>3 DEF L!Init, L!LogsTypeOK, L!ReadStates

Sources == L!Kinds \cup Ues

LEMMA LogTargets ==
  ASSUME L!LogsTypeOK
  PROVE  \A t, a, d : L!TargetsOf(t, a, d) \subseteq Sources /\ "core" \in Sources
  BY DEF L!LogsTypeOK, L!TargetsOf, L!Kinds, L!Gnbs, Sources

LEMMA LogAsks ==
  ASSUME L!LogsTypeOK, NEW t \in Sources, NEW b \in BOOLEAN, L!Ask(t, b)
  PROVE  s10' \subseteq L!Fetches /\ s12' \in BOOLEAN
<1>1. [on |-> t, nf |-> t = "core" /\ b] \in L!Fetches
  BY DEF L!Fetches, Sources
<1> QED  BY <1>1 DEF L!LogsTypeOK, L!Ask

\* The first selection.
LEMMA LogResolves ==
  ASSUME L!LogsTypeOK, NEW t, NEW a, NEW d, L!Resolve(t, a, d)
  PROVE  s8' \in Sources \cup {None} /\ s10' \subseteq L!Fetches /\ s12' \in BOOLEAN
<1>1. CASE s8 # None \/ ~L!Ready(a, d)
  BY <1>1 DEF L!Resolve, L!LogsTypeOK, Sources
<1>2. CASE ~(s8 # None \/ ~L!Ready(a, d))
  <2>1. s8' = (IF s4 # None /\ s4 \in L!TargetsOf(t, a, d) THEN s4 ELSE "core") /\ L!Ask(s8', FALSE)
    BY <1>2 DEF L!Resolve
  <2>2. s8' \in Sources
    BY <2>1, LogTargets
  <2> QED  BY <2>1, <2>2, LogAsks
<1> QED  BY <1>1, <1>2

LEMMA LogCounts ==
  ASSUME L!LogsTypeOK
  PROVE  /\ L!Happens => s13' \in 0 .. LogEvents
         /\ UNCHANGED s13 => s13' \in 0 .. LogEvents
<1>1. LogEvents \in Nat /\ s13 \in 0 .. LogEvents
  BY PagesOK DEF L!LogsTypeOK
<1> QED  BY <1>1 DEF L!Happens

LEMMA LogsStep == L!LogsTypeOK /\ L!Next => L!LogsTypeOK'
<1> SUFFICES ASSUME L!LogsTypeOK, L!Next PROVE L!LogsTypeOK'
  OBVIOUS
<1>1. CASE L!CoreRead
  <2>1. s8' \in Sources \cup {None} /\ s10' \subseteq L!Fetches /\ s12' \in BOOLEAN
    BY <1>1, LogResolves DEF L!CoreRead
  <2> QED  BY <1>1, <2>1 DEF L!CoreRead, L!LogsTypeOK, Sources
<1>2. ASSUME NEW ok \in BOOLEAN, L!SubscribersRead(ok) PROVE L!LogsTypeOK'
  <2>1. s8' \in Sources \cup {None} /\ s10' \subseteq L!Fetches /\ s12' \in BOOLEAN
    BY <1>2, LogResolves DEF L!SubscribersRead
  <2>2. s6' \in L!ReadStates
    BY <1>2 DEF L!SubscribersRead, L!After, L!ReadStates
  <2>3. s13' \in 0 .. LogEvents
    BY <1>2, LogCounts DEF L!SubscribersRead
  <2> QED  BY <1>2, <2>1, <2>2, <2>3 DEF L!SubscribersRead, L!LogsTypeOK, Sources
<1>3. ASSUME NEW ok \in BOOLEAN, L!InstancesRead(ok) PROVE L!LogsTypeOK'
  <2>1. s8' \in Sources \cup {None} /\ s10' \subseteq L!Fetches /\ s12' \in BOOLEAN
    BY <1>3, LogResolves DEF L!InstancesRead
  <2>2. s7' \in L!ReadStates
    BY <1>3 DEF L!InstancesRead, L!After, L!ReadStates
  <2>3. s13' \in 0 .. LogEvents
    BY <1>3, LogCounts DEF L!InstancesRead
  <2> QED  BY <1>3, <2>1, <2>2, <2>3 DEF L!InstancesRead, L!LogsTypeOK, Sources
<1>4. CASE L!HandleSelect
  <2>1. PICK t \in L!Targets \ {s8} : s8' = t /\ s9' = FALSE /\ L!Ask(t, FALSE)
    BY <1>4 DEF L!HandleSelect
  <2>2. t \in Sources
    BY LogTargets DEF L!Targets
  <2>3. s10' \subseteq L!Fetches /\ s12' \in BOOLEAN
    BY <2>1, <2>2, LogAsks
  <2>4. s13' \in 0 .. LogEvents
    BY <1>4, LogCounts DEF L!HandleSelect
  <2> QED  BY <1>4, <2>1, <2>2, <2>3, <2>4 DEF L!HandleSelect, L!LogsTypeOK, Sources
<1>5. CASE L!PickNf
  <2>1. s9' \in BOOLEAN /\ L!Ask("core", s9')
    BY <1>5 DEF L!PickNf, L!LogsTypeOK
  <2>2. s10' \subseteq L!Fetches /\ s12' \in BOOLEAN
    BY <2>1, LogAsks, LogTargets
  <2>3. s13' \in 0 .. LogEvents
    BY <1>5, LogCounts DEF L!PickNf
  <2> QED  BY <1>5, <2>1, <2>2, <2>3 DEF L!PickNf, L!LogsTypeOK
<1>6. CASE L!Refresh
  <2>1. s8 \in Sources /\ s9 \in BOOLEAN /\ L!Ask(s8, s9)
    BY <1>6 DEF L!Refresh, L!LogsTypeOK, Sources
  <2>2. s10' \subseteq L!Fetches /\ s12' \in BOOLEAN
    BY <2>1, LogAsks
  <2>3. s13' \in 0 .. LogEvents
    BY <1>6, LogCounts DEF L!Refresh
  <2> QED  BY <1>6, <2>2, <2>3 DEF L!Refresh, L!LogsTypeOK
<1>7. ASSUME NEW ok \in BOOLEAN, NEW f \in s10, L!FetchEnds(f, ok) PROVE L!LogsTypeOK'
  <2>1. s10 \subseteq L!Fetches /\ s10' \subseteq L!Fetches /\ s11' \in L!Fetches \cup {None}
    BY <1>7 DEF L!FetchEnds, L!LogsTypeOK
  <2> QED  BY <1>7, <2>1 DEF L!FetchEnds, L!LogsTypeOK
<1> QED  BY <1>1, <1>2, <1>3, <1>4, <1>5, <1>6, <1>7 DEF L!Next

\* Once a UE and both lists are known, the first selection is the link's.
LEMMA LogFirst ==
  ASSUME NEW u \in s2 \cap s3, s2 \subseteq Ues, s4 = u, NEW t, NEW a \in L!ReadStates, NEW d \in L!ReadStates,
         L!Resolve(t, a, d), s8 = None, s8' # None, s8' # u
  PROVE  a = "failed" \/ d = "failed"
<1>1. L!Ready(a, d) /\ s8' = (IF s4 # None /\ s4 \in L!TargetsOf(t, a, d) THEN s4 ELSE "core")
  BY DEF L!Resolve
<1>2. u # None
  BY NoneOK
<1>3. u \notin L!TargetsOf(t, a, d)
  BY <1>1, <1>2
<1> QED  BY <1>1, <1>3 DEF L!TargetsOf, L!Ready, L!ReadStates

LEMMA LogsKeep == L!LogsTypeOK /\ L!Next => L!UeLinkKept
<1> SUFFICES ASSUME L!LogsTypeOK, L!Next, NEW u \in s2 \cap s3, L!StraysFrom(u)
             PROVE  s6' = "failed" \/ s7' = "failed"
  BY DEF L!UeLinkKept
<1>1. s8 = None /\ s8' # None /\ s4 = u /\ s8' # u /\ ~L!HandleSelect
  BY DEF L!StraysFrom
<1>2. s2 \subseteq Ues /\ s6 \in L!ReadStates /\ s7 \in L!ReadStates
  BY DEF L!LogsTypeOK
<1>3. s6' \in L!ReadStates /\ s7' \in L!ReadStates
  BY LogsStep DEF L!LogsTypeOK, L!ReadStates
<1>4. CASE L!CoreRead
  BY <1>1, <1>2, <1>4, LogFirst DEF L!CoreRead
<1>5. ASSUME NEW ok \in BOOLEAN, L!SubscribersRead(ok) PROVE s6' = "failed" \/ s7' = "failed"
  BY <1>1, <1>2, <1>3, <1>5, LogFirst DEF L!SubscribersRead
<1>6. ASSUME NEW ok \in BOOLEAN, L!InstancesRead(ok) PROVE s6' = "failed" \/ s7' = "failed"
  BY <1>1, <1>2, <1>3, <1>6, LogFirst DEF L!InstancesRead
<1>7. CASE L!PickNf \/ L!Refresh \/ \E f \in s10, ok \in BOOLEAN : L!FetchEnds(f, ok)
  BY <1>1, <1>7, NoneOK DEF L!PickNf, L!Refresh, L!FetchEnds
<1> QED  BY <1>1, <1>4, <1>5, <1>6, <1>7 DEF L!Next

-----------------------------------------------------------------------------
(* The messages.                                                           *)

LEMMA PicksSame ==
    /\ \A Q : M!Cardinality(Q) = Cardinality(Q)
    /\ \A s, Q : M!Picked(s, Q) = Picked(s, Q)
<1>1. \A Q : M!Cardinality(Q) = Cardinality(Q)
  BY DEF M!Cardinality, Cardinality
<1>2. \A Q, k : M!Nth(Q, k) = Nth(Q, k)
  BY <1>1 DEF M!Nth, Nth
<1> QED  BY <1>1, <1>2 DEF M!Picked, Picked

\* A message is shown for its time.
MsgInv ==
    /\ s1 \in Nat /\ s2 \in Seq(M!Messages)
    /\ \A i \in DOMAIN s2 : /\ s2[i].due = s2[i].id + M!Duration[s2[i].type]
                            /\ s1 <= s2[i].due

LEMMA MsgInit == M!Init => MsgInv
  BY DEF M!Init, MsgInv

LEMMA MsgFields == MsgInv => \A i \in DOMAIN s2 : s2[i].id \in Nat /\ s2[i].due \in Nat
<1> SUFFICES ASSUME MsgInv, NEW i \in DOMAIN s2 PROVE s2[i].id \in Nat /\ s2[i].due \in Nat
  OBVIOUS
<1>1. s2[i] \in M!Messages
  BY DEF MsgInv
<1> QED  BY <1>1 DEF M!Messages

\* Those with another ID remain, and no others.
LEMMA MsgRemoved ==
  ASSUME s2 \in Seq(M!Messages), NEW id, M!RemoveNotification(id)
  PROVE  /\ s1' = s1 /\ s2' \in Seq(M!Messages)
         /\ \A k \in DOMAIN s2' : \E i \in DOMAIN s2 : s2'[k] = s2[i]
         /\ \A i \in DOMAIN s2 : s2[i].id # id => \E k \in DOMAIN s2' : s2'[k] = s2[i]
<1> DEFINE J == {i \in DOMAIN s2 : s2[i].id # id}
<1>1. s1' = s1 /\ s2' = Picked(s2, J)
  BY PicksSame DEF M!RemoveNotification
<1>2. J \in SUBSET (1 .. Len(s2))
  OBVIOUS
<1> HIDE DEF J
<1>3. /\ Cardinality(J) \in Nat
      /\ Picked(s2, J) \in Seq(M!Messages) /\ Len(Picked(s2, J)) = Cardinality(J)
      /\ \A k \in 1 .. Cardinality(J) : Nth(J, k) \in J /\ Picked(s2, J)[k] = s2[Nth(J, k)]
      /\ \A i \in J : Rank(J, i) + 1 \in 1 .. Cardinality(J) /\ Picked(s2, J)[Rank(J, i) + 1] = s2[i]
  BY <1>2, PickedOK
<1>4. DOMAIN s2' = 1 .. Cardinality(J)
  BY <1>1, <1>3
<1>5. \A k \in DOMAIN s2' : \E i \in DOMAIN s2 : s2'[k] = s2[i]
  BY <1>1, <1>3, <1>4 DEF J
<1>6. \A i \in DOMAIN s2 : s2[i].id # id => \E k \in DOMAIN s2' : s2'[k] = s2[i]
  <2> SUFFICES ASSUME NEW i \in DOMAIN s2, s2[i].id # id PROVE \E k \in DOMAIN s2' : s2'[k] = s2[i]
    OBVIOUS
  <2>1. i \in J
    BY DEF J
  <2> QED  BY <1>1, <1>3, <1>4, <2>1
<1> QED  BY <1>1, <1>3, <1>5, <1>6

LEMMA MsgStep == MsgInv /\ M!Next => MsgInv'
<1> SUFFICES ASSUME MsgInv, M!Next PROVE MsgInv'
  OBVIOUS
<1>1. ASSUME NEW id, M!RemoveNotification(id) PROVE MsgInv'
  <2>1. /\ s1' = s1 /\ s2' \in Seq(M!Messages)
        /\ \A k \in DOMAIN s2' : \E i \in DOMAIN s2 : s2'[k] = s2[i]
    BY <1>1, MsgRemoved DEF MsgInv
  <2> QED  BY <2>1 DEF MsgInv
<1>2. ASSUME NEW type \in M!Types, M!AddNotification(type) PROVE MsgInv'
  <2> DEFINE m == M!Message(type)
  <2>1. /\ s1' = s1 /\ s2' = Append(s2, m) /\ s1 \in Nat /\ s2 \in Seq(M!Messages)
        /\ \A i \in DOMAIN s2 : s2[i].due = s2[i].id + M!Duration[s2[i].type] /\ s1 <= s2[i].due
    BY <1>2 DEF M!AddNotification, MsgInv
  <2>2. M!Duration[type] \in Nat
    BY <1>2 DEF M!Duration, M!Types
  <2>3. m \in M!Messages /\ m.due = m.id + M!Duration[m.type] /\ s1 <= m.due
    BY <2>1, <2>2 DEF M!Message, M!Messages
  <2> HIDE DEF m
  <2>4. s2' \in Seq(M!Messages) /\ \A i \in DOMAIN s2' : (i \in DOMAIN s2 /\ s2'[i] = s2[i]) \/ s2'[i] = m
    BY <2>1, <2>3
  <2> QED  BY <2>1, <2>3, <2>4 DEF MsgInv
<1>3. CASE M!Tick
  <2>1. \A i \in DOMAIN s2 : s2[i].due \in Nat
    BY MsgFields
  <2>2. \A i \in DOMAIN s2 : s2[i].due > s1 /\ s1' = s1 + 1 /\ s2' = s2
    BY <1>3 DEF M!Tick
  <2>3. s1 \in Nat /\ s2 \in Seq(M!Messages)
    BY DEF MsgInv
  <2>4. s1' \in Nat /\ s2' = s2 /\ \A i \in DOMAIN s2 : s1' <= s2[i].due
    BY <1>3, <2>1, <2>2, <2>3 DEF M!Tick
  <2> QED  BY <2>4 DEF MsgInv
<1>4. CASE M!Leave
  BY <1>4 DEF M!Leave, MsgInv
<1> QED  BY <1>1, <1>2, <1>3, <1>4
         DEF M!Next, M!ErrorTimerFires, M!SuccessTimerFires, M!Close

LEMMA MsgNoneLingers == MsgInv => M!NoneLingers
  BY DEF MsgInv, M!NoneLingers

LEMMA MsgsStay == MsgInv /\ M!Next => M!ErrorsStay
<1> SUFFICES ASSUME MsgInv, M!Next, NEW i \in DOMAIN s2, M!Early(s2[i]),
                    \A j \in DOMAIN s2' : s2'[j].id # s2[i].id
             PROVE  M!Alike(s2[i]) \/ M!Leave \/ M!Close(i)
  BY DEF M!ErrorsStay
<1>1. s2 \in Seq(M!Messages)
  BY DEF MsgInv
<1>2. ASSUME NEW id, M!RemoveNotification(id) PROVE s2[i].id = id
  <2>1. s2[i].id # id => \E k \in DOMAIN s2' : s2'[k] = s2[i]
    BY <1>1, <1>2, MsgRemoved
  <2> QED  BY <2>1
<1>3. CASE M!Tick
  BY <1>3 DEF M!Tick
<1>4. ASSUME NEW type \in M!Types, M!AddNotification(type) PROVE FALSE
  <2>1. s2' = Append(s2, M!Message(type))
    BY <1>4 DEF M!AddNotification
  <2>2. i \in DOMAIN s2' /\ s2'[i] = s2[i]
    BY <1>1, <2>1
  <2> QED  BY <2>2
<1>5. ASSUME NEW k \in DOMAIN s2, M!ErrorTimerFires(k) PROVE FALSE
  <2>1. s2[i].id = s2[k].id /\ s2[k].type = "error" /\ s2[k].due <= s1
    BY <1>2, <1>5 DEF M!ErrorTimerFires, M!Due
  <2>2. s2[k].due = s2[k].id + M!Duration["error"]
    BY <2>1 DEF MsgInv
  <2>3. s1 < s2[i].id + M!Duration["error"] /\ s1 \in Nat /\ s2[i].id \in Nat
    BY MsgFields DEF M!Early, MsgInv
  <2>4. M!Duration["error"] = 5
    BY DEF M!Duration
  <2> QED  BY <2>1, <2>2, <2>3, <2>4
<1>6. ASSUME NEW k \in DOMAIN s2, M!SuccessTimerFires(k) PROVE M!Alike(s2[i])
  BY <1>2, <1>6 DEF M!SuccessTimerFires, M!Due, M!Alike
<1>7. ASSUME NEW k \in DOMAIN s2, M!Close(k) PROVE M!Close(i)
  <2>1. s2[i].id = s2[k].id
    BY <1>2, <1>7 DEF M!Close
  <2> QED  BY <1>7, <2>1 DEF M!Close
<1> QED  BY <1>3, <1>4, <1>5, <1>6, <1>7 DEF M!Next

-----------------------------------------------------------------------------
(* The CPU lists.                                                          *)

Cpus == 0 .. LastCpu

LEMMA CpusSame ==
    /\ \A Q : C!Cardinality(Q) = Cardinality(Q)
    /\ \A Q, k : C!Nth(Q, k) = Nth(Q, k)
<1>1. \A Q : C!Cardinality(Q) = Cardinality(Q)
  BY DEF C!Cardinality, Cardinality
<1> QED  BY <1>1 DEF C!Nth, Nth

\* A run has an end.
LEMMA RunEnds ==
  ASSUME NEW Q \in SUBSET Cpus, NEW a \in C!Starts(Q)
  PROVE  \E b \in Q : /\ a <= b /\ a .. b \subseteq Q /\ b + 1 \notin Q
                      /\ C!RunFrom(a, Q) = <<a, b>>
<1> DEFINE E == {b \in Cpus : a <= b /\ b + 1 \notin Q}
<1>1. LastCpu \in Nat /\ a \in Q /\ a \in Nat /\ a <= LastCpu
  BY PagesOK DEF Cpus, C!Starts
<1>2. LastCpu \in E
  BY <1>1 DEF Cpus
<1>3. E \in SUBSET Nat /\ E # {}
  BY <1>1, <1>2 DEF Cpus
<1>4. PICK b \in E : \A m \in E : b <= m
  BY <1>3, LeastNat
<1>5. b \in Nat /\ b <= LastCpu /\ a <= b /\ b + 1 \notin Q
  BY <1>1, <1>4 DEF Cpus
<1>6. a .. b \subseteq Q
  <2> DEFINE D == {c \in a .. b : c \notin Q}
  <2>1. ASSUME D # {} PROVE FALSE
    <3>1. D \in SUBSET Nat
      BY <1>1, <1>5
    <3>2. PICK c \in D : \A m \in D : c <= m
      BY <2>1, <3>1, LeastNat
    <3>3. c \in Nat /\ a < c /\ c <= b /\ c \notin Q
      BY <1>1, <1>5, <3>2
    <3>4. c - 1 \in E /\ ~(b <= c - 1)
      BY <1>1, <1>5, <3>3 DEF Cpus
    <3> QED  BY <1>4, <3>4
  <2> QED  BY <2>1
<1>7. b \in Q
  BY <1>1, <1>5, <1>6
<1>8. \E x \in Q : a <= x /\ a .. x \subseteq Q /\ x + 1 \notin Q
  BY <1>5, <1>6, <1>7
<1> DEFINE e == CHOOSE x \in Q : a <= x /\ a .. x \subseteq Q /\ x + 1 \notin Q
<1>9. e \in Q /\ a <= e /\ a .. e \subseteq Q /\ e + 1 \notin Q
  BY <1>8
<1> QED  BY <1>9 DEF C!RunFrom

\* Each CPU is in a run.
LEMMA InARun ==
  ASSUME NEW Q \in SUBSET Cpus, NEW c \in Q
  PROVE  \E a \in C!Starts(Q) : a <= c /\ a .. c \subseteq Q
<1> DEFINE A == {a \in 0 .. c : a .. c \subseteq Q}
<1>1. LastCpu \in Nat /\ c \in Nat
  BY PagesOK DEF Cpus
<1>2. c .. c = {c}
  BY <1>1
<1>3. c \in A /\ A \in SUBSET Nat
  BY <1>1, <1>2
<1>4. PICK a \in A : \A m \in A : a <= m
  BY <1>3, LeastNat
<1>5. a \in Nat /\ a <= c /\ a .. c \subseteq Q
  BY <1>1, <1>4
<1>6. ASSUME a - 1 \in Q PROVE FALSE
  <2>1. a - 1 \in Nat
    BY <1>6, PagesOK DEF Cpus
  <2>2. (a - 1) .. c = {a - 1} \cup a .. c
    BY <1>1, <1>5, <2>1
  <2>3. a - 1 \in A
    BY <1>1, <1>5, <1>6, <2>1, <2>2
  <2> QED  BY <1>4, <1>5, <2>3
<1>7. a \in a .. c
  BY <1>1, <1>5
<1> QED  BY <1>5, <1>6, <1>7 DEF C!Starts

\* Whatever CPUs formatCpus writes as a list of runs, parseCpus reads the same ones from it
\* (cpus.ts:3-31).
THEOREM CpuListsReadBack ==
  ASSUME NEW Q \in SUBSET Cpus
  PROVE  C!FormatCpus(Q) \in Seq(Nat \X Nat) /\ C!ParseCpus(C!FormatCpus(Q)) = Q
<1> DEFINE St == C!Starts(Q)
           n  == Cardinality(St)
           l  == C!FormatCpus(Q)
<1>1. LastCpu \in Nat /\ Cpus \subseteq Nat /\ IsFiniteSet(Cpus)
  <2>1. LastCpu \in Nat
    BY PagesOK
  <2>2. 0 \in Int /\ LastCpu \in Int
    BY <2>1
  <2>3. IsFiniteSet(0 .. LastCpu)
    BY <2>2, FS_Interval
  <2>4. IsFiniteSet(Cpus)
    BY <2>3 DEF Cpus
  <2>5. Cpus \subseteq Nat
    BY <2>1 DEF Cpus
  <2> QED  BY <2>1, <2>4, <2>5
<1>2. St \subseteq Q /\ St \in SUBSET Int /\ IsFiniteSet(St)
  <2>1. St \subseteq Q /\ St \subseteq Cpus
    BY DEF C!Starts
  <2>2. IsFiniteSet(St)
    BY <1>1, <2>1, FS_Subset
  <2> HIDE DEF St
  <2>3. \A a \in St : a \in Int
    BY <1>1, <2>1
  <2> QED  BY <2>1, <2>2, <2>3
<1>3. n \in Nat /\ \A k \in 1 .. n : Nth(St, k) \in St
  BY <1>2, NthOK
<1>4. \A a \in St : \E k \in 1 .. n : Nth(St, k) = a
  BY <1>2, NthOK
<1>5. l = [k \in 1 .. n |-> C!RunFrom(Nth(St, k), Q)]
  BY CpusSame DEF C!FormatCpus
<1> HIDE DEF St, n, l
<1>6. \A k \in 1 .. n : \E b \in Q : /\ Nth(St, k) <= b /\ Nth(St, k) .. b \subseteq Q /\ b + 1 \notin Q
                                     /\ l[k] = <<Nth(St, k), b>>
  <2> SUFFICES ASSUME NEW k \in 1 .. n
               PROVE  \E b \in Q : /\ Nth(St, k) <= b /\ Nth(St, k) .. b \subseteq Q /\ b + 1 \notin Q
                                   /\ l[k] = <<Nth(St, k), b>>
    OBVIOUS
  <2>1. Nth(St, k) \in C!Starts(Q)
    BY <1>3 DEF St
  <2>2. l[k] = C!RunFrom(Nth(St, k), Q)
    BY <1>5
  <2> QED  BY <2>1, <2>2, RunEnds
<1>7. \A k \in 1 .. n : l[k] \in Nat \X Nat
  <2> SUFFICES ASSUME NEW k \in 1 .. n PROVE l[k] \in Nat \X Nat
    OBVIOUS
  <2>1. PICK b \in Q : l[k] = <<Nth(St, k), b>>
    BY <1>6
  <2>2. Nth(St, k) \in Nat /\ b \in Nat
    BY <1>1, <1>2, <1>3
  <2> QED  BY <2>1, <2>2
<1>8. l \in Seq(Nat \X Nat) /\ DOMAIN l = 1 .. n
  BY <1>3, <1>5, <1>7
<1>9. \A k \in 1 .. n : ~(l[k][2] < l[k][1] \/ l[k][2] > LastCpu) /\ l[k][1] .. l[k][2] \subseteq Q
  <2> SUFFICES ASSUME NEW k \in 1 .. n
               PROVE  ~(l[k][2] < l[k][1] \/ l[k][2] > LastCpu) /\ l[k][1] .. l[k][2] \subseteq Q
    OBVIOUS
  <2>1. PICK b \in Q : Nth(St, k) <= b /\ Nth(St, k) .. b \subseteq Q /\ l[k] = <<Nth(St, k), b>>
    BY <1>6
  <2>2. Nth(St, k) \in Nat /\ b \in Nat
    BY <1>1, <1>2, <1>3
  <2>3. b <= LastCpu
    BY <1>1 DEF Cpus
  <2>4. l[k][1] = Nth(St, k) /\ l[k][2] = b
    BY <2>1
  <2>5. ~(b < Nth(St, k) \/ b > LastCpu)
    BY <1>1, <2>1, <2>2, <2>3
  <2> QED  BY <2>1, <2>4, <2>5
<1>10. \A c \in Q : \E k \in 1 .. n : c \in l[k][1] .. l[k][2]
  <2> SUFFICES ASSUME NEW c \in Q PROVE \E k \in 1 .. n : c \in l[k][1] .. l[k][2]
    OBVIOUS
  <2>1. PICK a \in St : a <= c /\ a .. c \subseteq Q
    BY InARun DEF St
  <2>2. PICK k \in 1 .. n : Nth(St, k) = a
    BY <1>4
  <2>3. PICK b \in Q : a <= b /\ b + 1 \notin Q /\ l[k] = <<a, b>>
    BY <1>6, <2>2
  <2>4. a \in Nat /\ b \in Nat /\ c \in Nat
    BY <1>1, <1>2
  <2>5. ~(b < c)
    BY <2>1, <2>3, <2>4
  <2> QED  BY <2>1, <2>3, <2>4, <2>5
<1>11. C!ParseCpus(l) = UNION {l[i][1] .. l[i][2] : i \in 1 .. n}
  BY <1>8, <1>9 DEF C!ParseCpus
<1>12. UNION {l[i][1] .. l[i][2] : i \in 1 .. n} = Q
  BY <1>9, <1>10
<1> QED  BY <1>8, <1>11, <1>12 DEF l

\* What a list that can be read holds.
LEMMA ParseOK ==
  ASSUME NEW l \in Seq(Nat \X Nat)
  PROVE  C!ParseCpus(l) = None \/ C!ParseCpus(l) \in SUBSET Cpus
<1>1. CASE \E i \in DOMAIN l : l[i][2] < l[i][1] \/ l[i][2] > LastCpu
  BY <1>1 DEF C!ParseCpus
<1>2. CASE \A i \in DOMAIN l : ~(l[i][2] < l[i][1] \/ l[i][2] > LastCpu)
  <2>1. \A i \in DOMAIN l : l[i][1] \in Nat /\ l[i][2] \in Nat
    OBVIOUS
  <2>2. \A i \in DOMAIN l : l[i][1] .. l[i][2] \subseteq Cpus
    <3> SUFFICES ASSUME NEW i \in DOMAIN l PROVE l[i][1] .. l[i][2] \subseteq Cpus
      OBVIOUS
    <3>1. ~(l[i][2] > LastCpu) /\ l[i][1] \in Nat /\ l[i][2] \in Nat
      BY <1>2, <2>1
    <3>2. LastCpu \in Nat
      BY PagesOK
    <3> QED  BY <3>1, <3>2 DEF Cpus
  <2>3. C!ParseCpus(l) = UNION {l[i][1] .. l[i][2] : i \in DOMAIN l}
    BY <1>2 DEF C!ParseCpus
  <2> QED  BY <2>2, <2>3
<1> QED  BY <1>1, <1>2

\* No set of CPUs is None, so that what is written can be read.
LEMMA Written ==
  ASSUME NEW Q \in SUBSET Cpus
  PROVE  /\ C!ParseCpus(C!FormatCpus(Q)) # None
         /\ \A c : c \in Q <=> \E i \in DOMAIN C!FormatCpus(Q) :
                                  c \in C!FormatCpus(Q)[i][1] .. C!FormatCpus(Q)[i][2]
<1> DEFINE l == C!FormatCpus(Q)
<1>1. C!ParseCpus(l) = Q
  BY CpuListsReadBack
<1>2. Q # None
  BY NoneOK DEF Cpus
<1>3. Q = UNION {l[i][1] .. l[i][2] : i \in DOMAIN l}
  BY <1>1, <1>2 DEF C!ParseCpus
<1> QED  BY <1>1, <1>2, <1>3

Sides == {"cp", "dp"}

\* What is saved is written from CPUs fru-tester may use, each on one side.
CpusInv ==
    /\ C!CpusTypeOK
    /\ \E A, D \in SUBSET (Cpus \cap Allowed) :
        A \cap D = {} /\ s2["cp"] = C!FormatCpus(A) /\ s2["dp"] = C!FormatCpus(D)

LEMMA SideParts ==
  ASSUME C!CpusTypeOK
  PROVE  \A side \in Sides : /\ s1[side] \in Seq(Nat \X Nat) /\ s2[side] \in Seq(Nat \X Nat)
                             /\ C!On(side) \in SUBSET Cpus
                             /\ C!ParseCpus(s1[side]) # None => C!On(side) = C!ParseCpus(s1[side])
<1> SUFFICES ASSUME NEW side \in Sides
             PROVE  /\ s1[side] \in Seq(Nat \X Nat) /\ s2[side] \in Seq(Nat \X Nat)
                    /\ C!On(side) \in SUBSET Cpus
                    /\ C!ParseCpus(s1[side]) # None => C!On(side) = C!ParseCpus(s1[side])
  OBVIOUS
<1>1. s1[side] \in Seq(Nat \X Nat) /\ s2[side] \in Seq(Nat \X Nat)
  BY DEF C!CpusTypeOK, C!Sides, Sides
<1>2. C!ParseCpus(s1[side]) = None \/ C!ParseCpus(s1[side]) \in SUBSET Cpus
  BY <1>1, ParseOK
<1>3. C!On(side) = IF C!ParseCpus(s1[side]) = None THEN {} ELSE C!ParseCpus(s1[side])
  BY DEF C!On
<1> QED  BY <1>1, <1>2, <1>3

LEMMA CpusInit == C!Init => CpusInv
<1> SUFFICES ASSUME C!Init PROVE CpusInv
  OBVIOUS
<1>1. s1 = [side \in C!Sides |-> <<>>] /\ s2 = [side \in C!Sides |-> <<>>] /\ s3 \in BOOLEAN
  BY DEF C!Init, C!Unpinned
<1>2. <<>> \in Seq(Nat \X Nat)
  OBVIOUS
<1>3. C!CpusTypeOK
  BY <1>1, <1>2 DEF C!CpusTypeOK
<1>4. C!FormatCpus({}) = <<>>
  <2>1. C!Starts({}) = {} /\ C!Cardinality({}) = 0
    BY FS_EmptySet, CpusSame DEF C!Starts
  <2>2. C!FormatCpus({}) = [k \in 1 .. 0 |-> C!RunFrom(C!Nth({}, k), {})]
    BY <2>1 DEF C!FormatCpus
  <2> QED  BY <2>2
<1>5. s2["cp"] = <<>> /\ s2["dp"] = <<>>
  BY <1>1 DEF C!Sides
<1>6. {} \in SUBSET (Cpus \cap Allowed) /\ {} \cap {} = {}
  OBVIOUS
<1>7. s2["cp"] = C!FormatCpus({}) /\ s2["dp"] = C!FormatCpus({})
  BY <1>4, <1>5
<1> QED  BY <1>3, <1>6, <1>7 DEF CpusInv

\* What a side has after a click.
Clicked(side, c) == IF C!NextSide(c) = side THEN C!On(side) \cup {c} ELSE C!On(side) \ {c}

LEMMA ClickedOK ==
  ASSUME C!CpusTypeOK, NEW c \in Cpus, C!Toggle(c)
  PROVE  /\ s1' = [side \in C!Sides |-> C!FormatCpus(Clicked(side, c))] /\ s2' = s2
         /\ \A side \in Sides : /\ Clicked(side, c) \in SUBSET Cpus
                                /\ C!ParseCpus(s1'[side]) = Clicked(side, c) /\ C!ParseCpus(s1'[side]) # None
                                /\ s1'[side] \in Seq(Nat \X Nat)
<1>1. s1' = [side \in C!Sides |-> C!FormatCpus(Clicked(side, c))] /\ s2' = s2
  BY DEF C!Toggle, Clicked
<1>2. ASSUME NEW side \in Sides
      PROVE  /\ Clicked(side, c) \in SUBSET Cpus
             /\ C!ParseCpus(s1'[side]) = Clicked(side, c) /\ C!ParseCpus(s1'[side]) # None
             /\ s1'[side] \in Seq(Nat \X Nat)
  <2>1. Clicked(side, c) \in SUBSET Cpus
    BY SideParts, <1>2 DEF Clicked
  <2>2. s1'[side] = C!FormatCpus(Clicked(side, c))
    BY <1>1, <1>2 DEF Sides, C!Sides
  <2> QED  BY <2>1, <2>2, CpuListsReadBack, Written
<1> QED  BY <1>1, <1>2

LEMMA CpusStep == CpusInv /\ C!Next => CpusInv'
<1> SUFFICES ASSUME CpusInv, C!Next PROVE CpusInv'
  OBVIOUS
<1>0. C!CpusTypeOK /\ s1 \in [C!Sides -> Seq(Nat \X Nat)] /\ s2 \in [C!Sides -> Seq(Nat \X Nat)] /\ s3 \in BOOLEAN
  BY DEF CpusInv, C!CpusTypeOK
<1>1. CASE C!SetField
  <2>1. PICK side \in C!Sides, l \in Typed : s1' = [s1 EXCEPT ![side] = l]
    BY <1>1 DEF C!SetField
  <2>2. l \in Seq(Nat \X Nat)
    BY PagesOK
  <2>3. s1' \in [C!Sides -> Seq(Nat \X Nat)] /\ s2' = s2 /\ s3' = s3
    BY <1>0, <1>1, <2>1, <2>2 DEF C!SetField
  <2> QED  BY <1>0, <2>3 DEF CpusInv, C!CpusTypeOK
<1>2. CASE C!HandleSave
  <2>1. CASE C!Usable(s1)
    <3> DEFINE A == C!ParseCpus(s1["cp"])
               D == C!ParseCpus(s1["dp"])
    <3>1. s2' = [side \in C!Sides |-> C!FormatCpus(C!ParseCpus(s1[side]))] /\ s1' = s2' /\ s3' = s3
      BY <1>2, <2>1 DEF C!HandleSave
    <3>2. A # None /\ D # None /\ A \subseteq Allowed /\ D \subseteq Allowed /\ A \cap D = {}
      BY <2>1 DEF C!Usable, C!Sides
    <3>3. A \in SUBSET (Cpus \cap Allowed) /\ D \in SUBSET (Cpus \cap Allowed)
      BY <1>0, <3>2, SideParts DEF Sides
    <3>4. s2'["cp"] = C!FormatCpus(A) /\ s2'["dp"] = C!FormatCpus(D)
      BY <3>1 DEF C!Sides
    <3>5. C!FormatCpus(A) \in Seq(Nat \X Nat) /\ C!FormatCpus(D) \in Seq(Nat \X Nat)
      BY <3>3, CpuListsReadBack
    <3>6. s2' \in [C!Sides -> Seq(Nat \X Nat)]
      BY <3>1, <3>5 DEF C!Sides
    <3> QED  BY <1>0, <3>1, <3>2, <3>3, <3>4, <3>6 DEF CpusInv, C!CpusTypeOK
  <2>2. CASE ~C!Usable(s1)
    BY <1>2, <2>2 DEF C!HandleSave, CpusInv, C!CpusTypeOK
  <2> QED  BY <2>1, <2>2
<1>3. CASE C!Reset
  BY <1>0, <1>3 DEF C!Reset, CpusInv, C!CpusTypeOK
<1>4. CASE C!RunChanges
  BY <1>0, <1>4 DEF C!RunChanges, CpusInv, C!CpusTypeOK
<1>5. ASSUME NEW c \in C!HostCpus, C!Toggle(c) PROVE CpusInv'
  <2>1. c \in Cpus
    BY DEF C!HostCpus, Cpus
  <2>2. /\ s1' = [side \in C!Sides |-> C!FormatCpus(Clicked(side, c))] /\ s2' = s2
        /\ \A side \in Sides : s1'[side] \in Seq(Nat \X Nat)
    BY <1>0, <1>5, <2>1, ClickedOK
  <2>3. s1' \in [C!Sides -> Seq(Nat \X Nat)] /\ s3' = s3
    BY <1>5, <2>2 DEF Sides, C!Sides, C!Toggle
  <2> QED  BY <1>0, <2>2, <2>3 DEF CpusInv, C!CpusTypeOK
<1> QED  BY <1>1, <1>2, <1>3, <1>4, <1>5 DEF C!Next

LEMMA CpusUsable == CpusInv => C!SavedIsUsable
<1> SUFFICES ASSUME CpusInv, NEW cpu \in C!HostCpus
             PROVE  LET sides == {side \in C!Sides : \E i \in DOMAIN s2[side] :
                                                       cpu \in s2[side][i][1] .. s2[side][i][2]}
                    IN  C!Cardinality(sides) <= 1 /\ (sides # {} => cpu \in Allowed)
  BY DEF C!SavedIsUsable
<1> DEFINE sides == {side \in C!Sides : \E i \in DOMAIN s2[side] : cpu \in s2[side][i][1] .. s2[side][i][2]}
<1>1. PICK A \in SUBSET (Cpus \cap Allowed), D \in SUBSET (Cpus \cap Allowed) :
          A \cap D = {} /\ s2["cp"] = C!FormatCpus(A) /\ s2["dp"] = C!FormatCpus(D)
  BY DEF CpusInv
<1>2. A \in SUBSET Cpus /\ D \in SUBSET Cpus
  OBVIOUS
<1>3. cpu \in A <=> \E i \in DOMAIN s2["cp"] : cpu \in s2["cp"][i][1] .. s2["cp"][i][2]
  BY <1>1, <1>2, Written
<1>4. cpu \in D <=> \E i \in DOMAIN s2["dp"] : cpu \in s2["dp"][i][1] .. s2["dp"][i][2]
  BY <1>1, <1>2, Written
<1>5. ("cp" \in sides <=> cpu \in A) /\ ("dp" \in sides <=> cpu \in D) /\ sides \subseteq {"cp", "dp"}
  BY <1>3, <1>4 DEF C!Sides
<1> HIDE DEF sides
<1>6. sides = {} \/ sides = {"cp"} \/ sides = {"dp"}
  BY <1>1, <1>5
<1>7. C!Cardinality(sides) = 0 \/ C!Cardinality(sides) = 1
  BY <1>6, CpusSame, FS_EmptySet, FS_Singleton
<1>8. sides # {} => cpu \in Allowed
  BY <1>1, <1>5
<1> QED  BY <1>7, <1>8 DEF sides

LEMMA CpusMove == CpusInv => C!ClickMovesOne
<1> SUFFICES ASSUME CpusInv, NEW c \in C!HostCpus, C!Toggle(c), C!Readable PROVE C!Clicks(c)
  BY DEF C!ClickMovesOne
<1>1. c \in Cpus /\ C!CpusTypeOK
  BY DEF C!HostCpus, Cpus, CpusInv
<1>2. /\ s1' = [side \in C!Sides |-> C!FormatCpus(Clicked(side, c))] /\ s2' = s2
      /\ \A side \in Sides : /\ Clicked(side, c) \in SUBSET Cpus
                             /\ C!ParseCpus(s1'[side]) = Clicked(side, c) /\ C!ParseCpus(s1'[side]) # None
  BY <1>1, ClickedOK
<1>3. \A side \in Sides : C!On(side)' = Clicked(side, c)
  <2> SUFFICES ASSUME NEW side \in Sides PROVE C!On(side)' = Clicked(side, c)
    OBVIOUS
  <2>1. C!On(side)' = IF C!ParseCpus(s1'[side]) = None THEN {} ELSE C!ParseCpus(s1'[side])
    BY DEF C!On, C!ParseCpus
  <2> QED  BY <1>2, <2>1
<1>4. C!SideOf(c) \in Sides \cup {None} /\ None \notin Sides
  BY NoneOK DEF C!SideOf, Sides
<1>5. C!NextSide(c) = IF C!SideOf(c) = "cp" THEN "dp" ELSE IF C!SideOf(c) = "dp" THEN None ELSE "cp"
  BY DEF C!NextSide
<1>6. C!SideOf(c)' = C!NextSide(c)
  <2>1. C!SideOf(c)' = IF c \in Clicked("cp", c) THEN "cp" ELSE IF c \in Clicked("dp", c) THEN "dp" ELSE None
    BY <1>3 DEF C!SideOf, Sides
  <2>2. (c \in Clicked("cp", c) <=> C!NextSide(c) = "cp") /\ (c \in Clicked("dp", c) <=> C!NextSide(c) = "dp")
    BY DEF Clicked
  <2>3. C!NextSide(c) \in {"cp", "dp", None}
    BY <1>5
  <2> QED  BY <2>1, <2>2, <2>3
<1>7. \A side \in Sides : C!On(side)' \ {c} = C!On(side) \ {c}
  BY <1>3 DEF Clicked
<1>8. ASSUME \A side \in C!Sides : C!On(side)' = C!ParseCpus(s2[side]) PROVE s1' = s2
  <2>1. PICK A \in SUBSET (Cpus \cap Allowed), D \in SUBSET (Cpus \cap Allowed) :
            s2["cp"] = C!FormatCpus(A) /\ s2["dp"] = C!FormatCpus(D)
    BY DEF CpusInv
  <2>2. A \in SUBSET Cpus /\ D \in SUBSET Cpus
    OBVIOUS
  <2>3. C!ParseCpus(s2["cp"]) = A /\ C!ParseCpus(s2["dp"]) = D
    BY <2>1, <2>2, CpuListsReadBack
  <2>4. Clicked("cp", c) = A /\ Clicked("dp", c) = D
    BY <1>3, <1>8, <2>3 DEF Sides, C!Sides
  <2>5. s1'["cp"] = s2["cp"] /\ s1'["dp"] = s2["dp"]
    BY <1>2, <2>1, <2>4 DEF C!Sides
  <2>6. s2 = [side \in C!Sides |-> s2[side]]
    BY <1>1 DEF C!CpusTypeOK
  <2>7. s1' = [side \in C!Sides |-> s1'[side]]
    BY <1>2
  <2> QED  BY <2>5, <2>6, <2>7 DEF C!Sides
<1>9. (\A side \in C!Sides : C!On(side)' = C!ParseCpus(s2[side])) => ~C!IsDirty'
  BY <1>2, <1>8 DEF C!IsDirty
<1> QED  BY <1>2, <1>5, <1>6, <1>7, <1>9 DEF C!Clicks, Sides, C!Sides

-----------------------------------------------------------------------------
(* The host's interfaces.                                                  *)

HostInv == H!HostTypeOK /\ H!MenuComes

LEMMA ChecksInit == H!Init => HostInv
<1> SUFFICES ASSUME H!Init PROVE HostInv
  OBVIOUS
<1>1. s8 \in 0 .. HostEvents
  <2>1. HostEvents \in Nat
    BY PagesOK
  <2>2. s8 = 0
    BY Zenon DEF H!Init
  <2> QED  BY <2>1, <2>2
<1>0. /\ s1 = None /\ s2 \in Testers /\ s3 \in [Planes -> Ifaces \cup {""}]
      /\ s4 = "loading" /\ s5 = {s2}
  BY Zenon DEF H!Init
<1>2. s6 \in [Planes -> H!Targets \cup {None}] /\ s7 \in [Planes -> [target : H!Targets, ok : BOOLEAN] \cup {None}]
  BY Zenon DEF H!Init
<1> QED  BY <1>0, <1>1, <1>2, Zenon DEF HostInv, H!HostTypeOK, H!MenuComes

LEMMA HostCounts ==
  ASSUME H!HostTypeOK
  PROVE  /\ H!Happens => s8' \in 0 .. HostEvents
         /\ UNCHANGED s8 => s8' \in 0 .. HostEvents
<1>1. HostEvents \in Nat /\ s8 \in 0 .. HostEvents
  BY PagesOK, Zenon DEF H!HostTypeOK
<1> QED  BY <1>1 DEF H!Happens

LEMMA HostLoads ==
  ASSUME HostInv, NEW t \in Testers, NEW ts, H!LoadInterfaces(t, ts)
  PROVE  /\ s4' \in Testers \cup {"loading", "unlisted"} /\ s5' \subseteq Testers
         /\ s4' = "loading" => s5' # {}
  BY Zenon DEF HostInv, H!HostTypeOK, H!LoadInterfaces

LEMMA HostStep == HostInv /\ H!Next => HostInv'
<1> SUFFICES ASSUME HostInv, H!Next PROVE HostInv'
  OBVIOUS
<1>0. H!HostTypeOK /\ H!MenuComes
  BY DEF HostInv
<1>1. CASE H!TestersListed
  <2>1. s1' \in (SUBSET Testers) \cup {None} /\ H!LoadInterfaces(s2, s1') /\ UNCHANGED <<s2, s3, s6, s7, s8>>
    BY <1>1 DEF H!TestersListed
  <2>2. s2 \in Testers
    BY <1>0, Zenon DEF H!HostTypeOK
  <2>3. /\ s4' \in Testers \cup {"loading", "unlisted"} /\ s5' \subseteq Testers
        /\ s4' = "loading" => s5' # {}
    BY <2>1, <2>2, HostLoads
  <2> QED  BY <1>0, <2>1, <2>3, Zenon DEF HostInv, H!HostTypeOK, H!MenuComes
<1>2. ASSUME NEW t \in Testers, H!ListingAnswered(t) PROVE HostInv'
  <2>1. s4' \in {t, "unlisted"} /\ s5' \subseteq Testers /\ UNCHANGED <<s1, s2, s3, s6, s7, s8>>
    BY <1>0, <1>2, Zenon DEF H!ListingAnswered, H!HostTypeOK
  <2>2. s4' # "loading"
    BY <1>2, <2>1, PagesOK
  <2> QED  BY <1>0, <2>1, <2>2, Zenon DEF HostInv, H!HostTypeOK, H!MenuComes
<1>3. CASE H!PickTester
  <2>1. PICK t \in s1 \ {s2} : s2' = t /\ H!LoadInterfaces(t, s1)
    BY <1>3 DEF H!PickTester
  <2>2. s1 \in SUBSET Testers
    <3>1. s1 # None
      BY <1>3 DEF H!PickTester
    <3>2. s1 \in (SUBSET Testers) \cup {None}
      BY <1>0, Zenon DEF H!HostTypeOK
    <3> QED  BY <3>1, <3>2
  <2>3. /\ s4' \in Testers \cup {"loading", "unlisted"} /\ s5' \subseteq Testers
        /\ s4' = "loading" => s5' # {}
    BY <2>1, <2>2, HostLoads
  <2>4. s8' \in 0 .. HostEvents /\ UNCHANGED <<s1, s3, s6, s7>>
    BY <1>0, <1>3, HostCounts DEF H!PickTester
  <2> QED  BY <1>0, <2>1, <2>2, <2>3, <2>4, Zenon DEF HostInv, H!HostTypeOK, H!MenuComes
<1>4. CASE H!Refresh
  <2>1. H!LoadInterfaces(s2, s1) /\ s2 \in Testers
    BY <1>0, <1>4, Zenon DEF H!Refresh, H!HostTypeOK
  <2>2. /\ s4' \in Testers \cup {"loading", "unlisted"} /\ s5' \subseteq Testers
        /\ s4' = "loading" => s5' # {}
    BY <2>1, HostLoads
  <2>3. s8' \in 0 .. HostEvents /\ UNCHANGED <<s1, s2, s3, s6, s7>>
    BY <1>0, <1>4, HostCounts DEF H!Refresh
  <2> QED  BY <1>0, <2>2, <2>3, Zenon DEF HostInv, H!HostTypeOK, H!MenuComes
<1>5. ASSUME NEW p \in Planes, H!PickInterface(p) PROVE HostInv'
  <2>1. s8' \in 0 .. HostEvents /\ UNCHANGED <<s1, s2, s4, s5, s6, s7>>
    BY <1>0, <1>5, HostCounts DEF H!PickInterface
  <2>2. PICK i \in H!Offered \ {s3[p]} : s3' = [s3 EXCEPT ![p] = i]
    BY <1>5 DEF H!PickInterface
  <2>3. i \in Ifaces
    BY <1>0, <2>2, PagesOK, Zenon DEF H!Offered, H!HostTypeOK
  <2>4. s3' \in [Planes -> Ifaces \cup {""}]
    BY <1>0, <2>2, <2>3, Zenon DEF H!HostTypeOK
  <2> QED  BY <1>0, <2>1, <2>4, Zenon DEF HostInv, H!HostTypeOK, H!MenuComes
<1>6. ASSUME NEW p \in Planes, H!HandlePing(p) PROVE HostInv'
  <2>1. s8' \in 0 .. HostEvents /\ UNCHANGED <<s1, s2, s3, s4, s5, s7>>
    BY <1>0, <1>6, HostCounts DEF H!HandlePing
  <2>2. [tester |-> s2, iface |-> s3[p]] \in H!Targets
    BY <1>0, Zenon DEF H!HostTypeOK, H!Targets
  <2>3. s6' \in [Planes -> H!Targets \cup {None}]
    BY <1>0, <1>6, <2>2, Zenon DEF H!HostTypeOK, H!HandlePing
  <2> QED  BY <1>0, <2>1, <2>3, Zenon DEF HostInv, H!HostTypeOK, H!MenuComes
<1>7. ASSUME NEW p \in Planes, H!PingAnswered(p) PROVE HostInv'
  <2>1. UNCHANGED <<s1, s2, s3, s4, s5, s8>>
    BY <1>7 DEF H!PingAnswered
  <2>2. s6[p] \in H!Targets /\ s6' = [s6 EXCEPT ![p] = None]
    BY <1>0, <1>7, Zenon DEF H!PingAnswered, H!HostTypeOK
  <2>3. s6' \in [Planes -> H!Targets \cup {None}]
    BY <1>0, <2>2, Zenon DEF H!HostTypeOK
  <2>4. PICK ok \in BOOLEAN : s7' = [s7 EXCEPT ![p] = [target |-> s6[p], ok |-> ok]]
    BY <1>7 DEF H!PingAnswered
  <2>5. [target |-> s6[p], ok |-> ok] \in [target : H!Targets, ok : BOOLEAN]
    BY <2>2
  <2>6. s7' \in [Planes -> [target : H!Targets, ok : BOOLEAN] \cup {None}]
    BY <1>0, <2>4, <2>5, Zenon DEF H!HostTypeOK
  <2> QED  BY <1>0, <2>1, <2>3, <2>6, Zenon DEF HostInv, H!HostTypeOK, H!MenuComes
<1> QED  BY <1>1, <1>2, <1>3, <1>4, <1>5, <1>6, <1>7 DEF H!Next

-----------------------------------------------------------------------------
(* The form of the test plan.                                              *)

LEMMA ProfilesHave ==
  ASSUME NEW p \in S!Profiles
  PROVE  p # None /\ DOMAIN p \subseteq Ids /\ \A id \in DOMAIN p : p[id] \in S!Forms
<1>1. PICK D \in SUBSET Ids : p \in [D -> S!Forms]
  BY DEF S!Profiles
<1> QED  BY <1>1, NoListOK

LEMMA ProfilesMade ==
  ASSUME NEW D \in SUBSET Ids, NEW p \in [D -> S!Forms] PROVE p \in S!Profiles
  BY DEF S!Profiles

LEMMA LeastIs == \A Q \in SUBSET Nat : Q # {} => S!Min(Q) \in Q
<1> SUFFICES ASSUME NEW Q \in SUBSET Nat, Q # {} PROVE S!Min(Q) \in Q
  OBVIOUS
<1>1. \E n \in Q : \A m \in Q : n <= m
  BY LeastNat
<1> QED  BY <1>1 DEF S!Min

LEMMA FormsMade ==
    /\ S!DefaultForm \in S!Forms
    /\ \A l : S!HasFreeName(l, S!DefaultForm.name) =>
         [S!DefaultForm EXCEPT !.name = S!FreeName(l, @)] \in S!Forms
<1>1. S!Min(Names) \in Names
  BY PagesOK, LeastIs
<1>2. S!DefaultForm \in S!Forms
  BY <1>1, PagesOK DEF S!DefaultForm, S!Forms
<1>3. ASSUME NEW l, S!HasFreeName(l, S!DefaultForm.name)
      PROVE  [S!DefaultForm EXCEPT !.name = S!FreeName(l, @)] \in S!Forms
  <2> DEFINE b == S!DefaultForm.name
             Q == {n \in Names : n >= b /\ S!NameOwner(l, n, None) = {}}
  <2>1. Q \in SUBSET Nat /\ Q # {} /\ Q \subseteq Names
    BY <1>3, PagesOK DEF S!HasFreeName
  <2>2. S!FreeName(l, b) = S!Min(Q)
    BY DEF S!FreeName
  <2>3. S!FreeName(l, b) \in Names
    BY <2>1, <2>2, LeastIs
  <2> QED  BY <1>2, <2>3 DEF S!Forms
<1> QED  BY <1>2, <1>3

\* A check that counts is of the form as it stands, nothing is sent or asked while the list
\* is loading, and no profile is open.
SetupInv ==
    /\ S!SetupTypeOK /\ S!ValidationIsOfForm /\ S!OpenIsListed
    /\ s8 # "none" \/ s9.kind # "none" => s2 # None
    /\ s2 = None => s5 = None
    /\ \A c \in s11 : c.newest => c.form = s3

LEMMA SetupInit == S!Init => SetupInv
<1> SUFFICES ASSUME S!Init PROVE SetupInv
  OBVIOUS
<1>1. s1 \in S!Profiles /\ s6 \in DOMAIN s1 \cup {None}
  BY DEF S!Init
<1>2. s6 \in Ids \cup {None}
  BY <1>1, ProfilesHave
<1>3. s3 \in S!Forms
  BY FormsMade DEF S!Init
<1>4. s15 \in 0 .. SetupEvents
  BY PagesOK DEF S!Init
<1>5. s9 \in S!Ops /\ s9.kind = "none"
  BY DEF S!Init, S!Ops, S!NoOp
<1>6. /\ s2 = None /\ s4 = None /\ s5 = None /\ s7 = FALSE /\ s8 = "none" /\ s10 = FALSE
      /\ s11 = {} /\ s12 = None /\ s13 = None /\ s14 = FALSE
  BY DEF S!Init
<1>7. S!SetupTypeOK
  BY <1>1, <1>2, <1>3, <1>4, <1>5, <1>6 DEF S!SetupTypeOK
<1> QED  BY <1>5, <1>6, <1>7 DEF SetupInv, S!ValidationIsOfForm, S!OpenIsListed, S!Loading

Asked == [form : S!Forms, newest : BOOLEAN]

LEMMA SetupHas ==
  ASSUME SetupInv
  PROVE  /\ s1 \in S!Profiles /\ (s2 # None => s2 \in S!Profiles)
         /\ s3 \in S!Forms /\ s4 \in S!Forms \cup {None} /\ s5 \in Ids \cup {None}
         /\ s6 \in Ids \cup {None} /\ s7 \in BOOLEAN /\ s8 \in {"none", "choose", "save", "start"}
         /\ s9 \in S!Ops /\ s10 \in BOOLEAN /\ s11 \subseteq Asked /\ s12 \in S!Forms \cup {None}
         /\ s13 \in (SUBSET Testers) \cup {None} /\ s14 \in BOOLEAN /\ s15 \in 0 .. SetupEvents
  BY DEF SetupInv, S!SetupTypeOK, Asked

LEMMA SetupCounts ==
  ASSUME SetupInv
  PROVE  /\ S!Happens => s15' \in 0 .. SetupEvents
         /\ UNCHANGED s15 => s15' \in 0 .. SetupEvents
<1>1. SetupEvents \in Nat /\ s15 \in 0 .. SetupEvents
  BY PagesOK, SetupHas
<1> QED  BY <1>1 DEF S!Happens

\* After a change no check counts, and an answer stays only until the next check.
LEMMA SetupChecksAgain ==
  ASSUME SetupInv, NEW f, NEW ts, S!Revalidate(f, ts)
  PROVE  /\ s10' \in BOOLEAN /\ s11' \subseteq Asked /\ (\A c \in s11' : ~c.newest)
         /\ s12' \in S!Forms \cup {None} /\ (~s10' => s12' = None)
<1>1. s11' = {[c EXCEPT !.newest = FALSE] : c \in s11} /\ s11 \subseteq Asked
  BY SetupHas DEF S!Revalidate, S!Outdated
<1>2. \A c \in Asked : [c EXCEPT !.newest = FALSE] \in Asked /\ ~[c EXCEPT !.newest = FALSE].newest
  BY DEF Asked
<1>3. s10' \in BOOLEAN /\ s12' \in {s12, None} /\ (~s10' => s12' = None)
  BY Zenon DEF S!Revalidate
<1> QED  BY <1>1, <1>2, <1>3, SetupHas

\* What the invariant says of the next state, by parts.
LEMMA SetupNext ==
  ASSUME s1' \in S!Profiles, s2' \in S!Profiles \cup {None}, s3' \in S!Forms, s4' \in S!Forms \cup {None},
         s5' \in Ids \cup {None}, s6' \in Ids \cup {None}, s7' \in BOOLEAN,
         s8' \in {"none", "choose", "save", "start"}, s9' \in S!Ops,
         s10' \in BOOLEAN, s11' \subseteq Asked, s12' \in S!Forms \cup {None}, s13' \in (SUBSET Testers) \cup {None},
         s14' \in BOOLEAN, s15' \in 0 .. SetupEvents,
         s2' # None /\ ~s10' /\ (\A c \in s11' : ~c.newest) => s12' \in {None, s3'},
         s2' # None /\ s5' # None => s5' \in DOMAIN s2' /\ s2'[s5'] = s4',
         s8' # "none" \/ s9'.kind # "none" => s2' # None,
         s2' = None => s5' = None,
         \A c \in s11' : c.newest => c.form = s3'
  PROVE  SetupInv'
<1>1. S!SetupTypeOK'
  BY DEF S!SetupTypeOK, Asked
<1>2. S!ValidationIsOfForm' /\ S!OpenIsListed'
  BY DEF S!ValidationIsOfForm, S!OpenIsListed, S!Loading
<1> QED  BY <1>1, <1>2 DEF SetupInv

\* A profile is opened in a list that has it, or a new one is.
LEMMA SetupOpens ==
  ASSUME SetupInv, s1' \in S!Profiles, s2' \in S!Profiles, NEW f \in S!Forms, NEW id \in Ids \cup {None},
         S!FormBecomes(f), s4' = f, s5' = id, s6' \in Ids \cup {None},
         id # None => id \in DOMAIN s2' /\ s2'[id] = f,
         s7' \in BOOLEAN, s8' \in {"none", "choose", "save", "start"}, s9' \in S!Ops,
         UNCHANGED <<s13, s14>>, s15' \in 0 .. SetupEvents
  PROVE  SetupInv'
<1>1. s3' = f /\ S!Revalidate(f, s13)
  BY DEF S!FormBecomes
<1>2. /\ s10' \in BOOLEAN /\ s11' \subseteq Asked /\ (\A c \in s11' : ~c.newest)
      /\ s12' \in S!Forms \cup {None} /\ (~s10' => s12' = None)
  BY <1>1, SetupChecksAgain
<1>3. s2' # None
  BY ProfilesHave
<1> QED  BY <1>1, <1>2, <1>3, SetupHas, SetupNext

\* Nothing changes but what the page sends, and what it asks.
LEMMA SetupSends ==
  ASSUME SetupInv, UNCHANGED <<s2, s3, s4, s5, s6, s10, s11, s12, s13>>,
         s1' \in S!Profiles, s7' \in BOOLEAN, s8' \in {"none", "choose", "save", "start"}, s9' \in S!Ops,
         s14' \in BOOLEAN, s15' \in 0 .. SetupEvents,
         s8' # "none" \/ s9'.kind # "none" => s2 # None
  PROVE  SetupInv'
<1>1. /\ s2 # None /\ ~s10 /\ (\A c \in s11 : ~c.newest) => s12 \in {None, s3}
      /\ s2 # None /\ s5 # None => s5 \in DOMAIN s2 /\ s2[s5] = s4
      /\ s2 = None => s5 = None
      /\ \A c \in s11 : c.newest => c.form = s3
  BY DEF SetupInv, S!ValidationIsOfForm, S!OpenIsListed, S!Loading
<1> QED  BY <1>1, SetupHas, SetupNext

LEMMA SetupOps ==
  ASSUME NEW kind \in {"create", "update", "start"}, NEW f \in S!Forms, NEW id \in Ids \cup {None},
         NEW then \in {"save", "start"}, S!Send(kind, f, id, then)
  PROVE  s9' \in S!Ops /\ s7' = TRUE
<1>1. s9' = [kind |-> kind, form |-> f, id |-> id, then |-> then] /\ s7' = TRUE
  BY DEF S!Send
<1> QED  BY <1>1 DEF S!Ops

\* What is sent under a name.
LEMMA SetupSavesNew ==
  ASSUME SetupInv, NEW name \in Names \cup {0}, NEW then \in {"save", "start"}, S!SaveNew(name, then)
  PROVE  s9' \in S!Ops /\ s7' \in BOOLEAN /\ s8' \in {"none", "choose", "save", "start"}
<1>1. [s3 EXCEPT !.name = name] \in S!Forms
  BY SetupHas DEF S!Forms
<1>2. CASE name = 0 \/ S!NameOwner(s2, name, None) # {}
  BY <1>2, SetupHas DEF S!SaveNew
<1>3. CASE ~(name = 0 \/ S!NameOwner(s2, name, None) # {})
  <2>1. s8' = "none" /\ S!Send("create", [s3 EXCEPT !.name = name], None, then)
    BY <1>3 DEF S!SaveNew
  <2>2. s9' \in S!Ops /\ s7' = TRUE
    BY <1>1, <2>1, SetupOps
  <2> QED  BY <2>1, <2>2
<1> QED  BY <1>2, <1>3

LEMMA NoOpOK == S!NoOp \in S!Ops /\ S!NoOp.kind = "none"
  BY DEF S!Ops, S!NoOp

\* A saved form is one; the store with it.
LEMMA SetupStores ==
  ASSUME SetupInv, s9.kind \in {"create", "update"}, NEW id \in S!SaveIds, S!Accepts(id)
  PROVE  /\ id \in Ids /\ s9.form \in S!Forms
         /\ S!Stored(id) => s1' \in S!Profiles
<1>1. s9 \in S!Ops /\ s1 \in S!Profiles
  BY SetupHas
<1>2. s9 \in [kind : {"create", "update", "start"}, form : S!Forms, id : Ids \cup {None}, then : {"save", "start"}]
  BY <1>1 DEF S!Ops, S!NoOp
<1>3. DOMAIN s1 \subseteq Ids /\ \A i \in DOMAIN s1 : s1[i] \in S!Forms
  BY <1>1, ProfilesHave
<1>4. id \in Ids
  BY <1>3 DEF S!SaveIds, S!Accepts
<1>5. s9.form \in S!Forms
  BY <1>2
<1>6. ASSUME S!Stored(id) PROVE s1' \in S!Profiles
  <2>1. s1' = [i \in DOMAIN s1 \cup {id} |-> IF i = id THEN s9.form ELSE s1[i]]
    BY <1>6 DEF S!Stored
  <2>2. s1' \in [DOMAIN s1 \cup {id} -> S!Forms]
    BY <1>3, <1>5, <2>1
  <2> QED  BY <1>3, <1>4, <2>2, ProfilesMade
<1> QED  BY <1>4, <1>5, <1>6

LEMMA SetupStep == SetupInv /\ S!Next => SetupInv'
<1> SUFFICES ASSUME SetupInv, S!Next PROVE SetupInv'
  OBVIOUS
<1>0. /\ s2 # None /\ ~s10 /\ (\A c \in s11 : ~c.newest) => s12 \in {None, s3}
      /\ s2 # None /\ s5 # None => s5 \in DOMAIN s2 /\ s2[s5] = s4
      /\ s8 # "none" \/ s9.kind # "none" => s2 # None
      /\ s2 = None => s5 = None
      /\ \A c \in s11 : c.newest => c.form = s3
  BY DEF SetupInv, S!ValidationIsOfForm, S!OpenIsListed, S!Loading
<1>1. CASE S!ListLoaded
  <2>1. /\ s2 = None /\ s2' = s1 /\ s1' = s1 /\ UNCHANGED <<s7, s8, s9, s13, s14, s15>>
    BY <1>1 DEF S!ListLoaded, S!Loading
  <2>2. s1 \in S!Profiles /\ DOMAIN s1 \subseteq Ids /\ \A i \in DOMAIN s1 : s1[i] \in S!Forms
    BY SetupHas, ProfilesHave
  <2>3. ASSUME NEW id \in DOMAIN s1, S!OpenProfile(id, s1[id]) PROVE SetupInv'
    <3>1. S!FormBecomes(s1[id]) /\ s4' = s1[id] /\ s5' = id /\ s6' = id
      BY <2>3 DEF S!OpenProfile
    <3> QED  BY <2>1, <2>2, <2>3, <3>1, SetupHas, SetupOpens, SetupCounts
  <2>4. ASSUME S!OpenNew(s1) PROVE SetupInv'
    <3> DEFINE f == [S!DefaultForm EXCEPT !.name = S!FreeName(s1, @)]
    <3>1. S!FormBecomes(f) /\ s4' = f /\ s5' = None /\ s6' = s6 /\ f \in S!Forms
      BY <2>4, FormsMade DEF S!OpenNew
    <3> QED  BY <2>1, <2>2, <3>1, SetupHas, SetupOpens, SetupCounts
  <2>5. DOMAIN s1 # {} => (CHOOSE id \in DOMAIN s1 : \A i \in DOMAIN s1 : s1[id].name <= s1[i].name) \in DOMAIN s1
    <3> SUFFICES ASSUME DOMAIN s1 # {}
                 PROVE  \E id \in DOMAIN s1 : \A i \in DOMAIN s1 : s1[id].name <= s1[i].name
      OBVIOUS
    <3> DEFINE Q == {s1[i].name : i \in DOMAIN s1}
    <3>1. \A i \in DOMAIN s1 : s1[i].name \in Nat
      <4> SUFFICES ASSUME NEW i \in DOMAIN s1 PROVE s1[i].name \in Nat
        OBVIOUS
      <4>1. s1[i].name \in Names \cup {0}
        BY <2>2 DEF S!Forms
      <4>2. \A n \in Names \cup {0} : n \in Nat
        BY PagesOK
      <4> QED  BY <4>1, <4>2
    <3>2. Q \in SUBSET Nat /\ Q # {}
      BY <3>1
    <3>3. PICK n \in Q : \A m \in Q : n <= m
      BY <3>2, LeastNat
    <3> QED  BY <3>3
  <2>6. (\E id \in DOMAIN s1 : S!OpenProfile(id, s1[id])) \/ S!OpenNew(s1)
    BY <1>1, <2>5 DEF S!ListLoaded
  <2> QED  BY <2>3, <2>4, <2>6
<1>2. CASE S!ListFailed
  <2>1. /\ s2 = None /\ s2' = [i \in {} |-> None] /\ S!FormBecomes(s3)
        /\ UNCHANGED <<s1, s4, s5, s6, s7, s8, s9, s13, s14>>
    BY <1>2 DEF S!ListFailed, S!Loading
  <2>2. s3' = s3 /\ S!Revalidate(s3, s13)
    BY <2>1 DEF S!FormBecomes
  <2>3. /\ s10' \in BOOLEAN /\ s11' \subseteq Asked /\ (\A c \in s11' : ~c.newest)
        /\ s12' \in S!Forms \cup {None} /\ (~s10' => s12' = None)
    BY <2>2, SetupChecksAgain
  <2>4. s2' \in [{} -> S!Forms] /\ {} \in SUBSET Ids
    BY <2>1
  <2>5. s2' \in S!Profiles
    BY <2>4, ProfilesMade
  <2>6. s2' # None /\ s5' = None
    BY <1>0, <2>1, <2>5, ProfilesHave
  <2>7. s15' \in 0 .. SetupEvents
    BY <1>2, SetupCounts DEF S!ListFailed
  <2> QED  BY <2>1, <2>2, <2>3, <2>5, <2>6, <2>7, SetupHas, SetupNext
<1>3. CASE S!TestersListed
  <2>1. PICK ts \in {Testers, Testers \ {DefaultTester}, {}} :
          /\ s13' = ts
          /\ IF s2 = None THEN UNCHANGED <<s10, s11, s12>> ELSE S!Revalidate(s3, ts)
    BY <1>3 DEF S!TestersListed, S!Loading
  <2>2. UNCHANGED <<s1, s2, s3, s4, s5, s6, s7, s8, s9, s14, s15>>
    BY <1>3 DEF S!TestersListed
  <2>3. s13' \in SUBSET Testers
    BY <2>1
  <2>4. CASE s2 = None
    <3>1. UNCHANGED <<s10, s11, s12>>
      BY <2>1, <2>4
    <3> QED  BY <1>0, <2>2, <2>3, <2>4, <3>1, SetupHas, SetupNext, SetupCounts
  <2>5. CASE s2 # None
    <3>1. S!Revalidate(s3, ts)
      BY <2>1, <2>5
    <3>2. /\ s10' \in BOOLEAN /\ s11' \subseteq Asked /\ (\A c \in s11' : ~c.newest)
          /\ s12' \in S!Forms \cup {None} /\ (~s10' => s12' = None)
      BY <3>1, SetupChecksAgain
    <3> QED  BY <1>0, <2>2, <2>3, <2>5, <3>2, SetupHas, SetupNext, SetupCounts
  <2> QED  BY <2>4, <2>5
<1>4. CASE S!TimerFires
  <2>1. /\ s10 /\ s10' = FALSE /\ s11' = s11 \cup {[form |-> s3, newest |-> TRUE]}
        /\ UNCHANGED <<s1, s2, s3, s4, s5, s6, s7, s8, s9, s12, s13, s14, s15>>
    BY <1>4 DEF S!TimerFires
  <2>2. [form |-> s3, newest |-> TRUE] \in Asked
    BY SetupHas DEF Asked
  <2>3. s11' \subseteq Asked /\ (\A c \in s11' : c.newest => c.form = s3) /\ (\E c \in s11' : c.newest)
    <3> DEFINE e == [form |-> s3, newest |-> TRUE]
    <3>1. e.form = s3 /\ e.newest
      OBVIOUS
    <3> HIDE DEF e
    <3>2. s11 \subseteq Asked
      BY SetupHas
    <3>3. s11' = s11 \cup {e} /\ e \in Asked
      BY <2>1, <2>2 DEF e
    <3> QED  BY <1>0, <3>1, <3>2, <3>3
  <2> QED  BY <1>0, <2>1, <2>3, SetupHas, SetupNext, SetupCounts
<1>5. ASSUME NEW c \in s11, S!CheckAnswered(c) PROVE SetupInv'
  <2>1. /\ s11' = s11 \ {c} /\ s12' \in (IF c.newest THEN {c.form, None} ELSE {s12})
        /\ UNCHANGED <<s1, s2, s3, s4, s5, s6, s7, s8, s9, s10, s13, s14, s15>>
    BY <1>5 DEF S!CheckAnswered
  <2>2. c \in Asked /\ s11' \subseteq Asked
    BY <2>1, SetupHas
  <2>3. c.form \in S!Forms /\ c.newest \in BOOLEAN
    BY <2>2 DEF Asked
  <2>4. s12' \in S!Forms \cup {None}
    BY <2>1, <2>3, SetupHas
  <2>5. s2 # None /\ ~s10 /\ (\A e \in s11' : ~e.newest) => s12' \in {None, s3}
    <3>1. CASE c.newest
      BY <1>0, <2>1, <3>1
    <3>2. CASE ~c.newest
      BY <1>0, <2>1, <3>2
    <3> QED  BY <3>1, <3>2
  <2> QED  BY <1>0, <2>1, <2>2, <2>4, <2>5, SetupHas, SetupNext, SetupCounts
<1>6. CASE S!HandleChange
  <2>1. PICK f \in S!TypedName \cup S!PickedTester \cup S!TypedField : S!FormBecomes(f)
    BY <1>6 DEF S!HandleChange
  <2>2. s2 # None /\ UNCHANGED <<s1, s2, s4, s5, s6, s7, s8, s9, s13, s14>>
    BY <1>6 DEF S!HandleChange, S!Loading
  <2>3. f \in S!Forms
    <3>1. s3 \in S!Forms
      BY SetupHas
    <3>2. CASE f \in S!TypedName
      BY <3>1, <3>2 DEF S!TypedName, S!Forms
    <3>3. CASE f \in S!PickedTester
      <4>1. PICK t \in IF s13 = None THEN {} ELSE s13 : f = [s3 EXCEPT !.tester = t]
        BY <3>3 DEF S!PickedTester
      <4>2. t \in Testers
        BY <4>1, SetupHas
      <4> QED  BY <3>1, <4>1, <4>2 DEF S!Forms
    <3>4. CASE f \in S!TypedField
      BY <3>1, <3>4 DEF S!TypedField, S!Forms
    <3> QED  BY <2>1, <3>2, <3>3, <3>4
  <2>4. s3' = f /\ S!Revalidate(f, s13)
    BY <2>1 DEF S!FormBecomes
  <2>5. /\ s10' \in BOOLEAN /\ s11' \subseteq Asked /\ (\A c \in s11' : ~c.newest)
        /\ s12' \in S!Forms \cup {None} /\ (~s10' => s12' = None)
    BY <2>4, SetupChecksAgain
  <2>6. s15' \in 0 .. SetupEvents
    BY <1>6, SetupCounts DEF S!HandleChange
  <2> QED  BY <1>0, <2>2, <2>3, <2>4, <2>5, <2>6, SetupHas, SetupNext
<1>7. ASSUME NEW id \in DOMAIN s2, s2 # None, S!OpenProfile(id, s2[id]), s15' \in 0 .. SetupEvents,
             UNCHANGED <<s1, s2, s7, s8, s9, s13, s14>>
      PROVE  SetupInv'
  <2>1. s2 \in S!Profiles /\ DOMAIN s2 \subseteq Ids /\ \A i \in DOMAIN s2 : s2[i] \in S!Forms
    BY <1>7, SetupHas, ProfilesHave
  <2>2. S!FormBecomes(s2[id]) /\ s4' = s2[id] /\ s5' = id /\ s6' = id
    BY <1>7 DEF S!OpenProfile
  <2> QED  BY <1>7, <2>1, <2>2, SetupHas, SetupOpens
<1>8. CASE S!Switch
  <2>1. /\ s2 # None /\ UNCHANGED <<s1, s2, s7, s8, s9, s13, s14>> /\ s15' \in 0 .. SetupEvents
    BY <1>8, SetupCounts DEF S!Switch, S!Loading
  <2>2. ASSUME S!OpenNew(s2) PROVE SetupInv'
    <3> DEFINE f == [S!DefaultForm EXCEPT !.name = S!FreeName(s2, @)]
    <3>1. S!FormBecomes(f) /\ s4' = f /\ s5' = None /\ s6' = s6 /\ f \in S!Forms
      BY <2>2, FormsMade DEF S!OpenNew
    <3> QED  BY <2>1, <3>1, SetupHas, SetupOpens
  <2>3. (\E id \in DOMAIN s2 : S!OpenProfile(id, s2[id])) \/ S!OpenNew(s2)
    BY <1>8 DEF S!Switch
  <2> QED  BY <1>7, <2>1, <2>2, <2>3
<1>9. CASE S!HandleCancel
  <2>1. /\ s2 # None /\ UNCHANGED <<s1, s2, s7, s8, s9, s13>> /\ s15' \in 0 .. SetupEvents
    BY <1>9, SetupCounts DEF S!HandleCancel, S!Loading
  <2>2. CASE s6 \in DOMAIN s2
    BY <1>7, <1>9, <2>1, <2>2 DEF S!HandleCancel
  <2>3. CASE s6 \notin DOMAIN s2
    <3>1. s14' = TRUE /\ UNCHANGED <<s3, s4, s5, s6, s10, s11, s12>>
      BY <1>9, <2>3 DEF S!HandleCancel
    <3> QED  BY <1>0, <2>1, <3>1, SetupHas, SetupSends
  <2> QED  BY <2>2, <2>3
<1>10. CASE S!HandleSave
  <2>1. /\ s2 # None /\ UNCHANGED <<s1, s2, s3, s4, s5, s6, s10, s11, s12, s13, s14>> /\ s15' \in 0 .. SetupEvents
    BY <1>10, SetupCounts DEF S!HandleSave, S!Loading, S!unedited
  <2>2. s9' \in S!Ops /\ s7' \in BOOLEAN /\ s8' \in {"none", "choose", "save", "start"}
    <3>1. CASE s5 = None
      <4>1. s3.name \in Names \cup {0} /\ S!SaveNew(s3.name, "save")
        BY <1>10, <3>1, SetupHas DEF S!HandleSave, S!Forms
      <4> QED  BY <4>1, SetupSavesNew
    <3>2. CASE s5 # None
      BY <1>10, <3>2, SetupHas DEF S!HandleSave
    <3> QED  BY <3>1, <3>2
  <2> QED  BY <2>1, <2>2, SetupHas, SetupSends
<1>11. CASE S!HandleUpdate
  <2>1. /\ s2 # None /\ UNCHANGED <<s1, s2, s3, s4, s5, s6, s10, s11, s12, s13, s14, s15>>
        /\ s8' = "none" /\ S!Send("update", s3, s5, "save")
    BY <1>0, <1>11 DEF S!HandleUpdate, S!unedited
  <2>2. s9' \in S!Ops /\ s7' = TRUE
    BY <2>1, SetupHas, SetupOps
  <2> QED  BY <2>1, <2>2, SetupHas, SetupSends, SetupCounts
<1>12. CASE S!HandleSaveAsNew
  <2>1. /\ s2 # None /\ UNCHANGED <<s1, s2, s3, s4, s5, s6, s10, s11, s12, s13, s14, s15>>
        /\ S!SaveNew(s3.name, "save") /\ s3.name \in Names \cup {0}
    BY <1>0, <1>12, SetupHas DEF S!HandleSaveAsNew, S!unedited, S!Forms
  <2>2. s9' \in S!Ops /\ s7' \in BOOLEAN /\ s8' \in {"none", "choose", "save", "start"}
    BY <2>1, SetupSavesNew
  <2> QED  BY <2>1, <2>2, SetupHas, SetupSends, SetupCounts
<1>13. CASE S!HandleRename
  <2>1. PICK n \in Names : S!SaveNew(n, s8)
    BY <1>13 DEF S!HandleRename
  <2>2. /\ s2 # None /\ s8 \in {"save", "start"}
        /\ UNCHANGED <<s1, s2, s3, s4, s5, s6, s10, s11, s12, s13, s14, s15>>
    BY <1>0, <1>13 DEF S!HandleRename, S!unedited
  <2>3. s9' \in S!Ops /\ s7' \in BOOLEAN /\ s8' \in {"none", "choose", "save", "start"}
    BY <2>1, <2>2, SetupSavesNew
  <2> QED  BY <2>2, <2>3, SetupHas, SetupSends, SetupCounts
<1>14. CASE S!CloseModal
  <2>1. s8' = "none" /\ UNCHANGED <<s1, s2, s3, s4, s5, s6, s7, s9, s10, s11, s12, s13, s14, s15>>
    BY <1>14 DEF S!CloseModal, S!unedited
  <2> QED  BY <1>0, <2>1, SetupHas, SetupSends, SetupCounts
<1>15. CASE S!HandleStart
  <2>1. /\ s2 # None /\ UNCHANGED <<s1, s2, s3, s4, s5, s6, s10, s11, s12, s13, s14>> /\ s15' \in 0 .. SetupEvents
    BY <1>15, SetupCounts DEF S!HandleStart, S!CanStart, S!Loading, S!unedited
  <2>2. s9' \in S!Ops /\ s7' \in BOOLEAN /\ s8' \in {"none", "choose", "save", "start"}
    <3>1. CASE s5 = None
      <4>1. s3.name \in Names \cup {0} /\ S!SaveNew(s3.name, "start")
        BY <1>15, <3>1, SetupHas DEF S!HandleStart, S!Forms
      <4> QED  BY <4>1, SetupSavesNew
    <3>2. CASE s5 # None
      <4>1. S!Send(IF S!Dirty THEN "update" ELSE "start", s3, s5, "start") /\ s8' = s8
        BY <1>15, <3>2 DEF S!HandleStart
      <4>2. (IF S!Dirty THEN "update" ELSE "start") \in {"create", "update", "start"}
        OBVIOUS
      <4>3. s9' \in S!Ops /\ s7' = TRUE
        BY <4>1, <4>2, SetupHas, SetupOps
      <4> QED  BY <4>1, <4>3, SetupHas
    <3> QED  BY <3>1, <3>2
  <2> QED  BY <2>1, <2>2, SetupHas, SetupSends
<1>16. CASE S!SaveAnswered
  <2>1. s9.kind \in {"create", "update"} /\ UNCHANGED <<s8, s13, s14, s15>>
    BY <1>16 DEF S!SaveAnswered
  <2>2. PICK id \in S!SaveIds :
          /\ S!Accepts(id) /\ S!Stored(id)
          /\ s2' = [i \in DOMAIN s2 \cup {id} |-> IF i = id THEN s9.form ELSE s2[i]]
          /\ S!OpenProfile(id, s9.form)
    BY <1>16 DEF S!SaveAnswered
  <2>3. id \in Ids /\ s9.form \in S!Forms /\ s1' \in S!Profiles
    BY <2>1, <2>2, SetupStores
  <2>4. s2 # None /\ s2 \in S!Profiles
    BY <1>0, <2>1, SetupHas
  <2>5. DOMAIN s2 \subseteq Ids /\ \A i \in DOMAIN s2 : s2[i] \in S!Forms
    BY <2>4, ProfilesHave
  <2>6. s2' \in [DOMAIN s2 \cup {id} -> S!Forms]
    BY <2>2, <2>3, <2>5
  <2>7. s2' \in S!Profiles
    BY <2>3, <2>5, <2>6, ProfilesMade
  <2>8. id \in DOMAIN s2' /\ s2'[id] = s9.form
    BY <2>2
  <2>9. S!FormBecomes(s9.form) /\ s4' = s9.form /\ s5' = id /\ s6' = id
    BY <2>2 DEF S!OpenProfile
  <2>10. s9' \in S!Ops /\ s7' \in BOOLEAN
    <3>1. CASE s9.then = "start"
      <4>1. s9' = [s9 EXCEPT !.kind = "start"] /\ s7' = s7
        BY <1>16, <3>1 DEF S!SaveAnswered
      <4>2. s9 \in [kind : {"create", "update", "start"}, form : S!Forms, id : Ids \cup {None}, then : {"save", "start"}]
        BY <2>1, SetupHas DEF S!Ops, S!NoOp
      <4>3. s9' \in S!Ops
        BY <4>1, <4>2 DEF S!Ops
      <4> QED  BY <4>1, <4>3, SetupHas
    <3>2. CASE s9.then # "start"
      BY <1>16, <3>2, NoOpOK DEF S!SaveAnswered
    <3> QED  BY <3>1, <3>2
  <2> QED  BY <2>1, <2>3, <2>7, <2>8, <2>9, <2>10, SetupHas, SetupOpens, SetupCounts
<1>17. CASE S!SaveFailed
  <2>1. /\ s9.kind \in {"create", "update"} /\ s9' = S!NoOp /\ s7' = FALSE
        /\ UNCHANGED <<s2, s3, s4, s5, s6, s8, s10, s11, s12, s13, s14>> /\ s15' \in 0 .. SetupEvents
    BY <1>17, SetupCounts DEF S!SaveFailed
  <2>2. s1' \in S!Profiles
    <3>1. CASE s1' = s1
      BY <3>1, SetupHas
    <3>2. CASE \E id \in S!SaveIds : S!Accepts(id) /\ S!Stored(id)
      BY <2>1, <3>2, SetupStores
    <3> QED  BY <1>17, <3>1, <3>2 DEF S!SaveFailed
  <2> QED  BY <1>0, <2>1, <2>2, NoOpOK, SetupHas, SetupSends
<1>18. CASE S!StartAnswered
  <2>1. /\ s9.kind = "start" /\ UNCHANGED <<s1, s2, s3, s4, s5, s6, s8, s10, s11, s12, s13, s15>>
        /\ \/ s14' = TRUE /\ s9' = s9 /\ s7' = s7
           \/ s9' = S!NoOp /\ s7' = FALSE /\ s14' = s14
    BY <1>18 DEF S!StartAnswered
  <2>2. s9' \in S!Ops /\ s7' \in BOOLEAN /\ s14' \in BOOLEAN /\ (s9'.kind # "none" => s2 # None)
    <3>1. s9 \in S!Ops /\ s7 \in BOOLEAN /\ s14 \in BOOLEAN /\ s2 # None
      BY <1>0, <2>1, SetupHas
    <3> QED  BY <2>1, <3>1, NoOpOK
  <2> QED  BY <1>0, <2>1, <2>2, SetupHas, SetupSends, SetupCounts
<1>19. CASE S!Elsewhere
  <2>1. /\ UNCHANGED <<s2, s3, s4, s5, s6, s7, s8, s9, s10, s11, s12, s13, s14>> /\ s15' \in 0 .. SetupEvents
    BY <1>19, SetupCounts DEF S!Elsewhere
  <2>2. s1 \in S!Profiles /\ DOMAIN s1 \subseteq Ids /\ \A i \in DOMAIN s1 : s1[i] \in S!Forms
    BY SetupHas, ProfilesHave
  <2>3. s1' \in S!Profiles
    <3>1. ASSUME NEW id \in DOMAIN s1, s1' = [i \in DOMAIN s1 \ {id} |-> s1[i]] PROVE s1' \in S!Profiles
      <4>1. s1' \in [DOMAIN s1 \ {id} -> S!Forms] /\ DOMAIN s1 \ {id} \in SUBSET Ids
        BY <2>2, <3>1
      <4> QED  BY <4>1, ProfilesMade
    <3>2. ASSUME NEW id \in DOMAIN s1, NEW n \in Names, s1' = [s1 EXCEPT ![id].name = n] PROVE s1' \in S!Profiles
      <4>1. [s1[id] EXCEPT !.name = n] \in S!Forms
        BY <2>2 DEF S!Forms
      <4>2. s1 \in [DOMAIN s1 -> S!Forms]
        BY <2>2 DEF S!Profiles
      <4>3. s1' \in [DOMAIN s1 -> S!Forms]
        BY <3>2, <4>1, <4>2
      <4> QED  BY <2>2, <4>3, ProfilesMade
    <3> QED  BY <1>19, <3>1, <3>2 DEF S!Elsewhere
  <2> QED  BY <1>0, <2>1, <2>3, SetupHas, SetupSends
<1> QED  BY <1>1, <1>2, <1>3, <1>4, <1>5, <1>6, <1>8, <1>9, <1>10, <1>11, <1>12, <1>13, <1>14,
            <1>15, <1>16, <1>17, <1>18, <1>19
         DEF S!Next, S!User, S!Answers

-----------------------------------------------------------------------------
(* The subscriber form: its rows and what they are stored as.              *)

LEMMA FormSame ==
    /\ \A A, k : F!Nth(A, k) = Nth(A, k)
    /\ \A A : F!InOrder(A) = InOrder(A)
    /\ \A f, A : F!Picked(f, A) = Picked(f, A)
    /\ \A f : F!Places(f) = Places(f)
    /\ \A f : F!Flat(f) = Flat(f)
<1>1. \A A : F!Cardinality(A) = Cardinality(A)
  BY DEF F!Cardinality, Cardinality
<1>2. \A A, k : F!Nth(A, k) = Nth(A, k)
  BY <1>1 DEF F!Nth, Nth
<1>3. \A A : F!InOrder(A) = InOrder(A)
  BY <1>1, <1>2 DEF F!InOrder, InOrder
<1>4. \A f, A : F!Picked(f, A) = Picked(f, A)
  BY <1>1, <1>2 DEF F!Picked, Picked
<1>5. \A f : F!Places(f) = Places(f)
  BY DEF F!Places, Places
<1>6. \A A, k : F!NthPlace(A, k) = NthPlace(A, k)
  BY <1>1 DEF F!NthPlace, NthPlace, F!Before, Before
<1>7. \A f : F!Flat(f) = Flat(f)
  BY <1>1, <1>5, <1>6 DEF F!Flat, Flat
<1> QED  BY <1>2, <1>3, <1>4, <1>5, <1>7

\* The form's rows.
FormRows == Seq(F!SessionRows)

LEMMA RowsOK ==
  ASSUME NEW rows \in FormRows
  PROVE  /\ Len(rows) \in Nat /\ DOMAIN rows = 1 .. Len(rows)
         /\ \A i \in DOMAIN rows :
               /\ rows[i] \in F!SessionRows /\ rows[i].slice \in Slices /\ rows[i].dnn \in Dnns
               /\ rows[i].default \in BOOLEAN /\ rows[i].up \in {"off", "blank", "set"}
               /\ rows[i].rules \in Seq(F!Rules)
               /\ Len(rows[i].rules) \in Nat /\ DOMAIN rows[i].rules = 1 .. Len(rows[i].rules)
               /\ \A j \in DOMAIN rows[i].rules : rows[i].rules[j] \in F!Rules
<1>1. Len(rows) \in Nat /\ DOMAIN rows = 1 .. Len(rows) /\ \A i \in DOMAIN rows : rows[i] \in F!SessionRows
  BY DEF FormRows
<1>2. \A r \in F!SessionRows :
        /\ r.slice \in Slices /\ r.dnn \in Dnns
        /\ r.default \in BOOLEAN /\ r.up \in {"off", "blank", "set"} /\ r.rules \in Seq(F!Rules)
  BY DEF F!SessionRows
<1>3. \A f \in Seq(F!Rules) : Len(f) \in Nat /\ DOMAIN f = 1 .. Len(f) /\ \A j \in DOMAIN f : f[j] \in F!Rules
  OBVIOUS
<1> QED  BY <1>1, <1>2, <1>3

\* A list of the subscription: of each rule of each row, what has says.
EntryOf(rows, has, i, j) == [slice |-> rows[i].slice, dnn |-> rows[i].dnn, ref |-> j, has |-> has[i][j]]
EntryRows(rows, has) == [i \in DOMAIN rows |-> [j \in DOMAIN rows[i].rules |-> EntryOf(rows, has, i, j)]]
Entries(rows, has) == Flat(EntryRows(rows, has))
RuleRows(rows) == [i \in DOMAIN rows |-> rows[i].rules]
RulePlaces(rows) == Places(RuleRows(rows))
At(rows, i, j) == PlaceRank(RulePlaces(rows), <<i, j>>) + 1

FilterHas(rows) == [i \in DOMAIN rows |-> [j \in DOMAIN rows[i].rules |-> rows[i].rules[j].filter]]
QosHas(rows)    == [i \in DOMAIN rows |-> [j \in DOMAIN rows[i].rules |-> rows[i].rules[j].qos]]
ChargeHas(rows) == [i \in DOMAIN rows |-> [j \in DOMAIN rows[i].rules |-> rows[i].rules[j].charge]]

HasOK(rows, has, V) == \A i \in DOMAIN rows : \A j \in DOMAIN rows[i].rules : has[i][j] \in V
EntrySet(V) == [slice : Slices, dnn : Dnns, ref : Nat, has : V]

\* Each rule of each row has its entry, and each entry is a rule's.
LEMMA EntriesOK ==
  ASSUME NEW rows \in FormRows, NEW has, NEW V, HasOK(rows, has, V)
  PROVE  /\ IsFiniteSet(RulePlaces(rows)) /\ RulePlaces(rows) \in SUBSET (Int \X Int)
         /\ Entries(rows, has) \in Seq(EntrySet(V))
         /\ Len(Entries(rows, has)) = Cardinality(RulePlaces(rows))
         /\ \A i \in DOMAIN rows : \A j \in DOMAIN rows[i].rules :
                /\ <<i, j>> \in RulePlaces(rows)
                /\ At(rows, i, j) \in 1 .. Len(Entries(rows, has))
                /\ Entries(rows, has)[At(rows, i, j)] = EntryOf(rows, has, i, j)
         /\ \A k \in 1 .. Len(Entries(rows, has)) :
                \E i \in DOMAIN rows : \E j \in DOMAIN rows[i].rules : k = At(rows, i, j)
<1> DEFINE ss == EntryRows(rows, has)
           ps == Places(ss)
           n == Len(rows)
           e == Entries(rows, has)
<1>1. n \in Nat /\ DOMAIN rows = 1 .. n
  BY RowsOK
<1>2. \A i \in DOMAIN rows : Len(rows[i].rules) \in Nat /\ DOMAIN rows[i].rules = 1 .. Len(rows[i].rules)
  BY RowsOK
<1>3. DOMAIN ss = 1 .. n /\ \A i \in 1 .. n : ss[i] = [j \in DOMAIN rows[i].rules |-> EntryOf(rows, has, i, j)]
  BY <1>1 DEF EntryRows
<1>4. \A i \in DOMAIN rows : \A j \in DOMAIN rows[i].rules : EntryOf(rows, has, i, j) \in EntrySet(V)
  <2> SUFFICES ASSUME NEW i \in DOMAIN rows, NEW j \in DOMAIN rows[i].rules PROVE EntryOf(rows, has, i, j) \in EntrySet(V)
    OBVIOUS
  <2>1. rows[i].slice \in Slices /\ rows[i].dnn \in Dnns /\ j \in Nat /\ has[i][j] \in V
    BY <1>2, RowsOK DEF HasOK
  <2> QED  BY <2>1 DEF EntryOf, EntrySet
<1>5. \A i \in 1 .. n : ss[i] \in Seq(EntrySet(V))
  <2> SUFFICES ASSUME NEW i \in 1 .. n PROVE ss[i] \in Seq(EntrySet(V))
    OBVIOUS
  <2>1. ss[i] \in [1 .. Len(rows[i].rules) -> EntrySet(V)] /\ Len(rows[i].rules) \in Nat
    BY <1>1, <1>2, <1>3, <1>4
  <2> QED  BY <2>1
<1>6. ps = RulePlaces(rows)
  <2>1. DOMAIN RuleRows(rows) = DOMAIN ss /\ \A i \in DOMAIN ss : DOMAIN RuleRows(rows)[i] = DOMAIN ss[i]
    BY <1>1, <1>3 DEF RuleRows
  <2> HIDE DEF ss
  <2> QED  BY <2>1, PlacesSame DEF RulePlaces
<1> HIDE DEF ss, n
<1>7. /\ ps \in SUBSET (Int \X Int) /\ IsFiniteSet(ps) /\ Cardinality(ps) \in Nat
      /\ Flat(ss) \in Seq(EntrySet(V)) /\ Len(Flat(ss)) = Cardinality(ps)
      /\ \A k \in 1 .. Cardinality(ps) :
            NthPlace(ps, k) \in ps /\ PlaceRank(ps, NthPlace(ps, k)) = k - 1
      /\ \A p \in ps : /\ PlaceRank(ps, p) + 1 \in 1 .. Cardinality(ps)
                       /\ Flat(ss)[PlaceRank(ps, p) + 1] = ss[p[1]][p[2]]
  <2>1. \A i \in 1 .. n : ss[i] \in Seq(EntrySet(V))
    BY <1>5
  <2>2. n \in Nat /\ DOMAIN ss = 1 .. n
    BY <1>1, <1>3
  <2>a. ps \in SUBSET (Int \X Int) /\ IsFiniteSet(ps) /\ Cardinality(ps) \in Nat
    BY <2>1, <2>2, FlatOK
  <2>b. Flat(ss) \in Seq(EntrySet(V)) /\ Len(Flat(ss)) = Cardinality(ps)
    BY <2>1, <2>2, FlatOK
  <2>c. \A k \in 1 .. Cardinality(ps) : NthPlace(ps, k) \in ps /\ PlaceRank(ps, NthPlace(ps, k)) = k - 1
    BY <2>1, <2>2, FlatOK
  <2>d. \A p \in ps : /\ PlaceRank(ps, p) + 1 \in 1 .. Cardinality(ps)
                       /\ Flat(ss)[PlaceRank(ps, p) + 1] = ss[p[1]][p[2]]
    BY <2>1, <2>2, FlatOK
  <2> QED  BY <2>a, <2>b, <2>c, <2>d
<1>8. e = Flat(ss)
  BY DEF Entries, ss
<1> HIDE DEF ps, e
<1>9. ASSUME NEW i \in DOMAIN rows, NEW j \in DOMAIN rows[i].rules
      PROVE  /\ <<i, j>> \in ps /\ PlaceRank(ps, <<i, j>>) + 1 \in 1 .. Len(e)
             /\ e[PlaceRank(ps, <<i, j>>) + 1] = EntryOf(rows, has, i, j)
  <2>1. <<i, j>> \in ps
    BY <1>1, <1>3, PlacesAre DEF ps
  <2>2. e[PlaceRank(ps, <<i, j>>) + 1] = ss[i][j]
    BY <1>7, <1>8, <2>1
  <2>3. ss[i][j] = EntryOf(rows, has, i, j)
    BY <1>1, <1>3
  <2> QED  BY <1>7, <1>8, <2>1, <2>2, <2>3
<1>10. ASSUME NEW k \in 1 .. Len(e)
       PROVE  \E i \in DOMAIN rows : \E j \in DOMAIN rows[i].rules : k = PlaceRank(ps, <<i, j>>) + 1
  <2> DEFINE p == NthPlace(ps, k)
  <2>1. k \in 1 .. Cardinality(ps) /\ p \in ps /\ PlaceRank(ps, p) = k - 1
    BY <1>7, <1>8, <1>10
  <2> HIDE DEF p
  <2>2. p = <<p[1], p[2]>> /\ p[1] \in DOMAIN rows /\ p[2] \in DOMAIN rows[p[1]].rules
    BY <1>1, <1>3, <2>1, PlacesAre DEF ps
  <2>3. k = PlaceRank(ps, p) + 1
    BY <1>7, <2>1
  <2> QED  BY <2>2, <2>3
<1> QED  BY <1>6, <1>7, <1>8, <1>9, <1>10 DEF At, e

\* The three lists.
LEMMA ListsAre ==
  ASSUME NEW rows \in FormRows
  PROVE  /\ F!FlatRules(rows, F!FilterOf) = Entries(rows, FilterHas(rows))
         /\ F!FlatRules(rows, F!QosOf) = Entries(rows, QosHas(rows))
         /\ F!FlatRules(rows, F!ChargeOf) = Entries(rows, ChargeHas(rows))
         /\ HasOK(rows, FilterHas(rows), Filters)
         /\ HasOK(rows, QosHas(rows), Fields \cup {0}) /\ HasOK(rows, ChargeHas(rows), Fields \cup {0})
<1>1. [i \in DOMAIN rows |-> F!Numbered(rows[i], F!FilterOf)] = EntryRows(rows, FilterHas(rows))
  BY DEF F!Numbered, F!FilterOf, EntryRows, EntryOf, FilterHas
<1>2. [i \in DOMAIN rows |-> F!Numbered(rows[i], F!QosOf)] = EntryRows(rows, QosHas(rows))
  BY DEF F!Numbered, F!QosOf, EntryRows, EntryOf, QosHas
<1>3. [i \in DOMAIN rows |-> F!Numbered(rows[i], F!ChargeOf)] = EntryRows(rows, ChargeHas(rows))
  BY DEF F!Numbered, F!ChargeOf, EntryRows, EntryOf, ChargeHas
<1>4. \A r \in F!Rules : r.filter \in Filters /\ r.qos \in Fields \cup {0} /\ r.charge \in Fields \cup {0}
  BY DEF F!Rules
<1>5. \A i \in DOMAIN rows : \A j \in DOMAIN rows[i].rules : rows[i].rules[j] \in F!Rules
  BY RowsOK
<1>6. HasOK(rows, FilterHas(rows), Filters)
  BY <1>4, <1>5 DEF HasOK, FilterHas
<1>7. HasOK(rows, QosHas(rows), Fields \cup {0})
  BY <1>4, <1>5 DEF HasOK, QosHas
<1>8. HasOK(rows, ChargeHas(rows), Fields \cup {0})
  BY <1>4, <1>5 DEF HasOK, ChargeHas
<1>9. \A f : F!Flat(f) = Flat(f)
  BY FormSame
<1> QED  BY <1>1, <1>2, <1>3, <1>6, <1>7, <1>8, <1>9 DEF F!FlatRules, Entries

\* No two rows are of one session.
Sessions(rows) ==
    \A i, j \in DOMAIN rows : rows[i].slice = rows[j].slice /\ rows[i].dnn = rows[j].dnn => i = j

\* The entries that say something are all kept, and no others.
LEMMA HavingOK ==
  ASSUME NEW rows \in FormRows, NEW has, NEW V, HasOK(rows, has, V)
  PROVE  LET kept == F!HavingAny(Entries(rows, has)) IN
         /\ kept \in Seq(EntrySet(V))
         /\ \A k \in DOMAIN kept : \E i \in DOMAIN rows : \E j \in DOMAIN rows[i].rules :
                kept[k] = EntryOf(rows, has, i, j) /\ has[i][j] # 0
         /\ \A i \in DOMAIN rows : \A j \in DOMAIN rows[i].rules :
                has[i][j] # 0 => \E k \in DOMAIN kept : kept[k] = EntryOf(rows, has, i, j)
<1> DEFINE e == Entries(rows, has)
           ks == {k \in DOMAIN e : e[k].has # 0}
           kept == F!HavingAny(e)
<1>1. e \in Seq(EntrySet(V)) /\ DOMAIN e = 1 .. Len(e) /\ Len(e) \in Nat
  <2>1. e \in Seq(EntrySet(V))
    BY EntriesOK
  <2> HIDE DEF e
  <2> QED  BY <2>1
<1>2. kept = Picked(e, ks)
  BY FormSame DEF F!HavingAny
<1>a. \A i \in DOMAIN rows : \A j \in DOMAIN rows[i].rules :
        /\ At(rows, i, j) \in 1 .. Len(e) /\ e[At(rows, i, j)] = EntryOf(rows, has, i, j)
  BY EntriesOK
<1>b. \A k \in 1 .. Len(e) : \E i \in DOMAIN rows : \E j \in DOMAIN rows[i].rules : k = At(rows, i, j)
  BY EntriesOK
<1> HIDE DEF e, kept
<1>3. ks \in SUBSET (1 .. Len(e))
  BY <1>1
<1> HIDE DEF ks
<1>4. /\ Cardinality(ks) \in Nat /\ kept \in Seq(EntrySet(V)) /\ Len(kept) = Cardinality(ks)
      /\ \A k \in 1 .. Cardinality(ks) : Nth(ks, k) \in ks /\ kept[k] = e[Nth(ks, k)]
      /\ \A i \in ks : Rank(ks, i) + 1 \in 1 .. Cardinality(ks) /\ kept[Rank(ks, i) + 1] = e[i]
  BY <1>1, <1>2, <1>3, PickedOK
<1>5. DOMAIN kept = 1 .. Cardinality(ks)
  BY <1>4
<1>6. \A i, j : EntryOf(rows, has, i, j).has = has[i][j]
  BY DEF EntryOf
<1>7. ASSUME NEW k \in DOMAIN kept
      PROVE  \E i \in DOMAIN rows : \E j \in DOMAIN rows[i].rules :
                kept[k] = EntryOf(rows, has, i, j) /\ has[i][j] # 0
  <2>1. Nth(ks, k) \in ks /\ kept[k] = e[Nth(ks, k)]
    BY <1>4, <1>5
  <2>2. Nth(ks, k) \in 1 .. Len(e) /\ e[Nth(ks, k)].has # 0
    BY <1>3, <2>1 DEF ks
  <2>3. PICK i \in DOMAIN rows : \E j \in DOMAIN rows[i].rules : Nth(ks, k) = At(rows, i, j)
    BY <1>b, <2>2
  <2>5. PICK j \in DOMAIN rows[i].rules : Nth(ks, k) = At(rows, i, j)
    BY <2>3
  <2>4. kept[k] = EntryOf(rows, has, i, j)
    BY <1>a, <2>1, <2>5
  <2> QED  BY <1>6, <2>1, <2>2, <2>4
<1>8. ASSUME NEW i \in DOMAIN rows, NEW j \in DOMAIN rows[i].rules, has[i][j] # 0
      PROVE  \E k \in DOMAIN kept : kept[k] = EntryOf(rows, has, i, j)
  <2>1. At(rows, i, j) \in DOMAIN e /\ e[At(rows, i, j)] = EntryOf(rows, has, i, j)
    BY <1>1, <1>a
  <2>2. At(rows, i, j) \in ks
    BY <1>6, <1>8, <2>1 DEF ks
  <2> QED  BY <1>4, <1>5, <2>1, <2>2
<1> QED  BY <1>4, <1>7, <1>8 DEF kept, e

\* The entry joined to a rule is the rule's, if sessions have one row each.
LEMMA JoinedOK ==
  ASSUME NEW rows \in FormRows, NEW has, NEW V, HasOK(rows, has, V), Sessions(rows),
         NEW i \in DOMAIN rows, NEW j \in DOMAIN rows[i].rules,
         NEW rule, rule.slice = rows[i].slice, rule.dnn = rows[i].dnn, rule.ref = j
  PROVE  F!Joined(F!HavingAny(Entries(rows, has)), rule) = has[i][j]
<1> DEFINE kept == F!HavingAny(Entries(rows, has))
           match == {k \in DOMAIN kept : kept[k].slice = rule.slice /\ kept[k].dnn = rule.dnn
                                         /\ kept[k].ref = rule.ref}
<1>1. /\ kept \in Seq(EntrySet(V))
      /\ \A k \in DOMAIN kept : \E x \in DOMAIN rows : \E y \in DOMAIN rows[x].rules :
                kept[k] = EntryOf(rows, has, x, y) /\ has[x][y] # 0
      /\ \A x \in DOMAIN rows : \A y \in DOMAIN rows[x].rules :
                has[x][y] # 0 => \E k \in DOMAIN kept : kept[k] = EntryOf(rows, has, x, y)
  BY HavingOK
<1> HIDE DEF kept
<1>2. \A x, y : LET z == EntryOf(rows, has, x, y) IN
            z.slice = rows[x].slice /\ z.dnn = rows[x].dnn /\ z.ref = y /\ z.has = has[x][y]
  BY DEF EntryOf
<1>3. \A k \in match : kept[k] = EntryOf(rows, has, i, j) /\ has[i][j] # 0
  <2> SUFFICES ASSUME NEW k \in match PROVE kept[k] = EntryOf(rows, has, i, j) /\ has[i][j] # 0
    OBVIOUS
  <2>0. PICK x \in DOMAIN rows :
            \E y \in DOMAIN rows[x].rules : kept[k] = EntryOf(rows, has, x, y) /\ has[x][y] # 0
    BY <1>1
  <2>1. PICK y \in DOMAIN rows[x].rules : kept[k] = EntryOf(rows, has, x, y) /\ has[x][y] # 0
    BY <2>0
  <2>2. rows[x].slice = rows[i].slice /\ rows[x].dnn = rows[i].dnn /\ y = j
    BY <1>2, <2>1
  <2>3. x = i
    BY <2>2 DEF Sessions
  <2> QED  BY <2>1, <2>2, <2>3
<1>4. F!Joined(kept, rule) = IF match = {} THEN 0 ELSE kept[CHOOSE k \in match : \A l \in match : k <= l].has
  BY DEF F!Joined
<1>5. CASE match = {}
  <2>1. has[i][j] = 0
    <3> SUFFICES ASSUME has[i][j] # 0 PROVE match # {}
      BY <1>5
    <3>1. PICK k \in DOMAIN kept : kept[k] = EntryOf(rows, has, i, j)
      BY <1>1
    <3>2. k \in match
      BY <1>2, <3>1
    <3> QED  BY <3>2
  <2> QED  BY <1>4, <1>5, <2>1 DEF kept
<1>6. CASE match # {}
  <2>1. match \in SUBSET Nat
    BY <1>1
  <2>2. \E k \in match : \A l \in match : k <= l
    <3> HIDE DEF match
    <3> QED  BY <1>6, <2>1, LeastNat
  <2> HIDE DEF match
  <2>3. PICK k \in match : k = CHOOSE m \in match : \A l \in match : m <= l
    BY <2>2
  <2>4. kept[k].has = has[i][j]
    BY <1>2, <1>3
  <2> QED  BY <1>4, <1>6, <2>3, <2>4 DEF kept
<1> QED  BY <1>5, <1>6

\* The places of a row's rules, in the row's order.
LEMMA AtGrows ==
  ASSUME NEW rows \in FormRows, NEW i \in DOMAIN rows
  PROVE  \A j, l \in DOMAIN rows[i].rules : j < l => At(rows, i, j) < At(rows, i, l)
<1> DEFINE ps == RulePlaces(rows)
<1>1. HasOK(rows, FilterHas(rows), Filters)
  BY ListsAre
<1>2. ps \in SUBSET (Int \X Int) /\ IsFiniteSet(ps) /\ \A j \in DOMAIN rows[i].rules : <<i, j>> \in ps
  BY <1>1, EntriesOK
<1> HIDE DEF ps
<1>3. \A p \in ps : PlaceRank(ps, p) \in Nat
  BY <1>2, PlacesGrow
<1>4. \A p, q \in ps : Before(p, q) => PlaceRank(ps, p) < PlaceRank(ps, q)
  BY <1>2, PlacesGrow
<1>5. ASSUME NEW j \in DOMAIN rows[i].rules, NEW l \in DOMAIN rows[i].rules, j < l
      PROVE  PlaceRank(ps, <<i, j>>) + 1 < PlaceRank(ps, <<i, l>>) + 1
  <2>1. Before(<<i, j>>, <<i, l>>)
    BY <1>5 DEF Before
  <2>2. PlaceRank(ps, <<i, j>>) < PlaceRank(ps, <<i, l>>)
    BY <1>2, <1>4, <2>1
  <2> QED  BY <1>2, <1>3, <2>2
<1> QED  BY <1>5 DEF At, ps

\* A row's rules are found again, in their order.
LEMMA MineOK ==
  ASSUME NEW rows \in FormRows, Sessions(rows), NEW i \in DOMAIN rows, NEW e, e = Entries(rows, FilterHas(rows)),
         NEW mine, mine = F!Picked(e, {k \in DOMAIN e : e[k].slice = rows[i].slice /\ e[k].dnn = rows[i].dnn})
  PROVE  /\ DOMAIN mine = DOMAIN rows[i].rules
         /\ \A j \in DOMAIN rows[i].rules : mine[j] = EntryOf(rows, FilterHas(rows), i, j)
<1> DEFINE ks == {k \in DOMAIN e : e[k].slice = rows[i].slice /\ e[k].dnn = rows[i].dnn}
           has == FilterHas(rows)
           m == Len(rows[i].rules)
           f == [j \in 1 .. m |-> At(rows, i, j)]
<1>1. HasOK(rows, has, Filters)
  BY ListsAre
<1>2. m \in Nat /\ DOMAIN rows[i].rules = 1 .. m
  BY RowsOK
<1>3. e \in Seq(EntrySet(Filters))
  BY <1>1, EntriesOK
<1>4. DOMAIN e = 1 .. Len(e) /\ Len(e) \in Nat
  BY <1>3
<1>5. \A x \in DOMAIN rows : \A y \in DOMAIN rows[x].rules :
        At(rows, x, y) \in 1 .. Len(e) /\ e[At(rows, x, y)] = EntryOf(rows, has, x, y)
  BY <1>1, EntriesOK
<1>6. \A k \in 1 .. Len(e) : \E x \in DOMAIN rows : \E y \in DOMAIN rows[x].rules : k = At(rows, x, y)
  BY <1>1, EntriesOK
<1>7. \A x, y : EntryOf(rows, has, x, y).slice = rows[x].slice /\ EntryOf(rows, has, x, y).dnn = rows[x].dnn
  BY DEF EntryOf
<1>8. mine = Picked(e, ks)
  BY FormSame
<1> HIDE DEF m, has
<1>9. f \in [1 .. m -> ks]
  <2> SUFFICES ASSUME NEW j \in 1 .. m PROVE At(rows, i, j) \in ks
    OBVIOUS
  <2>1. At(rows, i, j) \in DOMAIN e /\ e[At(rows, i, j)] = EntryOf(rows, has, i, j)
    BY <1>2, <1>4, <1>5
  <2> QED  BY <1>7, <2>1
<1>10. \A k \in ks : \E j \in 1 .. m : f[j] = k
  <2> SUFFICES ASSUME NEW k \in ks PROVE \E j \in 1 .. m : f[j] = k
    OBVIOUS
  <2>1. PICK x \in DOMAIN rows : \E y \in DOMAIN rows[x].rules : k = At(rows, x, y)
    BY <1>4, <1>6
  <2>2. PICK y \in DOMAIN rows[x].rules : k = At(rows, x, y)
    BY <2>1
  <2>3. e[k] = EntryOf(rows, has, x, y)
    BY <1>5, <2>2
  <2>4. x = i
    BY <1>7, <2>3 DEF Sessions
  <2> QED  BY <1>2, <2>2, <2>4
<1>11. \A j, l \in 1 .. m : j < l => f[j] < f[l]
  BY <1>2, AtGrows
<1>12. ks \in SUBSET (1 .. Len(e)) /\ ks \in SUBSET Int
  BY <1>4
<1>13. \A j \in 1 .. m : f[j] = At(rows, i, j)
  OBVIOUS
<1> HIDE DEF ks, f
<1>14. Cardinality(ks) = m /\ \A j \in 1 .. m : Nth(ks, j) = f[j]
  BY <1>2, <1>9, <1>10, <1>11, <1>12, RunsThrough
<1>15. mine = [j \in 1 .. m |-> e[Nth(ks, j)]]
  BY <1>8, <1>14 DEF Picked
<1>16. \A j \in 1 .. m : mine[j] = EntryOf(rows, has, i, j)
  BY <1>2, <1>5, <1>13, <1>14, <1>15
<1> QED  BY <1>2, <1>15, <1>16 DEF has

\* What becomes of a row's setting for its UP security.
Kept(row) == [row EXCEPT !.up = IF @ = "set" THEN "set" ELSE "off"]

\* A row comes back from what is stored of it.
LEMMA RowBack ==
  ASSUME NEW rows \in FormRows, Sessions(rows), NEW i \in DOMAIN rows,
         NEW sub, sub.rules = Entries(rows, FilterHas(rows)),
         sub.qos = F!HavingAny(Entries(rows, QosHas(rows))),
         sub.charging = F!HavingAny(Entries(rows, ChargeHas(rows))),
         sub.defaults # {}, rows[i].slice \in sub.defaults <=> rows[i].default,
         NEW config, config.dnn = rows[i].dnn, config.up <=> rows[i].up = "set"
  PROVE  F!RowOf(sub, rows[i].slice, config) = Kept(rows[i])
<1> DEFINE e == Entries(rows, FilterHas(rows))
           mine == F!Picked(e, {k \in DOMAIN e : e[k].slice = rows[i].slice /\ e[k].dnn = rows[i].dnn})
           back == [j \in DOMAIN mine |-> [filter |-> mine[j].has, qos |-> F!Joined(sub.qos, mine[j]),
                                           charge |-> F!Joined(sub.charging, mine[j])]]
<1>1. /\ DOMAIN mine = DOMAIN rows[i].rules
      /\ \A j \in DOMAIN rows[i].rules : mine[j] = EntryOf(rows, FilterHas(rows), i, j)
  BY MineOK
<1>2. F!RowOf(sub, rows[i].slice, config) =
        [slice |-> rows[i].slice, dnn |-> rows[i].dnn, up |-> IF config.up THEN "set" ELSE "off",
         default |-> sub.defaults = {} \/ rows[i].slice \in sub.defaults, rules |-> back]
  BY DEF F!RowOf
<1> HIDE DEF mine
<1>3. ASSUME NEW j \in DOMAIN rows[i].rules
      PROVE  [filter |-> mine[j].has, qos |-> F!Joined(sub.qos, mine[j]),
              charge |-> F!Joined(sub.charging, mine[j])] = rows[i].rules[j]
  <2>1. /\ mine[j].slice = rows[i].slice /\ mine[j].dnn = rows[i].dnn /\ mine[j].ref = j
        /\ mine[j].has = rows[i].rules[j].filter
    <3>1. mine[j] = EntryOf(rows, FilterHas(rows), i, j)
      BY <1>1
    <3>2. FilterHas(rows)[i][j] = rows[i].rules[j].filter
      BY DEF FilterHas
    <3> QED  BY <3>1, <3>2 DEF EntryOf
  <2>2. F!Joined(sub.qos, mine[j]) = QosHas(rows)[i][j]
    <3>1. HasOK(rows, QosHas(rows), Fields \cup {0})
      BY ListsAre
    <3> QED  BY <2>1, <3>1, JoinedOK
  <2>3. F!Joined(sub.charging, mine[j]) = ChargeHas(rows)[i][j]
    <3>1. HasOK(rows, ChargeHas(rows), Fields \cup {0})
      BY ListsAre
    <3> QED  BY <2>1, <3>1, JoinedOK
  <2>4. QosHas(rows)[i][j] = rows[i].rules[j].qos /\ ChargeHas(rows)[i][j] = rows[i].rules[j].charge
    BY DEF QosHas, ChargeHas
  <2>5. rows[i].rules[j] \in F!Rules
    BY RowsOK
  <2>6. rows[i].rules[j] = [filter |-> rows[i].rules[j].filter, qos |-> rows[i].rules[j].qos,
                            charge |-> rows[i].rules[j].charge]
    BY <2>5 DEF F!Rules
  <2> QED  BY <2>1, <2>2, <2>3, <2>4, <2>6
<1>4. rows[i].rules = [j \in DOMAIN rows[i].rules |-> rows[i].rules[j]]
  <2>1. rows[i].rules \in Seq(F!Rules)
    BY RowsOK
  <2> QED  BY <2>1
<1>5. back = rows[i].rules
  BY <1>1, <1>3, <1>4
<1> HIDE DEF back
<1>6. rows[i] = [slice |-> rows[i].slice, dnn |-> rows[i].dnn, up |-> rows[i].up,
                 default |-> rows[i].default, rules |-> rows[i].rules]
      /\ rows[i].default \in BOOLEAN
  <2>1. rows[i] \in F!SessionRows
    BY RowsOK
  <2> QED  BY <2>1 DEF F!SessionRows
<1>7. Kept(rows[i]) = [slice |-> rows[i].slice, dnn |-> rows[i].dnn,
                       up |-> IF rows[i].up = "set" THEN "set" ELSE "off",
                       default |-> rows[i].default, rules |-> rows[i].rules]
  BY <1>6 DEF Kept
<1>8. (sub.defaults = {} \/ rows[i].slice \in sub.defaults) = rows[i].default
  BY <1>6
<1> QED  BY <1>2, <1>5, <1>7, <1>8

\* The rows a slice's DNNs come from, and the place of each.
SliceNo(rows, a) == rows[Nth(F!SliceRows(rows), a)].slice
DnnNos(rows, a) == F!DnnRows(rows, SliceNo(rows, a))
RowAt(rows, a, b) == Nth(DnnNos(rows, a), b)
SlicePlaces(rows) ==
    UNION {{a} \X (1 .. Cardinality(DnnNos(rows, a))) : a \in 1 .. Cardinality(F!SliceRows(rows))}

LEMMA SlicesOK ==
  ASSUME NEW rows \in FormRows
  PROVE  /\ F!SliceRows(rows) \in SUBSET (DOMAIN rows) /\ Cardinality(F!SliceRows(rows)) \in Nat
         /\ \A a \in 1 .. Cardinality(F!SliceRows(rows)) :
               /\ Nth(F!SliceRows(rows), a) \in F!SliceRows(rows) /\ SliceNo(rows, a) \in Slices
               /\ Cardinality(DnnNos(rows, a)) \in Nat
               /\ \A b \in 1 .. Cardinality(DnnNos(rows, a)) :
                     RowAt(rows, a, b) \in DOMAIN rows /\ rows[RowAt(rows, a, b)].slice = SliceNo(rows, a)
         /\ \A a, x \in 1 .. Cardinality(F!SliceRows(rows)) : SliceNo(rows, a) = SliceNo(rows, x) => a = x
         /\ \A i \in DOMAIN rows : \E a \in 1 .. Cardinality(F!SliceRows(rows)) : SliceNo(rows, a) = rows[i].slice
<1> DEFINE sr == F!SliceRows(rows)
           m == Cardinality(sr)
<1>1. Len(rows) \in Nat /\ DOMAIN rows = 1 .. Len(rows) /\ IsFiniteSet(DOMAIN rows)
  BY RowsOK, UpTo
<1>2. /\ sr \in SUBSET (DOMAIN rows)
      /\ \A i \in sr : \A j \in 1 .. i - 1 : rows[j].slice # rows[i].slice
      /\ \A i \in DOMAIN rows : (\A j \in 1 .. i - 1 : rows[j].slice # rows[i].slice) => i \in sr
  BY DEF F!SliceRows
<1> HIDE DEF sr
<1>3. IsFiniteSet(sr) /\ sr \in SUBSET Int
  BY <1>1, <1>2, FS_Subset
<1>4. /\ m \in Nat
      /\ \A a \in 1 .. m : Nth(sr, a) \in sr
      /\ \A i \in sr : Rank(sr, i) + 1 \in 1 .. m /\ Nth(sr, Rank(sr, i) + 1) = i
      /\ \A a \in 1 .. m : Rank(sr, Nth(sr, a)) = a - 1
  BY <1>3, NthOK
<1> HIDE DEF m
<1>n. \A a : SliceNo(rows, a) = rows[Nth(sr, a)].slice
  BY DEF SliceNo, sr
<1>5. ASSUME NEW a \in 1 .. m
      PROVE  /\ SliceNo(rows, a) \in Slices /\ Cardinality(DnnNos(rows, a)) \in Nat
             /\ \A b \in 1 .. Cardinality(DnnNos(rows, a)) :
                   RowAt(rows, a, b) \in DOMAIN rows /\ rows[RowAt(rows, a, b)].slice = SliceNo(rows, a)
  <2>1. SliceNo(rows, a) \in Slices
    <3>1. Nth(sr, a) \in DOMAIN rows
      BY <1>2, <1>4
    <3>2. rows[Nth(sr, a)].slice \in Slices
      BY <3>1, RowsOK
    <3> QED  BY <1>n, <3>2
  <2> DEFINE ds == DnnNos(rows, a)
  <2>2. ds \in SUBSET (DOMAIN rows) /\ \A i \in ds : rows[i].slice = SliceNo(rows, a)
    BY DEF DnnNos, F!DnnRows
  <2> HIDE DEF ds
  <2>3. IsFiniteSet(ds) /\ ds \in SUBSET Int
    BY <1>1, <2>2, FS_Subset
  <2>4. Cardinality(ds) \in Nat /\ \A b \in 1 .. Cardinality(ds) : Nth(ds, b) \in ds
    BY <2>3, NthOK
  <2> QED  BY <2>1, <2>2, <2>4 DEF RowAt, ds
<1>6. ASSUME NEW a \in 1 .. m, NEW x \in 1 .. m, SliceNo(rows, a) = SliceNo(rows, x) PROVE a = x
  <2>1. Nth(sr, a) \in sr /\ Nth(sr, x) \in sr /\ Nth(sr, a) \in 1 .. Len(rows) /\ Nth(sr, x) \in 1 .. Len(rows)
    BY <1>1, <1>2, <1>4
  <2>2. rows[Nth(sr, a)].slice = rows[Nth(sr, x)].slice
    BY <1>6, <1>n
  <2>3. Nth(sr, x) \notin 1 .. Nth(sr, a) - 1 /\ Nth(sr, a) \notin 1 .. Nth(sr, x) - 1
    BY <1>2, <2>1, <2>2
  <2>4. Nth(sr, a) = Nth(sr, x)
    BY <2>1, <2>3
  <2>5. a - 1 = x - 1
    BY <1>4, <2>4
  <2> QED  BY <1>4, <2>5
<1>7. ASSUME NEW i \in DOMAIN rows PROVE \E a \in 1 .. m : SliceNo(rows, a) = rows[i].slice
  <2> DEFINE js == {j \in DOMAIN rows : rows[j].slice = rows[i].slice}
  <2>1. js \in SUBSET Nat /\ i \in js
    BY <1>1, <1>7
  <2>2. PICK j \in js : \A k \in js : j <= k
    <3> HIDE DEF js
    <3> QED  BY <2>1, LeastNat
  <2>3. \A k \in 1 .. j - 1 : rows[k].slice # rows[j].slice
    BY <1>1, <2>2
  <2>4. j \in sr
    BY <1>2, <2>2, <2>3
  <2>5. Rank(sr, j) + 1 \in 1 .. m /\ SliceNo(rows, Rank(sr, j) + 1) = rows[j].slice
    BY <1>4, <1>n, <2>4
  <2> QED  BY <2>2, <2>5
<1> QED  BY <1>2, <1>4, <1>5, <1>6, <1>7 DEF sr, m

\* Of rows of sessions of their own, each is at one place of the slices.
LEMMA RowAtOK ==
  ASSUME NEW rows \in FormRows, Sessions(rows)
  PROVE  /\ \A a, x \in 1 .. Cardinality(F!SliceRows(rows)) :
               \A b \in 1 .. Cardinality(DnnNos(rows, a)), y \in 1 .. Cardinality(DnnNos(rows, x)) :
                    RowAt(rows, a, b) = RowAt(rows, x, y) => a = x /\ b = y
         /\ \A i \in DOMAIN rows : \E a \in 1 .. Cardinality(F!SliceRows(rows)) :
               \E b \in 1 .. Cardinality(DnnNos(rows, a)) : RowAt(rows, a, b) = i
         /\ \A i \in DOMAIN rows : F!LastOf(rows, i) = i
<1>1. Len(rows) \in Nat /\ DOMAIN rows = 1 .. Len(rows) /\ IsFiniteSet(DOMAIN rows)
  BY RowsOK, UpTo
<1>2. \A i \in DOMAIN rows : F!Session(rows, i) = {i}
  BY DEF F!Session, Sessions
<1>3. \A i \in DOMAIN rows : F!LastOf(rows, i) = i
  <2> SUFFICES ASSUME NEW i \in DOMAIN rows PROVE F!LastOf(rows, i) = i
    OBVIOUS
  <2>1. i \in Int /\ i <= i
    BY <1>1
  <2>2. F!LastOf(rows, i) = CHOOSE j \in {i} : \A k \in {i} : k <= j
    BY <1>2 DEF F!LastOf
  <2>3. \E j \in {i} : \A k \in {i} : k <= j
    BY <2>1
  <2>4. (CHOOSE j \in {i} : \A k \in {i} : k <= j) \in {i}
    BY <2>3
  <2> QED  BY <2>2, <2>4
<1>4. \A a : DnnNos(rows, a) = {i \in DOMAIN rows : rows[i].slice = SliceNo(rows, a)}
  <2>1. \A i \in DOMAIN rows : \A j \in F!Session(rows, i) : i <= j
    <3> SUFFICES ASSUME NEW i \in DOMAIN rows, NEW j \in F!Session(rows, i) PROVE i <= j
      OBVIOUS
    <3>1. j = i /\ i \in Int
      BY <1>1, <1>2
    <3> QED  BY <3>1
  <2> QED  BY <2>1 DEF DnnNos, F!DnnRows
<1>5. ASSUME NEW a
      PROVE  IsFiniteSet(DnnNos(rows, a)) /\ DnnNos(rows, a) \in SUBSET Int /\ DnnNos(rows, a) \in SUBSET (DOMAIN rows)
  BY <1>1, <1>4, FS_Subset
<1>6. ASSUME NEW a \in 1 .. Cardinality(F!SliceRows(rows)), NEW x \in 1 .. Cardinality(F!SliceRows(rows)),
             NEW b \in 1 .. Cardinality(DnnNos(rows, a)), NEW y \in 1 .. Cardinality(DnnNos(rows, x)),
             RowAt(rows, a, b) = RowAt(rows, x, y)
      PROVE  a = x /\ b = y
  <2>1. SliceNo(rows, a) = SliceNo(rows, x)
    BY <1>6, SlicesOK
  <2>2. a = x
    BY <2>1, SlicesOK
  <2> DEFINE ds == DnnNos(rows, a)
  <2>3. IsFiniteSet(ds) /\ ds \in SUBSET Int /\ Nth(ds, b) = Nth(ds, y)
        /\ b \in 1 .. Cardinality(ds) /\ y \in 1 .. Cardinality(ds)
    BY <1>5, <1>6, <2>2 DEF RowAt
  <2> HIDE DEF ds
  <2>4. b - 1 = y - 1 /\ Cardinality(ds) \in Nat
    BY <2>3, NthOK
  <2>5. b \in Int /\ y \in Int
    BY <2>3
  <2> QED  BY <2>2, <2>4, <2>5
<1>7. ASSUME NEW i \in DOMAIN rows
      PROVE  \E a \in 1 .. Cardinality(F!SliceRows(rows)) :
               \E b \in 1 .. Cardinality(DnnNos(rows, a)) : RowAt(rows, a, b) = i
  <2>1. PICK a \in 1 .. Cardinality(F!SliceRows(rows)) : SliceNo(rows, a) = rows[i].slice
    BY SlicesOK
  <2>2. i \in DnnNos(rows, a)
    BY <1>4, <2>1
  <2>3. IsFiniteSet(DnnNos(rows, a)) /\ DnnNos(rows, a) \in SUBSET Int
    BY <1>5
  <2>4. \E b \in 1 .. Cardinality(DnnNos(rows, a)) : Nth(DnnNos(rows, a), b) = i
    BY <2>2, <2>3, NthOK
  <2> QED  BY <2>4 DEF RowAt
<1> QED  BY <1>3, <1>6, <1>7

-----------------------------------------------------------------------------
\* What the rows are stored as.
LEMMA SubIs ==
  ASSUME NEW rows \in FormRows, NEW sub, sub = F!ToSubscription(rows)
  PROVE  /\ sub.rules = Entries(rows, FilterHas(rows))
         /\ sub.qos = F!HavingAny(Entries(rows, QosHas(rows)))
         /\ sub.charging = F!HavingAny(Entries(rows, ChargeHas(rows)))
         /\ sub.defaults = {rows[i].slice : i \in {j \in F!SliceRows(rows) : rows[j].default}}
         /\ DOMAIN sub.slices = 1 .. Cardinality(F!SliceRows(rows))
         /\ \A a \in 1 .. Cardinality(F!SliceRows(rows)) :
               /\ sub.slices[a].slice = SliceNo(rows, a)
               /\ DOMAIN sub.slices[a].dnns = 1 .. Cardinality(DnnNos(rows, a))
               /\ \A b \in 1 .. Cardinality(DnnNos(rows, a)) :
                     sub.slices[a].dnns[b] = F!Config(rows, RowAt(rows, a, b))
<1> DEFINE sr == F!SliceRows(rows)
           slices == F!InOrder(sr)
<1>1. sub = [defaults |-> {rows[i].slice : i \in {j \in sr : rows[j].default}},
             slices   |-> [k \in DOMAIN slices |-> F!SliceOf(rows, rows[slices[k]].slice)],
             rules    |-> Entries(rows, FilterHas(rows)),
             qos      |-> F!HavingAny(Entries(rows, QosHas(rows))),
             charging |-> F!HavingAny(Entries(rows, ChargeHas(rows)))]
  BY ListsAre DEF F!ToSubscription
<1>2. slices = [k \in 1 .. Cardinality(sr) |-> Nth(sr, k)]
  BY FormSame DEF InOrder
<1> HIDE DEF slices, sr
<1>3. DOMAIN sub.slices = 1 .. Cardinality(sr)
      /\ \A a \in 1 .. Cardinality(sr) : sub.slices[a] = F!SliceOf(rows, SliceNo(rows, a))
  BY <1>1, <1>2 DEF SliceNo, sr
<1>4. ASSUME NEW a
      PROVE  /\ F!SliceOf(rows, SliceNo(rows, a)).slice = SliceNo(rows, a)
             /\ DOMAIN F!SliceOf(rows, SliceNo(rows, a)).dnns = 1 .. Cardinality(DnnNos(rows, a))
             /\ \A b \in 1 .. Cardinality(DnnNos(rows, a)) :
                   F!SliceOf(rows, SliceNo(rows, a)).dnns[b] = F!Config(rows, RowAt(rows, a, b))
  <2> DEFINE ds == DnnNos(rows, a)
             dnns == F!InOrder(ds)
  <2>1. F!SliceOf(rows, SliceNo(rows, a)) =
            [slice |-> SliceNo(rows, a), dnns |-> [k \in DOMAIN dnns |-> F!Config(rows, dnns[k])]]
    BY DEF F!SliceOf, DnnNos
  <2>2. dnns = [k \in 1 .. Cardinality(ds) |-> Nth(ds, k)]
    BY FormSame DEF InOrder
  <2> HIDE DEF dnns
  <2> QED  BY <2>1, <2>2 DEF RowAt
<1>5. /\ sub.rules = Entries(rows, FilterHas(rows))
      /\ sub.qos = F!HavingAny(Entries(rows, QosHas(rows)))
      /\ sub.charging = F!HavingAny(Entries(rows, ChargeHas(rows)))
      /\ sub.defaults = {rows[i].slice : i \in {j \in sr : rows[j].default}}
  BY <1>1
<1> QED  BY <1>3, <1>4, <1>5 DEF sr

\* The rows the subscription gives again, slice by slice.
BackRows(rows) ==
    [a \in 1 .. Cardinality(F!SliceRows(rows)) |->
        [b \in 1 .. Cardinality(DnnNos(rows, a)) |->
            F!RowOf(F!ToSubscription(rows), SliceNo(rows, a), F!Config(rows, RowAt(rows, a, b)))]]

LEMMA BackIs ==
  ASSUME NEW rows \in FormRows
  PROVE  F!FromSubscription(F!ToSubscription(rows))
            = IF Flat(BackRows(rows)) = <<>> THEN <<F!NewRow>> ELSE Flat(BackRows(rows))
<1> DEFINE sub == F!ToSubscription(rows)
           RowsOf(s) == [i \in DOMAIN s.dnns |-> F!RowOf(sub, s.slice, s.dnns[i])]
           all == [i \in DOMAIN sub.slices |-> RowsOf(sub.slices[i])]
<1>1. F!FromSubscription(sub) = IF Flat(all) = <<>> THEN <<F!NewRow>> ELSE Flat(all)
  BY FormSame DEF F!FromSubscription
<1>2. DOMAIN sub.slices = 1 .. Cardinality(F!SliceRows(rows))
  BY SubIs
<1>3. ASSUME NEW a \in 1 .. Cardinality(F!SliceRows(rows))
      PROVE  RowsOf(sub.slices[a]) = [b \in 1 .. Cardinality(DnnNos(rows, a)) |->
                F!RowOf(sub, SliceNo(rows, a), F!Config(rows, RowAt(rows, a, b)))]
  <2>1. /\ sub.slices[a].slice = SliceNo(rows, a)
        /\ DOMAIN sub.slices[a].dnns = 1 .. Cardinality(DnnNos(rows, a))
        /\ \A b \in 1 .. Cardinality(DnnNos(rows, a)) : sub.slices[a].dnns[b] = F!Config(rows, RowAt(rows, a, b))
    BY SubIs
  <2> HIDE DEF sub
  <2> QED  BY <2>1
<1>4. all = BackRows(rows)
  BY <1>2, <1>3 DEF BackRows
<1> HIDE DEF all
<1> QED  BY <1>1, <1>4

\* What is joined to a rule is the fields of an entry, or nothing.
LEMMA JoinedIn ==
  ASSUME NEW V, NEW kept \in Seq(EntrySet(V)), NEW rule
  PROVE  F!Joined(kept, rule) \in V \cup {0}
<1> DEFINE match == {i \in DOMAIN kept : kept[i].slice = rule.slice /\ kept[i].dnn = rule.dnn
                                         /\ kept[i].ref = rule.ref}
<1>1. F!Joined(kept, rule) = IF match = {} THEN 0 ELSE kept[CHOOSE i \in match : \A j \in match : i <= j].has
  BY DEF F!Joined
<1>2. CASE match = {}
  BY <1>1, <1>2
<1>3. CASE match # {}
  <2>1. match \in SUBSET Nat
    OBVIOUS
  <2> DEFINE k == CHOOSE i \in match : \A j \in match : i <= j
  <2>2. k \in match
    <3> HIDE DEF match
    <3>1. \E i \in match : \A j \in match : i <= j
      BY <1>3, <2>1, LeastNat
    <3> QED  BY <3>1
  <2>3. k \in DOMAIN kept
    BY <2>2
  <2> HIDE DEF k
  <2>4. kept[k] \in EntrySet(V)
    BY <2>3
  <2>5. kept[k].has \in V
    BY <2>4 DEF EntrySet
  <2> QED  BY <1>1, <1>3, <2>5 DEF k
<1> QED  BY <1>2, <1>3

LEMMA RowOfOK ==
  ASSUME NEW rows \in FormRows, NEW s \in Slices, NEW config, config.dnn \in Dnns
  PROVE  F!RowOf(F!ToSubscription(rows), s, config) \in F!SessionRows
<1> DEFINE sub == F!ToSubscription(rows)
           ks == {k \in DOMAIN sub.rules : sub.rules[k].slice = s /\ sub.rules[k].dnn = config.dnn}
           mine == F!Picked(sub.rules, ks)
           back == [i \in DOMAIN mine |-> [filter |-> mine[i].has, qos |-> F!Joined(sub.qos, mine[i]),
                                           charge |-> F!Joined(sub.charging, mine[i])]]
<1>1. sub.rules = Entries(rows, FilterHas(rows)) /\ sub.qos = F!HavingAny(Entries(rows, QosHas(rows)))
      /\ sub.charging = F!HavingAny(Entries(rows, ChargeHas(rows)))
  BY SubIs
<1>2. /\ HasOK(rows, FilterHas(rows), Filters)
      /\ HasOK(rows, QosHas(rows), Fields \cup {0}) /\ HasOK(rows, ChargeHas(rows), Fields \cup {0})
  BY ListsAre
<1>3. sub.rules \in Seq(EntrySet(Filters))
  BY <1>1, <1>2, EntriesOK
<1>4. sub.qos \in Seq(EntrySet(Fields \cup {0}))
  BY <1>1, <1>2, HavingOK
<1>5. sub.charging \in Seq(EntrySet(Fields \cup {0}))
  BY <1>1, <1>2, HavingOK
<1>6. F!RowOf(sub, s, config) =
        [slice |-> s, dnn |-> config.dnn, up |-> IF config.up THEN "set" ELSE "off",
         default |-> sub.defaults = {} \/ s \in sub.defaults, rules |-> back]
  BY DEF F!RowOf
<1> HIDE DEF sub
<1>7. mine \in Seq(EntrySet(Filters))
  <2>1. ks \in SUBSET (1 .. Len(sub.rules))
    BY <1>3
  <2>2. mine = Picked(sub.rules, ks)
    BY FormSame
  <2> HIDE DEF ks, mine
  <2>3. Picked(sub.rules, ks) \in Seq(EntrySet(Filters))
    BY <1>3, <2>1, PickedOK
  <2> QED  BY <2>2, <2>3
<1> HIDE DEF mine
<1>8. Len(mine) \in Nat /\ DOMAIN mine = 1 .. Len(mine) /\ \A i \in DOMAIN mine : mine[i].has \in Filters
  <2>1. Len(mine) \in Nat /\ DOMAIN mine = 1 .. Len(mine) /\ \A i \in DOMAIN mine : mine[i] \in EntrySet(Filters)
    BY <1>7
  <2>2. \A e \in EntrySet(Filters) : e.has \in Filters
    BY DEF EntrySet
  <2> QED  BY <2>1, <2>2
<1>9. \A i \in DOMAIN mine : F!Joined(sub.qos, mine[i]) \in Fields \cup {0}
  <2>1. \A i \in DOMAIN mine : F!Joined(sub.qos, mine[i]) \in (Fields \cup {0}) \cup {0}
    BY <1>4, JoinedIn
  <2> QED  BY <2>1
<1>10. \A i \in DOMAIN mine : F!Joined(sub.charging, mine[i]) \in Fields \cup {0}
  <2>1. \A i \in DOMAIN mine : F!Joined(sub.charging, mine[i]) \in (Fields \cup {0}) \cup {0}
    BY <1>5, JoinedIn
  <2> QED  BY <2>1
<1>11. back \in [1 .. Len(mine) -> F!Rules]
  BY <1>8, <1>9, <1>10 DEF F!Rules
<1> HIDE DEF back
<1>12. back \in Seq(F!Rules)
  BY <1>8, <1>11
<1> QED  BY <1>6, <1>12 DEF F!SessionRows, sub

LEMMA BackRowsOK ==
  ASSUME NEW rows \in FormRows
  PROVE  /\ Cardinality(F!SliceRows(rows)) \in Nat
         /\ DOMAIN BackRows(rows) = 1 .. Cardinality(F!SliceRows(rows))
         /\ \A a \in 1 .. Cardinality(F!SliceRows(rows)) : BackRows(rows)[a] \in Seq(F!SessionRows)
<1>1. Cardinality(F!SliceRows(rows)) \in Nat
  BY SlicesOK
<1>2. ASSUME NEW a \in 1 .. Cardinality(F!SliceRows(rows))
      PROVE  BackRows(rows)[a] \in Seq(F!SessionRows)
  <2>1. SliceNo(rows, a) \in Slices /\ Cardinality(DnnNos(rows, a)) \in Nat
    BY SlicesOK
  <2>2. ASSUME NEW b \in 1 .. Cardinality(DnnNos(rows, a))
        PROVE  F!RowOf(F!ToSubscription(rows), SliceNo(rows, a), F!Config(rows, RowAt(rows, a, b))) \in F!SessionRows
    <3>1. RowAt(rows, a, b) \in DOMAIN rows
      BY SlicesOK
    <3>2. rows[RowAt(rows, a, b)].dnn \in Dnns
      BY <3>1, RowsOK
    <3>3. F!Config(rows, RowAt(rows, a, b)).dnn \in Dnns
      BY <3>2 DEF F!Config
    <3> QED  BY <2>1, <3>3, RowOfOK
  <2>3. BackRows(rows)[a] = [b \in 1 .. Cardinality(DnnNos(rows, a)) |->
            F!RowOf(F!ToSubscription(rows), SliceNo(rows, a), F!Config(rows, RowAt(rows, a, b)))]
    BY DEF BackRows
  <2>4. BackRows(rows)[a] \in [1 .. Cardinality(DnnNos(rows, a)) -> F!SessionRows]
    BY <2>2, <2>3
  <2> QED  BY <2>1, <2>4
<1> QED  BY <1>1, <1>2 DEF BackRows

LEMMA NewRowOK == F!NewRow \in F!SessionRows
<1>1. F!DefaultRule \in F!Rules
  BY RowsAreOK DEF F!DefaultRule, F!Rules
<1>2. <<F!DefaultRule>> \in Seq(F!Rules)
  BY <1>1
<1>3. (CHOOSE s \in Slices : TRUE) \in Slices /\ (CHOOSE d \in Dnns : TRUE) \in Dnns
  BY RowsAreOK
<1> QED  BY <1>2, <1>3 DEF F!NewRow, F!SessionRows

\* What is opened is the rows of a form.
LEMMA BackOK ==
  ASSUME NEW rows \in FormRows
  PROVE  F!FromSubscription(F!ToSubscription(rows)) \in FormRows \ {<<>>}
<1>1. Flat(BackRows(rows)) \in FormRows
  BY BackRowsOK, FlatOK DEF FormRows
<1>2. <<F!NewRow>> \in FormRows /\ <<F!NewRow>> # <<>>
  BY NewRowOK DEF FormRows
<1> QED  BY <1>1, <1>2, BackIs

-----------------------------------------------------------------------------
(* Rows the subscription has room for come back as they were. *)

LEMMA StorableIs ==
  ASSUME NEW rows \in FormRows, F!Storable(rows)
  PROVE  /\ Sessions(rows) /\ \E i : i \in DOMAIN rows
         /\ F!ToSubscription(rows).defaults # {}
         /\ \A i \in DOMAIN rows : rows[i].slice \in F!ToSubscription(rows).defaults <=> rows[i].default
<1> DEFINE sr == F!SliceRows(rows)
           sub == F!ToSubscription(rows)
<1>1. sub.defaults = {rows[i].slice : i \in {j \in sr : rows[j].default}}
  BY SubIs
<1> HIDE DEF sub
<1>2. /\ \A i, j \in DOMAIN rows : rows[i].slice = rows[j].slice =>
            rows[i].default = rows[j].default /\ (rows[i].dnn = rows[j].dnn => i = j)
      /\ \E i \in DOMAIN rows : rows[i].default
  BY DEF F!Storable
<1>3. sr \in SUBSET (DOMAIN rows)
  BY SlicesOK
<1>4. \A i \in DOMAIN rows : \E j \in sr : rows[j].slice = rows[i].slice
  <2> SUFFICES ASSUME NEW i \in DOMAIN rows PROVE \E j \in sr : rows[j].slice = rows[i].slice
    OBVIOUS
  <2>1. PICK a \in 1 .. Cardinality(sr) : SliceNo(rows, a) = rows[i].slice
    BY SlicesOK
  <2>2. Nth(sr, a) \in sr
    BY SlicesOK
  <2> QED  BY <2>1, <2>2 DEF SliceNo
<1> HIDE DEF sr
<1>5. ASSUME NEW i \in DOMAIN rows PROVE rows[i].slice \in sub.defaults <=> rows[i].default
  <2>1. CASE rows[i].default
    <3>1. PICK j \in sr : rows[j].slice = rows[i].slice
      BY <1>4
    <3>2. rows[j].default
      BY <1>2, <1>3, <2>1, <3>1
    <3> QED  BY <1>1, <2>1, <3>1, <3>2
  <2>2. CASE rows[i].slice \in sub.defaults
    <3>1. PICK j \in sr : rows[j].default /\ rows[j].slice = rows[i].slice
      BY <1>1, <2>2
    <3>2. rows[j].default = rows[i].default
      BY <1>2, <1>3, <3>1
    <3> QED  BY <2>2, <3>1, <3>2
  <2> QED  BY <2>1, <2>2
<1>6. Sessions(rows)
  BY <1>2 DEF Sessions
<1>7. \E i : i \in DOMAIN rows
  BY <1>2
<1>8. sub.defaults # {}
  BY <1>2, <1>5
<1> QED  BY <1>5, <1>6, <1>7, <1>8 DEF sub

\* Each place of what is opened has a row of what was saved.
LEMMA BackRowsAre ==
  ASSUME NEW rows \in FormRows, F!Storable(rows)
  PROVE  \A a \in 1 .. Cardinality(F!SliceRows(rows)) :
            /\ DOMAIN BackRows(rows)[a] = 1 .. Cardinality(DnnNos(rows, a))
            /\ \A b \in 1 .. Cardinality(DnnNos(rows, a)) :
                  /\ RowAt(rows, a, b) \in DOMAIN rows
                  /\ BackRows(rows)[a][b] = Kept(rows[RowAt(rows, a, b)])
<1> DEFINE sub == F!ToSubscription(rows)
<1>1. /\ Sessions(rows) /\ sub.defaults # {}
      /\ \A i \in DOMAIN rows : rows[i].slice \in sub.defaults <=> rows[i].default
  BY StorableIs
<1>2. /\ sub.rules = Entries(rows, FilterHas(rows))
      /\ sub.qos = F!HavingAny(Entries(rows, QosHas(rows)))
      /\ sub.charging = F!HavingAny(Entries(rows, ChargeHas(rows)))
  BY SubIs
<1> HIDE DEF sub
<1> SUFFICES ASSUME NEW a \in 1 .. Cardinality(F!SliceRows(rows))
             PROVE  /\ DOMAIN BackRows(rows)[a] = 1 .. Cardinality(DnnNos(rows, a))
                    /\ \A b \in 1 .. Cardinality(DnnNos(rows, a)) :
                          /\ RowAt(rows, a, b) \in DOMAIN rows
                          /\ BackRows(rows)[a][b] = Kept(rows[RowAt(rows, a, b)])
  OBVIOUS
<1>3. BackRows(rows)[a] = [b \in 1 .. Cardinality(DnnNos(rows, a)) |->
            F!RowOf(sub, SliceNo(rows, a), F!Config(rows, RowAt(rows, a, b)))]
  BY DEF BackRows, sub
<1>4. ASSUME NEW b \in 1 .. Cardinality(DnnNos(rows, a))
      PROVE  /\ RowAt(rows, a, b) \in DOMAIN rows
             /\ F!RowOf(sub, SliceNo(rows, a), F!Config(rows, RowAt(rows, a, b))) = Kept(rows[RowAt(rows, a, b)])
  <2> DEFINE i == RowAt(rows, a, b)
             config == F!Config(rows, i)
  <2>1. i \in DOMAIN rows /\ rows[i].slice = SliceNo(rows, a)
    BY SlicesOK
  <2> HIDE DEF i
  <2>2. F!LastOf(rows, i) = i
    BY <1>1, <2>1, RowAtOK
  <2>3. config.dnn = rows[i].dnn /\ (config.up <=> rows[i].up = "set")
    BY <2>2 DEF F!Config
  <2> HIDE DEF config
  <2>4. rows[i].slice \in sub.defaults <=> rows[i].default
    BY <1>1, <2>1
  <2>5. F!RowOf(sub, rows[i].slice, config) = Kept(rows[i])
    BY <1>1, <1>2, <2>1, <2>3, <2>4, RowBack
  <2> QED  BY <2>1, <2>5 DEF i, config
<1> QED  BY <1>3, <1>4

\* The row that was saved of each row that is opened.
Was(rows, x) == LET p == NthPlace(Places(BackRows(rows)), x) IN RowAt(rows, p[1], p[2])

LEMMA WasOK ==
  ASSUME NEW rows \in FormRows, F!Storable(rows), NEW back, back = F!FromSubscription(F!ToSubscription(rows))
  PROVE  /\ back = Flat(BackRows(rows)) /\ back \in FormRows
         /\ \A x \in DOMAIN back : Was(rows, x) \in DOMAIN rows /\ back[x] = Kept(rows[Was(rows, x)])
         /\ \A x, y \in DOMAIN back : Was(rows, x) = Was(rows, y) => x = y
         /\ \A i \in DOMAIN rows : \E x \in DOMAIN back : Was(rows, x) = i
<1> DEFINE ss == BackRows(rows)
           m == Cardinality(F!SliceRows(rows))
           ps == Places(ss)
           N == Cardinality(ps)
           flat == Flat(ss)
<1>1. m \in Nat /\ DOMAIN ss = 1 .. m /\ \A a \in 1 .. m : ss[a] \in Seq(F!SessionRows)
  BY BackRowsOK
<1>2. \A a \in 1 .. m : /\ DOMAIN ss[a] = 1 .. Cardinality(DnnNos(rows, a))
                        /\ \A b \in 1 .. Cardinality(DnnNos(rows, a)) :
                              RowAt(rows, a, b) \in DOMAIN rows /\ ss[a][b] = Kept(rows[RowAt(rows, a, b)])
  BY BackRowsAre
<1>3. Sessions(rows) /\ \E i : i \in DOMAIN rows
  BY StorableIs
<1>4. /\ \A a, x \in 1 .. m : \A b \in 1 .. Cardinality(DnnNos(rows, a)), y \in 1 .. Cardinality(DnnNos(rows, x)) :
              RowAt(rows, a, b) = RowAt(rows, x, y) => a = x /\ b = y
      /\ \A i \in DOMAIN rows : \E a \in 1 .. m : \E b \in 1 .. Cardinality(DnnNos(rows, a)) : RowAt(rows, a, b) = i
  BY <1>3, RowAtOK
<1> HIDE DEF ss, m
<1>5. /\ N \in Nat /\ flat \in Seq(F!SessionRows) /\ Len(flat) = N
      /\ \A k \in 1 .. N : /\ NthPlace(ps, k) \in ps /\ PlaceRank(ps, NthPlace(ps, k)) = k - 1
                           /\ flat[k] = ss[NthPlace(ps, k)[1]][NthPlace(ps, k)[2]]
  BY <1>1, FlatOK
<1>6. \A p \in ps : PlaceRank(ps, p) + 1 \in 1 .. N /\ NthPlace(ps, PlaceRank(ps, p) + 1) = p
  BY <1>1, FlatOK
<1>7. DOMAIN flat = 1 .. N
  BY <1>5
<1>8. /\ \A p \in ps : p = <<p[1], p[2]>> /\ p[1] \in 1 .. m /\ p[2] \in 1 .. Cardinality(DnnNos(rows, p[1]))
      /\ \A a \in 1 .. m : \A b \in 1 .. Cardinality(DnnNos(rows, a)) : <<a, b>> \in ps
  BY <1>1, <1>2, PlacesAre
<1>9. \A x : Was(rows, x) = RowAt(rows, NthPlace(ps, x)[1], NthPlace(ps, x)[2])
  BY DEF Was, ss
<1> HIDE DEF ps, N, flat
<1>10. \A i \in DOMAIN rows : \E x \in 1 .. N : Was(rows, x) = i
  <2> SUFFICES ASSUME NEW i \in DOMAIN rows PROVE \E x \in 1 .. N : Was(rows, x) = i
    OBVIOUS
  <2>1. PICK a \in 1 .. m : \E b \in 1 .. Cardinality(DnnNos(rows, a)) : RowAt(rows, a, b) = i
    BY <1>4
  <2>2. PICK b \in 1 .. Cardinality(DnnNos(rows, a)) : RowAt(rows, a, b) = i
    BY <2>1
  <2> DEFINE x == PlaceRank(ps, <<a, b>>) + 1
  <2>3. x \in 1 .. N /\ NthPlace(ps, x) = <<a, b>>
    BY <1>6, <1>8
  <2> HIDE DEF x
  <2>4. Was(rows, x) = i
    BY <1>9, <2>2, <2>3
  <2> QED  BY <2>3, <2>4
<1>11. flat # <<>>
  <2>1. 1 .. N # {}
    BY <1>3, <1>10
  <2>2. N # 0
    BY <2>1
  <2>3. Len(<<>>) = 0
    OBVIOUS
  <2> QED  BY <1>5, <2>2, <2>3
<1>12. back = flat
  BY <1>11, BackIs DEF flat, ss
<1>13. \A x \in 1 .. N : Was(rows, x) \in DOMAIN rows /\ flat[x] = Kept(rows[Was(rows, x)])
  <2> SUFFICES ASSUME NEW x \in 1 .. N
               PROVE  Was(rows, x) \in DOMAIN rows /\ flat[x] = Kept(rows[Was(rows, x)])
    OBVIOUS
  <2> DEFINE p == NthPlace(ps, x)
  <2>1. p[1] \in 1 .. m /\ p[2] \in 1 .. Cardinality(DnnNos(rows, p[1])) /\ flat[x] = ss[p[1]][p[2]]
        /\ Was(rows, x) = RowAt(rows, p[1], p[2])
    BY <1>5, <1>8, <1>9
  <2> HIDE DEF p
  <2> QED  BY <1>2, <2>1
<1>14. \A x, y \in 1 .. N : Was(rows, x) = Was(rows, y) => x = y
  <2> SUFFICES ASSUME NEW x \in 1 .. N, NEW y \in 1 .. N, Was(rows, x) = Was(rows, y) PROVE x = y
    OBVIOUS
  <2> DEFINE p == NthPlace(ps, x)
             q == NthPlace(ps, y)
  <2>1. /\ p = <<p[1], p[2]>> /\ p[1] \in 1 .. m /\ p[2] \in 1 .. Cardinality(DnnNos(rows, p[1]))
        /\ PlaceRank(ps, p) = x - 1
    BY <1>5, <1>8
  <2>2. /\ q = <<q[1], q[2]>> /\ q[1] \in 1 .. m /\ q[2] \in 1 .. Cardinality(DnnNos(rows, q[1]))
        /\ PlaceRank(ps, q) = y - 1
    BY <1>5, <1>8
  <2>3. RowAt(rows, p[1], p[2]) = RowAt(rows, q[1], q[2])
    BY <1>9
  <2> HIDE DEF p, q
  <2>4. p[1] = q[1] /\ p[2] = q[2]
    BY <1>4, <2>1, <2>2, <2>3
  <2>5. x - 1 = y - 1
    BY <2>1, <2>2, <2>4
  <2> QED  BY <2>5
<1>15. flat \in FormRows
  BY <1>5 DEF FormRows
<1> QED  BY <1>7, <1>10, <1>12, <1>13, <1>14, <1>15 DEF flat, ss

LEMMA KeptTwice == \A r \in F!SessionRows : Kept(Kept(r)) = Kept(r) /\ Kept(r).rules = r.rules
<1> SUFFICES ASSUME NEW r \in F!SessionRows PROVE Kept(Kept(r)) = Kept(r) /\ Kept(r).rules = r.rules
  OBVIOUS
<1>1. r = [slice |-> r.slice, default |-> r.default, dnn |-> r.dnn, up |-> r.up, rules |-> r.rules]
  BY DEF F!SessionRows
<1>2. Kept(r) = [slice |-> r.slice, default |-> r.default, dnn |-> r.dnn,
                 up |-> IF r.up = "set" THEN "set" ELSE "off", rules |-> r.rules]
  BY <1>1 DEF Kept
<1> QED  BY <1>2 DEF Kept

\* The view lists each rule once.
LEMMA ViewRulesAre ==
  ASSUME NEW rows \in FormRows, F!Storable(rows), NEW back, back = F!FromSubscription(F!ToSubscription(rows))
  PROVE  Len(F!ViewRules(back)) = Cardinality(RulePlaces(rows))
<1> DEFINE all == [i \in DOMAIN back |-> [j \in DOMAIN back[i].rules |->
                      [slice |-> back[i].slice, dnn |-> back[i].dnn, rule |-> back[i].rules[j]]]]
           ps == Places(all)
           qs == RulePlaces(rows)
           N == Cardinality(ps)
<1>1. /\ back \in FormRows
      /\ \A x \in DOMAIN back : Was(rows, x) \in DOMAIN rows /\ back[x] = Kept(rows[Was(rows, x)])
      /\ \A x, y \in DOMAIN back : Was(rows, x) = Was(rows, y) => x = y
      /\ \A i \in DOMAIN rows : \E x \in DOMAIN back : Was(rows, x) = i
  BY WasOK
<1>2. F!ViewRules(back) = Flat(all)
  BY FormSame DEF F!ViewRules
<1>3. \A x \in DOMAIN back : DOMAIN back[x].rules = DOMAIN rows[Was(rows, x)].rules
  <2> SUFFICES ASSUME NEW x \in DOMAIN back PROVE DOMAIN back[x].rules = DOMAIN rows[Was(rows, x)].rules
    OBVIOUS
  <2>1. rows[Was(rows, x)] \in F!SessionRows /\ back[x] = Kept(rows[Was(rows, x)])
    BY <1>1, RowsOK
  <2> QED  BY <2>1, KeptTwice
<1>4. DOMAIN all = DOMAIN back /\ \A x \in DOMAIN back : DOMAIN all[x] = DOMAIN back[x].rules
  OBVIOUS
<1>5. Flat(all) = [k \in 1 .. N |-> all[NthPlace(ps, k)[1]][NthPlace(ps, k)[2]]]
  BY DEF Flat
<1> HIDE DEF all
<1>5a. IsFiniteSet(ps)
  <2>1. Len(back) \in Nat /\ DOMAIN all = 1 .. Len(back)
    BY <1>1, <1>4, RowsOK
  <2>2. ASSUME NEW x \in 1 .. Len(back) PROVE IsFiniteSet(DOMAIN all[x]) /\ DOMAIN all[x] \subseteq Nat
    <3>1. Len(back[x].rules) \in Nat /\ DOMAIN all[x] = 1 .. Len(back[x].rules)
      BY <1>1, <1>4, <2>1, RowsOK
    <3> QED  BY <3>1, UpTo
  <2> QED  BY <2>1, <2>2, PlacesFinite
<1>6. IsFiniteSet(qs) /\ qs \in SUBSET (Int \X Int)
  <2>1. HasOK(rows, FilterHas(rows), Filters)
    BY ListsAre
  <2> QED  BY <2>1, EntriesOK
<1>7. /\ \A p \in ps : p = <<p[1], p[2]>> /\ p[1] \in DOMAIN back /\ p[2] \in DOMAIN rows[Was(rows, p[1])].rules
      /\ \A x \in DOMAIN back : \A j \in DOMAIN rows[Was(rows, x)].rules : <<x, j>> \in ps
  BY <1>3, <1>4, PlacesAre
<1>8. DOMAIN RuleRows(rows) = DOMAIN rows /\ \A i \in DOMAIN rows : DOMAIN RuleRows(rows)[i] = DOMAIN rows[i].rules
  BY DEF RuleRows
<1>9. /\ \A q \in qs : q = <<q[1], q[2]>> /\ q[1] \in DOMAIN rows /\ q[2] \in DOMAIN rows[q[1]].rules
      /\ \A i \in DOMAIN rows : \A j \in DOMAIN rows[i].rules : <<i, j>> \in qs
  BY <1>8, PlacesAre DEF RulePlaces
<1> HIDE DEF ps, qs
<1> DEFINE f == [p \in ps |-> <<Was(rows, p[1]), p[2]>>]
<1>10. f \in [ps -> qs]
  BY <1>1, <1>7, <1>9
<1>11. \A q \in qs : \E p \in ps : f[p] = q
  <2> SUFFICES ASSUME NEW q \in qs PROVE \E p \in ps : f[p] = q
    OBVIOUS
  <2>1. PICK x \in DOMAIN back : Was(rows, x) = q[1]
    BY <1>1, <1>9
  <2>2. <<x, q[2]>> \in ps
    BY <1>7, <1>9, <2>1
  <2>3. f[<<x, q[2]>>] = <<q[1], q[2]>>
    BY <2>1, <2>2
  <2> QED  BY <1>9, <2>2, <2>3
<1>12. \A p, r \in ps : f[p] = f[r] => p = r
  <2> SUFFICES ASSUME NEW p \in ps, NEW r \in ps, f[p] = f[r] PROVE p = r
    OBVIOUS
  <2>1. Was(rows, p[1]) = Was(rows, r[1]) /\ p[2] = r[2]
    OBVIOUS
  <2>2. p[1] = r[1]
    BY <1>1, <1>7, <2>1
  <2> QED  BY <1>7, <2>1, <2>2
<1> HIDE DEF f
<1>13. f \in Bijection(ps, qs)
  BY <1>10, <1>11, <1>12 DEF Bijection, Injection, Surjection, IsInjective
<1>14. N = Cardinality(qs) /\ N \in Nat
  <2> QED  BY <1>5a, <1>13, FS_Bijection, FS_CardinalityType DEF ExistsBijection
<1> HIDE DEF N
<1>15. Len(Flat(all)) = N
  BY <1>5, <1>14
<1> QED  BY <1>2, <1>14, <1>15 DEF qs

\* Of any rows a subscription has room for, fromSubscription makes the same rows of what
\* toSubscription made of them, each rule with its own QoS and charging, and the view lists
\* every rule once (subscriberForm.ts:177-390).
THEOREM SubscriptionsReopen ==
  ASSUME NEW rows \in FormRows, F!Storable(rows), NEW back, back = F!FromSubscription(F!ToSubscription(rows))
  PROVE  /\ F!AsStored(back) = F!AsStored(rows)
         /\ Len(F!ViewRules(back)) = Len(F!ToSubscription(rows).rules)
<1>1. /\ \A x \in DOMAIN back : Was(rows, x) \in DOMAIN rows /\ back[x] = Kept(rows[Was(rows, x)])
      /\ \A i \in DOMAIN rows : \E x \in DOMAIN back : Was(rows, x) = i
  BY WasOK
<1>2. \A f : F!AsStored(f) = {Kept(f[i]) : i \in DOMAIN f}
  BY DEF F!AsStored, Kept
<1>3. \A x \in DOMAIN back : Kept(back[x]) = Kept(rows[Was(rows, x)])
  BY <1>1, RowsOK, KeptTwice
<1>4. F!AsStored(back) = F!AsStored(rows)
  <2>1. {Kept(back[x]) : x \in DOMAIN back} = {Kept(rows[i]) : i \in DOMAIN rows}
    BY <1>1, <1>3
  <2> QED  BY <1>2, <2>1
<1>5. Len(F!ToSubscription(rows).rules) = Cardinality(RulePlaces(rows))
  <2>1. HasOK(rows, FilterHas(rows), Filters)
    BY ListsAre
  <2>2. F!ToSubscription(rows).rules = Entries(rows, FilterHas(rows))
    BY SubIs
  <2> QED  BY <2>1, <2>2, EntriesOK
<1> QED  BY <1>4, <1>5, ViewRulesAre

-----------------------------------------------------------------------------
Shown == FormRows \ {<<>>}

RowsInv ==
    /\ DOMAIN s7 \subseteq F!Imsis /\ DOMAIN s8 = DOMAIN s7
    /\ \A u \in DOMAIN s7 : s8[u] \in Shown /\ s7[u] = F!ToSubscription(s8[u])
    /\ s9 \in {"create", "edit", "view"} /\ s11 \in F!Imsis
    /\ s12 \in Shown \cup {None} /\ (s12 = None => s9 # "create") /\ (s9 # "create" => s11 \in DOMAIN s7)
    /\ s13.kind \in {"none", "one", "many"}
    /\ s13.kind # "none" => s13.rows \in Shown /\ s13.sub = F!ToSubscription(s13.rows)
    /\ s13.kind = "one" => s13.ids[1] \in F!Imsis
    /\ s13.kind = "many" => \A i \in 1 .. s1 : s13.ids[i] \in F!Imsis
    /\ s14 \subseteq F!Imsis /\ s15 \in BOOLEAN /\ s16 \in 0 .. FormEvents

LEMMA ShownNotNone == \A rows \in Shown : rows # None /\ rows \in FormRows /\ rows # <<>>
  BY RowsAreOK DEF Shown, FormRows

LEMMA ImsisOK == F!Imsis \subseteq Nat /\ 1 \in F!Imsis /\ LastImsi \in F!Imsis
  BY PagesOK DEF F!Imsis

LEMMA OneRow == ASSUME NEW row \in F!SessionRows PROVE <<row>> \in Shown
  BY DEF Shown, FormRows

LEMMA EmptyOK == F!EmptyForm \in Shown /\ F!TwoDnns \in Shown
<1>1. F!NewRow \in F!SessionRows
  BY NewRowOK
<1>2. [F!NewRow EXCEPT !.default = TRUE] \in F!SessionRows
  BY <1>1 DEF F!SessionRows
<1>3. (CHOOSE d \in Dnns \ {F!NewRow.dnn} : TRUE) \in Dnns
  BY RowsAreOK
<1>4. [F!NewRow EXCEPT !.default = TRUE, !.dnn = CHOOSE d \in Dnns \ {F!NewRow.dnn} : TRUE] \in F!SessionRows
  BY <1>1, <1>3 DEF F!SessionRows
<1>5. F!EmptyForm \in Shown
  BY <1>2, OneRow DEF F!EmptyForm
<1>6. \A r, q \in F!SessionRows : <<r>> \o <<q>> \in Shown
  BY DEF Shown, FormRows
<1>7. F!TwoDnns \in Shown
  BY <1>2, <1>4, <1>6 DEF F!TwoDnns, F!EmptyForm
<1> QED  BY <1>5, <1>7

LEMMA RowsInit == F!Init => RowsInv
<1> SUFFICES ASSUME F!Init PROVE RowsInv
  OBVIOUS
<1>1. DOMAIN s7 = {} /\ s8 = s7 /\ s9 = "create" /\ s11 \in {1, LastImsi} /\ s12 \in {F!EmptyForm, F!TwoDnns}
  BY DEF F!Init
<1>2. s13.kind = "none" /\ s14 = {} /\ s15 = TRUE /\ s16 = 0
  BY DEF F!Init, F!NoSave
<1>3. FormEvents \in Nat
  BY PagesOK
<1>4. s11 \in F!Imsis /\ s12 \in Shown /\ s12 # None
  BY <1>1, ImsisOK, EmptyOK, ShownNotNone
<1> QED  BY <1>1, <1>2, <1>3, <1>4 DEF RowsInv

LEMMA RowsCount ==
  ASSUME RowsInv
  PROVE  /\ F!Happens => s16' \in 0 .. FormEvents
         /\ UNCHANGED s16 => s16' \in 0 .. FormEvents
<1>1. FormEvents \in Nat /\ s16 \in 0 .. FormEvents
  BY PagesOK DEF RowsInv
<1> QED  BY <1>1 DEF F!Happens

\* A row's rules without one of them are rules, as are a form's rows.
LEMMA WithoutOK ==
  ASSUME NEW S0, NEW f \in Seq(S0), NEW i \in DOMAIN f
  PROVE  F!Without(f, i) \in Seq(S0) /\ (Len(f) > 1 => F!Without(f, i) # <<>>)
<1> DEFINE ks == DOMAIN f \ {i}
<1>1. Len(f) \in Nat /\ DOMAIN f = 1 .. Len(f)
  OBVIOUS
<1>2. F!Without(f, i) = Picked(f, ks)
  BY FormSame DEF F!Without
<1>3. ks \in SUBSET (1 .. Len(f)) /\ (Len(f) > 1 => ks # {})
  <2>1. Len(f) > 1 => (IF i = 1 THEN 2 ELSE 1) \in ks
    BY <1>1
  <2> QED  BY <1>1, <2>1
<1> HIDE DEF ks
<1>4. /\ Picked(f, ks) \in Seq(S0) /\ Len(Picked(f, ks)) = Cardinality(ks)
      /\ \A k \in ks : Rank(ks, k) + 1 \in 1 .. Cardinality(ks)
  BY <1>3, PickedOK
<1>5. ASSUME Len(f) > 1 PROVE Picked(f, ks) # <<>>
  <2>1. PICK k : k \in ks
    BY <1>3, <1>5
  <2>2. Rank(ks, k) + 1 \in 1 .. Cardinality(ks)
    BY <1>4, <2>1
  <2>3. Cardinality(ks) # 0
    BY <2>2
  <2>4. Len(<<>>) = 0
    OBVIOUS
  <2> QED  BY <1>4, <2>3, <2>4
<1> QED  BY <1>2, <1>4, <1>5

LEMMA EditedRow ==
  ASSUME NEW r \in F!SessionRows,
         NEW row \in F!SliceFields(r) \cup F!DnnFields(r) \cup F!UpSecurity(r) \cup F!RuleFields(r) \cup F!NewRule(r)
  PROVE  row \in F!SessionRows
<1>1. /\ r = [slice |-> r.slice, default |-> r.default, dnn |-> r.dnn, up |-> r.up, rules |-> r.rules]
      /\ r.slice \in Slices /\ r.default \in BOOLEAN /\ r.dnn \in Dnns /\ r.up \in {"off", "blank", "set"}
      /\ r.rules \in Seq(F!Rules)
  BY DEF F!SessionRows
<1>2. CASE row \in F!SliceFields(r)
  BY <1>1, <1>2 DEF F!SliceFields, F!SessionRows
<1>3. CASE row \in F!DnnFields(r)
  BY <1>1, <1>3 DEF F!DnnFields, F!SessionRows
<1>4. CASE row \in F!UpSecurity(r)
  BY <1>1, <1>4 DEF F!UpSecurity, F!SessionRows
<1>5. ASSUME NEW rules \in Seq(F!Rules), row = [r EXCEPT !.rules = rules]
      PROVE  row \in F!SessionRows
  BY <1>1, <1>5 DEF F!SessionRows
<1>6. CASE row \in F!NewRule(r)
  <2>1. row = [r EXCEPT !.rules = Append(r.rules, F!DefaultRule)]
    BY <1>6 DEF F!NewRule
  <2>2. F!DefaultRule \in F!Rules
    BY RowsAreOK DEF F!DefaultRule, F!Rules
  <2>3. Append(r.rules, F!DefaultRule) \in Seq(F!Rules)
    BY <1>1, <2>2
  <2> QED  BY <1>5, <2>1, <2>3
<1>7. CASE row \in F!RuleFields(r)
  <2>1. ASSUME NEW i \in DOMAIN r.rules, row = [r EXCEPT !.rules = F!Without(r.rules, i)]
        PROVE  row \in F!SessionRows
    <3>1. F!Without(r.rules, i) \in Seq(F!Rules)
      BY <1>1, <2>1, WithoutOK
    <3> QED  BY <1>5, <2>1, <3>1
  <2>2. ASSUME NEW i \in DOMAIN r.rules, NEW rule \in F!Rules, row = [r EXCEPT !.rules[i] = rule]
        PROVE  row \in F!SessionRows
    <3>1. [r.rules EXCEPT ![i] = rule] \in Seq(F!Rules)
      BY <1>1
    <3>2. row = [r EXCEPT !.rules = [r.rules EXCEPT ![i] = rule]]
      BY <2>2
    <3> QED  BY <1>5, <3>1, <3>2
  <2>3. \A i \in DOMAIN r.rules : r.rules[i] \in F!Rules
    BY <1>1
  <2>4. ASSUME NEW i \in DOMAIN r.rules, NEW f \in Fields \cup {0}, row = [r EXCEPT !.rules[i].qos = f]
        PROVE  row \in F!SessionRows
    <3>1. [r.rules[i] EXCEPT !.qos = f] \in F!Rules
      BY <2>3 DEF F!Rules
    <3>2. row = [r EXCEPT !.rules[i] = [r.rules[i] EXCEPT !.qos = f]]
      BY <2>4
    <3> QED  BY <2>2, <3>1, <3>2
  <2>5. ASSUME NEW i \in DOMAIN r.rules, NEW f \in Fields \cup {0}, row = [r EXCEPT !.rules[i].charge = f]
        PROVE  row \in F!SessionRows
    <3>1. [r.rules[i] EXCEPT !.charge = f] \in F!Rules
      BY <2>3 DEF F!Rules
    <3>2. row = [r EXCEPT !.rules[i] = [r.rules[i] EXCEPT !.charge = f]]
      BY <2>5
    <3> QED  BY <2>2, <3>1, <3>2
  <2>6. ASSUME NEW i \in DOMAIN r.rules, NEW f \in Filters, row = [r EXCEPT !.rules[i].filter = f]
        PROVE  row \in F!SessionRows
    <3>1. [r.rules[i] EXCEPT !.filter = f] \in F!Rules
      BY <2>3 DEF F!Rules
    <3>2. row = [r EXCEPT !.rules[i] = [r.rules[i] EXCEPT !.filter = f]]
      BY <2>6
    <3> QED  BY <2>2, <3>1, <3>2
  <2>7. \/ \E i \in DOMAIN r.rules : row = [r EXCEPT !.rules = F!Without(r.rules, i)]
        \/ \E i \in DOMAIN r.rules, f \in Fields \cup {0} : row = [r EXCEPT !.rules[i].qos = f]
        \/ \E i \in DOMAIN r.rules, f \in Fields \cup {0} : row = [r EXCEPT !.rules[i].charge = f]
        \/ \E i \in DOMAIN r.rules, f \in Filters : row = [r EXCEPT !.rules[i].filter = f]
    BY <1>7 DEF F!RuleFields
  <2> QED  BY <2>1, <2>4, <2>5, <2>6, <2>7
<1> QED  BY <1>2, <1>3, <1>4, <1>6, <1>7

\* A step that leaves what is stored and what is being saved.
LEMMA RowsEdited ==
  ASSUME RowsInv, UNCHANGED <<s1, s7, s8, s13>>, s9' \in {"create", "edit", "view"}, s11' \in F!Imsis,
         s12' \in Shown \cup {None}, s12' = None => s9' # "create", s9' # "create" => s11' \in DOMAIN s7,
         s14' \subseteq F!Imsis, s15' \in BOOLEAN, s16' \in 0 .. FormEvents
  PROVE  RowsInv'
  BY DEF RowsInv

LEMMA RowsStored ==
  ASSUME NEW u \in F!Imsis, RowsInv, F!Store(u), s13.rows \in Shown, s13.sub = F!ToSubscription(s13.rows)
  PROVE  /\ DOMAIN s7' \subseteq F!Imsis /\ DOMAIN s8' = DOMAIN s7' /\ DOMAIN s7 \subseteq DOMAIN s7'
         /\ \A v \in DOMAIN s7' : s8'[v] \in Shown /\ s7'[v] = F!ToSubscription(s8'[v])
<1>1. /\ s7' = [i \in DOMAIN s7 \cup {u} |-> IF i = u THEN s13.sub ELSE s7[i]]
      /\ s8' = [i \in DOMAIN s7 \cup {u} |-> IF i = u THEN s13.rows ELSE s8[i]]
  BY DEF F!Store
<1>2. DOMAIN s7 \subseteq F!Imsis /\ \A v \in DOMAIN s7 : s8[v] \in Shown /\ s7[v] = F!ToSubscription(s8[v])
  BY DEF RowsInv
<1>3. DOMAIN s7' = DOMAIN s7 \cup {u} /\ DOMAIN s8' = DOMAIN s7'
  BY <1>1
<1>4. ASSUME NEW v \in DOMAIN s7' PROVE s8'[v] \in Shown /\ s7'[v] = F!ToSubscription(s8'[v])
  <2>1. CASE v = u
    <3>1. s7'[v] = s13.sub /\ s8'[v] = s13.rows
      BY <1>1, <1>3, <2>1
    <3> QED  BY <3>1
  <2>2. CASE v # u
    <3>1. v \in DOMAIN s7 /\ s7'[v] = s7[v] /\ s8'[v] = s8[v]
      BY <1>1, <1>3, <2>2
    <3> QED  BY <1>2, <3>1
  <2> QED  BY <2>1, <2>2
<1> QED  BY <1>2, <1>3, <1>4

LEMMA RowsStep == FormInv /\ RowsInv /\ F!Next => RowsInv'
<1> SUFFICES ASSUME FormInv, RowsInv, F!Next PROVE RowsInv'
  OBVIOUS
<1>1. /\ (F!Happens => s16' \in 0 .. FormEvents) /\ (UNCHANGED s16 => s16' \in 0 .. FormEvents)
      /\ s16 \in 0 .. FormEvents
  BY RowsCount DEF RowsInv
<1>2. /\ s9 \in {"create", "edit", "view"} /\ s11 \in F!Imsis /\ s14 \subseteq F!Imsis /\ s15 \in BOOLEAN
      /\ s12 \in Shown \cup {None} /\ (s12 = None => s9 # "create") /\ (s9 # "create" => s11 \in DOMAIN s7)
      /\ DOMAIN s7 \subseteq F!Imsis
  BY DEF RowsInv
<1>3. CASE F!Open
  BY <1>1, <1>2, <1>3, RowsEdited, PoolStays DEF F!Open, F!bulkVars
<1>4. CASE F!ToEdit
  <2>1. s9' = "edit" /\ s9 = "view" /\ s12' = None /\ UNCHANGED <<s1, s7, s8, s11, s13, s14, s15, s16>>
    BY <1>4 DEF F!ToEdit, F!bulkVars
  <2> QED  BY <1>1, <1>2, <2>1, RowsEdited
<1>5. CASE F!StartAdd
  <2>1. UNCHANGED <<s1, s7, s8, s13>> /\ s9' = "create" /\ s11' = 1 /\ s12' = F!EmptyForm /\ s14' = {} /\ s15' = TRUE
        /\ s16' \in 0 .. FormEvents
    BY <1>1, <1>5 DEF F!StartAdd, F!bulkVars
  <2>2. s11' \in F!Imsis /\ s12' \in Shown /\ s12' # None
    BY <2>1, ImsisOK, EmptyOK, ShownNotNone
  <2> QED  BY <2>1, <2>2, RowsEdited
<1>6. CASE F!Loaded
  <2>1. s12 = None /\ s12' = F!FromSubscription(s7[s11])
        /\ UNCHANGED <<s1, s7, s8, s9, s11, s13, s14, s15, s16>>
    BY <1>6 DEF F!Loaded, F!bulkVars
  <2>2. s11 \in DOMAIN s7
    BY <1>2, <2>1
  <2>3. s7[s11] = F!ToSubscription(s8[s11]) /\ s8[s11] \in Shown
    BY <2>2 DEF RowsInv
  <2>4. s12' \in Shown /\ s12' # None
    BY <2>1, <2>3, BackOK, ShownNotNone DEF Shown
  <2> QED  BY <1>1, <1>2, <2>1, <2>4, RowsEdited
<1>7. CASE F!Back
  BY <1>1, <1>2, <1>7, RowsEdited DEF F!Back, F!bulkVars
<1>8. ASSUME s12' \in Shown, UNCHANGED <<s1, s7, s8, s9, s11, s13, s14, s15>>, F!Happens PROVE RowsInv'
  <2>1. s12' # None
    BY <1>8, ShownNotNone
  <2> QED  BY <1>1, <1>2, <1>8, <2>1, RowsEdited
<1>9. ASSUME F!Editing PROVE s12 \in Shown /\ s12 \in FormRows /\ F!Happens
  BY <1>2, <1>9 DEF F!Editing, Shown
<1>10. CASE F!EditRow
  <2>1. PICK i \in DOMAIN s12 :
           \E row \in (F!SliceFields(s12[i]) \cup F!DnnFields(s12[i]) \cup F!UpSecurity(s12[i])
                       \cup F!RuleFields(s12[i]) \cup F!NewRule(s12[i])) \ {s12[i]} : s12' = [s12 EXCEPT ![i] = row]
    BY <1>10 DEF F!EditRow
  <2>2. PICK row \in F!SliceFields(s12[i]) \cup F!DnnFields(s12[i]) \cup F!UpSecurity(s12[i])
                       \cup F!RuleFields(s12[i]) \cup F!NewRule(s12[i]) : s12' = [s12 EXCEPT ![i] = row]
    BY <2>1
  <2>3. s12 \in Shown /\ s12 \in FormRows /\ F!Happens /\ UNCHANGED <<s1, s7, s8, s9, s11, s13, s14, s15>>
    BY <1>9, <1>10 DEF F!EditRow, F!bulkVars
  <2>4. s12[i] \in F!SessionRows
    BY <2>3, RowsOK
  <2>5. row \in F!SessionRows
    BY <2>2, <2>4, EditedRow
  <2>6. s12' \in FormRows /\ Len(s12') = Len(s12)
    BY <2>2, <2>3, <2>5 DEF FormRows
  <2>7. s12' \in Shown
    BY <2>3, <2>6 DEF Shown, FormRows
  <2> QED  BY <1>8, <2>3, <2>7
<1>11. CASE F!AddSlice
  <2>1. s12 \in FormRows /\ F!Happens /\ UNCHANGED <<s1, s7, s8, s9, s11, s13, s14, s15>>
        /\ s12' = Append(s12, F!NewRow)
    BY <1>9, <1>11 DEF F!AddSlice, F!bulkVars
  <2>2. s12' \in FormRows /\ s12' # <<>>
    BY <2>1, NewRowOK DEF FormRows
  <2> QED  BY <1>8, <2>1, <2>2 DEF Shown
<1>12. CASE F!DeleteSlice
  <2>1. s12 \in FormRows /\ F!Happens /\ UNCHANGED <<s1, s7, s8, s9, s11, s13, s14, s15>> /\ Len(s12) > 1
    BY <1>9, <1>12 DEF F!DeleteSlice, F!bulkVars
  <2>2. PICK i \in DOMAIN s12 : s12' = F!Without(s12, i)
    BY <1>12 DEF F!DeleteSlice
  <2>3. s12' \in FormRows /\ s12' # <<>>
    BY <2>1, <2>2, WithoutOK DEF FormRows
  <2> QED  BY <1>8, <2>1, <2>3 DEF Shown
<1>13. CASE F!EditImsi
  BY <1>1, <1>2, <1>13, RowsEdited DEF F!EditImsi, F!bulkVars
<1>14. CASE F!Submit
  <2>1. s12 \in Shown /\ UNCHANGED <<s7, s8, s9, s11, s12, s15, s16>>
        /\ (F!IsBulk => F!BulkUeIds # <<>> /\ F!BulkStart(s10)) /\ s14' \in {s14, {}}
    BY <1>2, <1>14 DEF F!Submit
  <2>2. s13' = [kind |-> IF F!IsBulk THEN "many" ELSE "one",
                ids |-> IF F!IsBulk THEN F!BulkUeIds ELSE <<s11>>, sub |-> F!ToSubscription(s12), rows |-> s12]
    BY <1>14 DEF F!Submit
  <2>3. s13'.kind = "many" => \A i \in 1 .. s1' : s13'.ids[i] \in F!Imsis
    <3> SUFFICES ASSUME F!IsBulk, NEW i \in 1 .. s1' PROVE s13'.ids[i] \in F!Imsis
      BY <2>2
    <3>1. s1' = s10 /\ s10 \in Nat /\ s11 \in 1 .. LastImsi
      BY <1>2, <2>1, PagesOK DEF F!BulkStart, FormInv, F!Imsis
    <3>2. F!BulkUeIds = [k \in 1 .. s10 |-> s11 + k - 1] /\ ~(s11 + s10 - 1 > LastImsi)
      BY <2>1 DEF F!BulkUeIds
    <3>3. s13'.ids = F!BulkUeIds
      BY <2>2
    <3>4. s13'.ids[i] = s11 + i - 1
      BY <3>1, <3>2, <3>3
    <3>5. LastImsi \in Nat
      BY PagesOK
    <3> QED  BY <3>1, <3>2, <3>4, <3>5 DEF F!Imsis
  <2>4. s13'.kind = "one" => s13'.ids[1] \in F!Imsis
    BY <1>2, <2>2
  <2>5. s13'.kind \in {"one", "many"} /\ s13'.rows \in Shown /\ s13'.sub = F!ToSubscription(s13'.rows)
    BY <2>1, <2>2
  <2>6. s14' \subseteq F!Imsis /\ s16' \in 0 .. FormEvents
    BY <1>1, <1>2, <2>1
  <2>7. \A u \in DOMAIN s7' : s8'[u] \in Shown /\ s7'[u] = F!ToSubscription(s8'[u])
    BY <2>1 DEF RowsInv
  <2>8. DOMAIN s7' \subseteq F!Imsis /\ DOMAIN s8' = DOMAIN s7'
    BY <2>1 DEF RowsInv
  <2>9. /\ s9' \in {"create", "edit", "view"} /\ s11' \in F!Imsis /\ s15' \in BOOLEAN
        /\ s12' \in Shown \cup {None} /\ (s12' = None => s9' # "create") /\ (s9' # "create" => s11' \in DOMAIN s7')
    BY <1>2, <2>1
  <2> QED  BY <2>3, <2>4, <2>5, <2>6, <2>7, <2>8, <2>9 DEF RowsInv
<1>15. ASSUME NEW ok \in BOOLEAN, F!SaveAnswered(ok) PROVE RowsInv'
  <2>1. /\ s13.kind = "one" /\ s13'.kind = "none" /\ UNCHANGED <<s9, s11, s12, s14, s16>> /\ s15' \in {s15, FALSE}
        /\ (F!Store(s13.ids[1]) \/ UNCHANGED <<s7, s8>>)
    BY <1>15 DEF F!SaveAnswered, F!NoSave
  <2>2. s13.ids[1] \in F!Imsis /\ s13.rows \in Shown /\ s13.sub = F!ToSubscription(s13.rows)
    BY <2>1 DEF RowsInv
  <2>3. /\ DOMAIN s7' \subseteq F!Imsis /\ DOMAIN s8' = DOMAIN s7' /\ DOMAIN s7 \subseteq DOMAIN s7'
        /\ \A v \in DOMAIN s7' : s8'[v] \in Shown /\ s7'[v] = F!ToSubscription(s8'[v])
    <3>1. CASE F!Store(s13.ids[1])
      BY <2>2, <3>1, RowsStored
    <3>2. CASE UNCHANGED <<s7, s8>>
      BY <3>2 DEF RowsInv
    <3> QED  BY <2>1, <3>1, <3>2
  <2>4. s16' \in 0 .. FormEvents /\ s15' \in BOOLEAN
    BY <1>1, <1>2, <2>1
  <2>5. s12' \in Shown \cup {None} /\ (s12' = None => s9' # "create") /\ (s9' # "create" => s11' \in DOMAIN s7')
        /\ s9' \in {"create", "edit", "view"} /\ s11' \in F!Imsis /\ s14' \subseteq F!Imsis
    BY <1>2, <2>1, <2>3
  <2> QED  BY <2>1, <2>3, <2>4, <2>5 DEF RowsInv
<1>16. ASSUME NEW ok \in BOOLEAN, NEW w \in F!Workers, F!BulkItem(w, ok) PROVE RowsInv'
  <2>1. /\ s13.kind = "many" /\ UNCHANGED <<s9, s11, s12, s13, s14, s15, s16>> /\ F!BulkFinish(w, ok)
        /\ (F!Store(s13.ids[s3[w]]) \/ UNCHANGED <<s7, s8>>)
    BY <1>16 DEF F!BulkItem
  <2>2. s3[w] \in 1 .. s1 /\ s1' = s1
    <3>1. s3 \in [Run!Workers -> 0 .. s2] /\ s2 \in 0 .. s1 /\ s1 \in Nat /\ w \in Run!Workers
      BY DEF FormInv, PoolInv, BulkInv, Run!Workers, F!Workers
    <3>2. s3[w] \in 0 .. s2 /\ s3[w] # 0 /\ s1' = s1
      BY <2>1, <3>1 DEF F!BulkFinish
    <3> QED  BY <3>1, <3>2
  <2>3. s13.ids[s3[w]] \in F!Imsis /\ s13.rows \in Shown /\ s13.sub = F!ToSubscription(s13.rows)
    BY <2>1, <2>2 DEF RowsInv
  <2>4. /\ DOMAIN s7' \subseteq F!Imsis /\ DOMAIN s8' = DOMAIN s7' /\ DOMAIN s7 \subseteq DOMAIN s7'
        /\ \A v \in DOMAIN s7' : s8'[v] \in Shown /\ s7'[v] = F!ToSubscription(s8'[v])
    <3>1. CASE F!Store(s13.ids[s3[w]])
      BY <2>3, <3>1, RowsStored
    <3>2. CASE UNCHANGED <<s7, s8>>
      BY <3>2 DEF RowsInv
    <3> QED  BY <2>1, <3>1, <3>2
  <2>5. s12' \in Shown \cup {None} /\ (s12' = None => s9' # "create") /\ (s9' # "create" => s11' \in DOMAIN s7')
        /\ s9' \in {"create", "edit", "view"} /\ s11' \in F!Imsis /\ s14' \subseteq F!Imsis /\ s15' \in BOOLEAN
        /\ s16' \in 0 .. FormEvents
    BY <1>1, <1>2, <2>1, <2>4
  <2>6. \A i \in 1 .. s1' : s13'.ids[i] \in F!Imsis
    BY <2>1, <2>2 DEF RowsInv
  <2> QED  BY <2>1, <2>3, <2>4, <2>5, <2>6 DEF RowsInv
<1>17. CASE F!BulkDone
  <2>1. /\ s13.kind = "many" /\ s13'.kind = "none" /\ UNCHANGED <<s7, s8, s9, s11, s12, s16>>
        /\ s14' = {s13.ids[i] : i \in s5} /\ s15' \in BOOLEAN
    BY <1>17 DEF F!BulkDone, F!NoSave
  <2>2. s5 \subseteq 1 .. s1
    BY PoolSays DEF FormInv
  <2>3. s14' \subseteq F!Imsis
    BY <2>1, <2>2 DEF RowsInv
  <2> QED  BY <1>1, <2>1, <2>3 DEF RowsInv
<1> QED  BY <1>3, <1>4, <1>5, <1>6, <1>7, <1>10, <1>11, <1>12, <1>13, <1>14, <1>15, <1>16, <1>17 DEF F!Next

LEMMA RowsShow == FormInv /\ RowsInv => F!FormTypeOK /\ F!ReopensAsSaved
<1> SUFFICES ASSUME FormInv, RowsInv PROVE F!FormTypeOK /\ F!ReopensAsSaved
  OBVIOUS
<1>1. F!BulkTypeOK
  <2>1. s1 \in Nat /\ s2 \in 0 .. s1 /\ s3 \in [F!Workers -> 0 .. s2] /\ s6 \subseteq 1 .. s2 /\ s4 \in Nat /\ s5 \subseteq s6
    BY DEF FormInv, PoolInv, BulkInv, Run!Workers, F!Workers
  <2>2. 0 .. s2 \subseteq 0 .. s1 /\ 1 .. s2 \subseteq 1 .. s1
    BY <2>1
  <2>3. s3 \in [F!Workers -> 0 .. s1]
    BY <2>1, <2>2
  <2> QED  BY <2>1, <2>2, <2>3 DEF F!BulkTypeOK
<1>2. s12 # None => s12 \in Seq(F!SessionRows) /\ s12 # <<>>
  BY DEF RowsInv, Shown, FormRows
<1>3. F!FormTypeOK
  BY <1>1, <1>2 DEF F!FormTypeOK, RowsInv, FormInv
<1>4. F!ReopensAsSaved
  <2> SUFFICES ASSUME NEW u \in DOMAIN s7, F!Storable(s8[u])
               PROVE  /\ F!AsStored(F!FromSubscription(s7[u])) = F!AsStored(s8[u])
                      /\ Len(F!ViewRules(F!FromSubscription(s7[u]))) = Len(s7[u].rules)
    BY DEF F!ReopensAsSaved
  <2>1. s8[u] \in FormRows /\ s7[u] = F!ToSubscription(s8[u])
    BY DEF RowsInv, Shown
  <2> QED  BY <2>1, SubscriptionsReopen
<1> QED  BY <1>3, <1>4

LEMMA RowsStay == RowsInv /\ UNCHANGED vars => RowsInv'
<1> SUFFICES ASSUME RowsInv, UNCHANGED vars PROVE RowsInv'
  OBVIOUS
<1>1. UNCHANGED <<s1, s7, s8, s9, s11, s12, s13, s14, s15, s16>>
  BY DEF vars
<1> QED  BY <1>1 DEF RowsInv

-----------------------------------------------------------------------------
(* What a form shows, and what a step keeps: the invariants of the pages that hold one. *)

SetsInv ==
    /\ ItemsInv
    /\ On("subscriber", RowsInv)
    /\ On("setup", SetupInv)
    /\ On("checks", HostInv)
    /\ On("cpus", CpusInv)
    /\ On("logs", L!LogsTypeOK)
    /\ On("messages", MsgInv)

LEMMA SetsInit == Init => SetsInv
<1> SUFFICES ASSUME Init PROVE SetsInv
  OBVIOUS
<1>1. ItemsInv
  BY ItemsInit
<1>2. ASSUME view = "subscriber" PROVE RowsInv
  BY <1>2, RowsInit DEF Init
<1>3. ASSUME view = "setup" PROVE SetupInv
  BY <1>3, SetupInit DEF Init
<1>4. ASSUME view = "checks" PROVE HostInv
  BY <1>4, ChecksInit DEF Init
<1>5. ASSUME view = "cpus" PROVE CpusInv
  BY <1>5, CpusInit DEF Init
<1>6. ASSUME view = "logs" PROVE L!LogsTypeOK
  BY <1>6, LogsInit DEF Init
<1>7. ASSUME view = "messages" PROVE MsgInv
  BY <1>7, MsgInit DEF Init
<1> QED  BY <1>1, <1>2, <1>3, <1>4, <1>5, <1>6, <1>7 DEF SetsInv, On

LEMMA SetupStay == SetupInv /\ UNCHANGED vars => SetupInv'
<1> SUFFICES ASSUME SetupInv, UNCHANGED vars PROVE SetupInv'
  OBVIOUS
<1>1. UNCHANGED <<s1, s2, s3, s4, s5, s6, s7, s8, s9, s10, s11, s12, s13, s14, s15>>
  BY DEF vars
<1>2. S!SetupTypeOK'
  BY <1>1 DEF SetupInv, S!SetupTypeOK
<1>3. S!ValidationIsOfForm' /\ S!OpenIsListed'
  BY <1>1 DEF SetupInv, S!ValidationIsOfForm, S!OpenIsListed, S!Loading
<1> QED  BY <1>1, <1>2, <1>3 DEF SetupInv

LEMMA HostStay == HostInv /\ UNCHANGED vars => HostInv'
<1> SUFFICES ASSUME HostInv, UNCHANGED vars PROVE HostInv'
  OBVIOUS
<1>1. UNCHANGED <<s1, s2, s3, s4, s5, s6, s7, s8>>
  BY DEF vars
<1>2. H!HostTypeOK'
  BY <1>1 DEF HostInv, H!HostTypeOK
<1>3. H!MenuComes'
  BY <1>1 DEF HostInv, H!MenuComes
<1> QED  BY <1>2, <1>3 DEF HostInv

LEMMA CpusStay == CpusInv /\ UNCHANGED vars => CpusInv'
<1> SUFFICES ASSUME CpusInv, UNCHANGED vars PROVE CpusInv'
  OBVIOUS
<1>1. UNCHANGED <<s1, s2, s3>>
  BY DEF vars
<1>2. C!CpusTypeOK'
  BY <1>1 DEF CpusInv, C!CpusTypeOK
<1> QED  BY <1>1, <1>2 DEF CpusInv

LEMMA LogsStay == L!LogsTypeOK /\ UNCHANGED vars => L!LogsTypeOK'
<1> SUFFICES ASSUME L!LogsTypeOK, UNCHANGED vars PROVE L!LogsTypeOK'
  OBVIOUS
<1>1. UNCHANGED <<s1, s2, s3, s4, s5, s6, s7, s8, s9, s10, s11, s12, s13>>
  BY DEF vars
<1> QED  BY <1>1 DEF L!LogsTypeOK

LEMMA MsgStay == MsgInv /\ UNCHANGED vars => MsgInv'
  BY DEF MsgInv, vars

LEMMA SetsStay == SetsInv /\ UNCHANGED vars => SetsInv'
<1> SUFFICES ASSUME SetsInv, UNCHANGED vars PROVE SetsInv'
  OBVIOUS
<1>1. view' = view
  BY DEF vars
<1>2. ItemsInv'
  BY ItemsStay DEF SetsInv
<1>3. (RowsInv => RowsInv') /\ (SetupInv => SetupInv') /\ (HostInv => HostInv')
  BY RowsStay, SetupStay, HostStay
<1>4. (CpusInv => CpusInv') /\ (L!LogsTypeOK => L!LogsTypeOK') /\ (MsgInv => MsgInv')
  BY CpusStay, LogsStay, MsgStay
<1> QED  BY <1>1, <1>2, <1>3, <1>4 DEF SetsInv, On

\* One step of the open page.
Undoes ==
    /\ On("cpus", C!ClickMovesOne)
    /\ On("logs", L!UeLinkKept)
    /\ On("messages", M!ErrorsStay)

LEMMA SetsStep == SetsInv /\ Next => SetsInv' /\ Undoes
<1> SUFFICES ASSUME SetsInv, Next PROVE SetsInv' /\ Undoes
  OBVIOUS
<1>1. view' = view
  BY DEF Next
<1>2. ItemsInv'
  BY ItemsStep DEF SetsInv
<1>3. ASSUME view = "subscriber" PROVE RowsInv'
  BY <1>3, RowsStep DEF Next, SetsInv, ItemsInv, On
<1>4. ASSUME view = "setup" PROVE SetupInv'
  BY <1>4, SetupStep DEF Next, SetsInv, On
<1>5. ASSUME view = "checks" PROVE HostInv'
  BY <1>5, HostStep DEF Next, SetsInv, On
<1>6. ASSUME view = "cpus" PROVE CpusInv' /\ C!ClickMovesOne
  BY <1>6, CpusStep, CpusMove DEF Next, SetsInv, On
<1>7. ASSUME view = "logs" PROVE L!LogsTypeOK' /\ L!UeLinkKept
  BY <1>7, LogsStep, LogsKeep DEF Next, SetsInv, On
<1>8. ASSUME view = "messages" PROVE MsgInv' /\ M!ErrorsStay
  BY <1>8, MsgStep, MsgsStay DEF Next, SetsInv, On
<1> QED  BY <1>1, <1>2, <1>3, <1>4, <1>5, <1>6, <1>7, <1>8 DEF SetsInv, Undoes, On

LEMMA SetsShow == SetsInv => FormsHold
<1> SUFFICES ASSUME SetsInv PROVE FormsHold
  OBVIOUS
<1>1. ASSUME view = "setup" PROVE S!SetupTypeOK /\ S!ValidationIsOfForm /\ S!OpenIsListed
  BY <1>1 DEF SetsInv, SetupInv, On
<1>2. ASSUME view = "checks" PROVE H!HostTypeOK /\ H!MenuComes
  BY <1>2 DEF SetsInv, HostInv, On
<1>3. ASSUME view = "subscriber" PROVE F!FormTypeOK /\ F!ReopensAsSaved
  BY <1>3, RowsShow DEF SetsInv, ItemsInv, On
<1>4. ASSUME view = "cpus" PROVE C!CpusTypeOK /\ C!SavedIsUsable
  BY <1>4, CpusUsable DEF SetsInv, CpusInv, On
<1> QED  BY <1>1, <1>2, <1>3, <1>4 DEF FormsHold, On

LEMMA SetsAlways == Spec => []SetsInv
<1>1. Init => SetsInv
  BY SetsInit
<1>2. SetsInv /\ [Next]_vars => SetsInv'
  BY SetsStay, SetsStep
<1> QED  BY <1>1, <1>2, PTL DEF Spec

\* Whatever is edited, checked, saved and answered in whatever order: the verdict beside the
\* form is of the form as it stands, the profile said to be open is listed, the menu is of
\* the chosen tester's interfaces, a subscription comes back from the UDR as the rows it was
\* saved from, and no CPU is on both sides of what is saved (TesterSetupPage.tsx,
\* subscriberForm.ts, cpus.ts).
THEOREM FormsAlwaysHold == Spec => []FormsHold
  BY SetsAlways, SetsShow, PTL

\* A click on a CPU moves that one alone, a link to a UE's messages keeps naming it unless a
\* list fails, and an error stays until it is dismissed or its time is over (cpus.ts,
\* LogsPage.tsx, useNotifications.ts).
THEOREM NothingEverUndone == Spec => NothingUndone
<1>1. SetsInv /\ [Next]_vars => [Undoes]_vars
  BY SetsStep
<1> QED  BY <1>1, SetsAlways, PTL DEF Spec, NothingUndone, Undoes

=============================================================================
