---------------------------- MODULE RRQueueProofs ----------------------------
(***************************************************************************)
(* rrQueue hands UEs out in turns of the gNBs, for any number of gNBs, UEs *)
(* and pushers and at every limit of the ring's reclaimed front.           *)
(***************************************************************************)
EXTENDS RRQueue, SequenceTheorems, FiniteSetTheorems, TLAPS

\* A push appends behind the live part of the ring.
LEMMA LiveAppend ==
    ASSUME NEW S, NEW r \in Seq(S), NEW e \in S, NEW h \in 0 .. Len(r)
    PROVE  SubSeq(Append(r, e), h + 1, Len(Append(r, e))) = Append(SubSeq(r, h + 1, Len(r)), e)
<1>1. /\ Append(r, e) \in Seq(S) /\ Len(Append(r, e)) = Len(r) + 1
      /\ \A i \in 1 .. Len(r) : Append(r, e)[i] = r[i]
      /\ Append(r, e)[Len(r) + 1] = e
  BY AppendProperties
<1> DEFINE a == SubSeq(Append(r, e), h + 1, Len(Append(r, e)))
           w == SubSeq(r, h + 1, Len(r))
<1>2. /\ a \in Seq(S) /\ Len(a) = Len(r) + 1 - h
      /\ \A i \in 1 .. Len(r) + 1 - h : a[i] = Append(r, e)[h + i]
  <2>1. \A i \in h + 1 .. Len(Append(r, e)) : Append(r, e)[i] \in S
    BY <1>1, ElementOfSeq
  <2>2. h + 1 \in Int /\ Len(Append(r, e)) \in Int
    BY <1>1
  <2>3. /\ a \in Seq(S)
        /\ Len(a) = IF h + 1 <= Len(Append(r, e)) THEN Len(Append(r, e)) - (h + 1) + 1 ELSE 0
        /\ \A i \in 1 .. Len(Append(r, e)) - (h + 1) + 1 : a[i] = Append(r, e)[h + 1 + i - 1]
    BY <2>1, <2>2, SubSeqProperties
  <2> HIDE DEF a
  <2> QED
    BY <1>1, <2>3
<1>3. /\ w \in Seq(S) /\ Len(w) = Len(r) - h
      /\ \A i \in 1 .. Len(r) - h : w[i] = r[h + i]
  <2>1. \A i \in h + 1 .. Len(r) : r[i] \in S
    BY ElementOfSeq
  <2>2. /\ w \in Seq(S)
        /\ Len(w) = IF h + 1 <= Len(r) THEN Len(r) - (h + 1) + 1 ELSE 0
        /\ \A i \in 1 .. Len(r) - (h + 1) + 1 : w[i] = r[h + 1 + i - 1]
    BY <2>1, SubSeqProperties
  <2> HIDE DEF w
  <2> QED
    BY <2>2
<1> HIDE DEF a, w
<1>4. /\ Append(w, e) \in Seq(S) /\ Len(Append(w, e)) = Len(w) + 1
      /\ \A i \in 1 .. Len(w) : Append(w, e)[i] = w[i]
      /\ Append(w, e)[Len(w) + 1] = e
  BY <1>3, AppendProperties
<1>5. \A i \in 1 .. Len(a) : a[i] = Append(w, e)[i]
  <2> TAKE i \in 1 .. Len(a)
  <2>1. CASE i <= Len(r) - h
    <3>1. i \in 1 .. Len(r) - h /\ h + i \in 1 .. Len(r) /\ i \in 1 .. Len(r) + 1 - h /\ i \in 1 .. Len(w)
      BY <2>1, <1>2, <1>3
    <3> QED
      BY <3>1, <1>1, <1>2, <1>3, <1>4
  <2>2. CASE i = Len(r) + 1 - h
    <3>1. i = Len(w) + 1 /\ h + i = Len(r) + 1 /\ i \in 1 .. Len(r) + 1 - h
      BY <2>2, <1>3
    <3> QED
      BY <3>1, <1>1, <1>2, <1>4
  <2>3. i \in Nat /\ i <= Len(r) + 1 - h /\ Len(r) \in Nat /\ h \in Nat
    BY <1>2
  <2>4. i <= Len(r) - h \/ i = Len(r) + 1 - h
    BY <2>3
  <2> QED
    BY <2>1, <2>2, <2>4
<1>6. a = Append(w, e)
  <2>1. Len(a) = Len(Append(w, e))
    BY <1>2, <1>3, <1>4
  <2> QED
    BY <2>1, <1>2, <1>4, <1>5, SeqEqual
<1> QED
  BY <1>6 DEF a, w

\* The live part's own values.
LEMMA LiveSeq ==
    ASSUME NEW S, NEW r \in Seq(S), NEW h \in 0 .. Len(r)
    PROVE  /\ SubSeq(r, h + 1, Len(r)) \in Seq(S)
           /\ Len(SubSeq(r, h + 1, Len(r))) = Len(r) - h
<1>1. \A i \in h + 1 .. Len(r) : r[i] \in S
  BY ElementOfSeq
<1>2. /\ SubSeq(r, h + 1, Len(r)) \in Seq(S)
      /\ Len(SubSeq(r, h + 1, Len(r))) = IF h + 1 <= Len(r) THEN Len(r) - (h + 1) + 1 ELSE 0
  BY <1>1, SubSeqProperties
<1> QED
  BY <1>2

\* A turn takes the head of the live part and leaves its tail.
LEMMA LiveTail ==
    ASSUME NEW S, NEW r \in Seq(S), NEW h \in 0 .. Len(r), h < Len(r)
    PROVE  /\ Head(SubSeq(r, h + 1, Len(r))) = r[h + 1]
           /\ Tail(SubSeq(r, h + 1, Len(r))) = SubSeq(r, h + 2, Len(r))
<1>1. h + 1 \in 1 .. Len(r) /\ Len(r) \in h + 1 .. Len(r)
  OBVIOUS
<1>2. h + 1 + 1 = h + 2
  OBVIOUS
<1> QED
  BY <1>1, <1>2, HeadTailOfSubSeq

\* Reclaiming the ring's front keeps its live part.
LEMMA LiveCut ==
    ASSUME NEW S, NEW r \in Seq(S), NEW h \in 0 .. Len(r)
    PROVE  LET c == SubSeq(r, h + 1, Len(r)) IN SubSeq(c, 0 + 1, Len(c)) = c
<1>1. SubSeq(r, h + 1, Len(r)) \in Seq(S)
  BY LiveSeq
<1> QED
  BY <1>1, SubSeqFull

-----------------------------------------------------------------------------
\* A sequence without repetitions.
Distinct(s) == \A i, j \in 1 .. Len(s) : s[i] = s[j] => i = j

\* Appending a new element keeps a sequence free of repetitions.
LEMMA AppendDistinct ==
    ASSUME NEW S, NEW s \in Seq(S), NEW e \in S
    PROVE  /\ ToSet(Append(s, e)) = ToSet(s) \cup {e}
           /\ Distinct(s) /\ e \notin ToSet(s) => Distinct(Append(s, e))
<1> DEFINE a == Append(s, e)
<1>1. /\ a \in Seq(S) /\ Len(a) = Len(s) + 1
      /\ \A i \in 1 .. Len(s) : a[i] = s[i]
      /\ a[Len(s) + 1] = e
  BY AppendProperties
<1>2. /\ DOMAIN a = 1 .. Len(s) + 1 /\ DOMAIN s = 1 .. Len(s) /\ Len(s) \in Nat
  BY <1>1, LenProperties
<1> HIDE DEF a
<1>3. 1 .. Len(s) + 1 = (1 .. Len(s)) \cup {Len(s) + 1}
  BY <1>2
<1>4. ToSet(a) = ToSet(s) \cup {e}
  BY <1>1, <1>2, <1>3 DEF ToSet
<1>5. ASSUME Distinct(s), e \notin ToSet(s) PROVE Distinct(a)
  <2>1. \A i \in 1 .. Len(s) : a[i] # e
    BY <1>1, <1>2, <1>5 DEF ToSet
  <2> QED
    BY <2>1, <1>1, <1>2, <1>3, <1>5 DEF Distinct
<1> QED
  BY <1>4, <1>5 DEF a

\* Taking the head of a sequence without repetitions takes it out of its set.
LEMMA TailDistinct ==
    ASSUME NEW S, NEW s \in Seq(S), s # <<>>, Distinct(s)
    PROVE  /\ Head(s) \in ToSet(s)
           /\ ToSet(Tail(s)) = ToSet(s) \ {Head(s)}
           /\ Distinct(Tail(s))
<1>1. /\ Tail(s) \in Seq(S) /\ Len(Tail(s)) = Len(s) - 1
      /\ \A i \in 1 .. Len(Tail(s)) : Tail(s)[i] = s[i + 1]
  BY HeadTailProperties
<1>2. Len(s) \in Nat \ {0} /\ Head(s) = s[1]
  BY EmptySeq
<1>3. DOMAIN s = 1 .. Len(s) /\ DOMAIN Tail(s) = 1 .. Len(s) - 1
  BY <1>1, LenProperties
<1> DEFINE t == Tail(s)
<1>4. /\ \A i \in 1 .. Len(s) - 1 : t[i] = s[i + 1] /\ i + 1 \in 1 .. Len(s)
      /\ \A i \in 2 .. Len(s) : s[i] = t[i - 1] /\ i - 1 \in 1 .. Len(s) - 1
      /\ \A i \in 1 .. Len(s) : i = 1 \/ i \in 2 .. Len(s)
  BY <1>1, <1>2
<1>5. Head(s) \in ToSet(s)
  BY <1>2, <1>3 DEF ToSet
<1>6. Distinct(t)
  <2>1. Len(t) = Len(s) - 1
    BY <1>1
  <2> HIDE DEF t
  <2> QED
    BY <2>1, <1>2, <1>4 DEF Distinct
<1>7. ToSet(t) = ToSet(s) \ {Head(s)}
  <2>1. DOMAIN t = 1 .. Len(s) - 1
    BY <1>3
  <2> HIDE DEF t
  <2>2. \A i \in 1 .. Len(s) - 1 : t[i] \in ToSet(s) /\ t[i] # s[1]
    <3> TAKE i \in 1 .. Len(s) - 1
    <3>1. t[i] = s[i + 1] /\ i + 1 \in 1 .. Len(s) /\ 1 \in 1 .. Len(s) /\ i + 1 # 1
      BY <1>2, <1>4
    <3>2. s[i + 1] \in ToSet(s)
      BY <3>1, <1>3 DEF ToSet
    <3>3. s[i + 1] # s[1]
      BY <3>1 DEF Distinct
    <3> QED
      BY <3>1, <3>2, <3>3
  <2>3. \A i \in 1 .. Len(s) : s[i] # s[1] => s[i] \in ToSet(t)
    <3> TAKE i \in 1 .. Len(s)
    <3> HAVE s[i] # s[1]
    <3>1. i \in 2 .. Len(s)
      BY <1>4
    <3>2. s[i] = t[i - 1] /\ i - 1 \in 1 .. Len(s) - 1
      BY <3>1, <1>4
    <3> QED
      BY <3>2, <2>1 DEF ToSet
  <2> QED
    BY <2>1, <2>2, <2>3, <1>2, <1>3 DEF ToSet
<1> QED
  BY <1>5, <1>6, <1>7

\* A sequence without repetitions is as long as its set is large.
LEMMA DistinctCount ==
    ASSUME NEW S, NEW s \in Seq(S), Distinct(s)
    PROVE  Len(s) = Cardinality(ToSet(s))
<1>1. s \in [1 .. Len(s) -> S] /\ DOMAIN s = 1 .. Len(s) /\ Len(s) \in Nat
  BY LenProperties
<1>2. s \in [1 .. Len(s) -> ToSet(s)]
  BY <1>1 DEF ToSet
<1> DEFINE T == ToSet(s)
<1>3. /\ \A i, j \in 1 .. Len(s) : s[i] = s[j] => i = j
      /\ \A t \in T : \E i \in 1 .. Len(s) : s[i] = t
  BY <1>1 DEF Distinct, ToSet
<1>4. s \in Bijection(1 .. Len(s), T)
  <2>1. s \in [1 .. Len(s) -> T]
    BY <1>2
  <2> HIDE DEF T
  <2>2. s \in Injection(1 .. Len(s), T)
    BY <2>1, <1>3 DEF Injection, IsInjective
  <2>3. s \in Surjection(1 .. Len(s), T)
    BY <2>1, <1>3 DEF Surjection
  <2> QED
    BY <2>2, <2>3 DEF Bijection
<1>5. ExistsBijection(1 .. Len(s), T)
  BY <1>4 DEF ExistsBijection
<1> HIDE DEF T
<1>6. Cardinality(T) = Len(s)
  BY <1>1, <1>5, FS_CountingElements
<1> QED
  BY <1>6 DEF T

\* A sequence is empty when its set is.
LEMMA EmptyToSet ==
    ASSUME NEW S, NEW s \in Seq(S)
    PROVE  s = <<>> <=> ToSet(s) = {}
<1>1. DOMAIN s = 1 .. Len(s) /\ Len(s) \in Nat
  BY LenProperties
<1>2. s = <<>> <=> Len(s) = 0
  BY EmptySeq
<1>3. ASSUME Len(s) = 0 PROVE ToSet(s) = {}
  BY <1>1, <1>3 DEF ToSet
<1>4. ASSUME Len(s) # 0 PROVE ToSet(s) # {}
  <2>1. 1 \in DOMAIN s
    BY <1>1, <1>4
  <2> QED
    BY <2>1 DEF ToSet
<1> QED
  BY <1>2, <1>3, <1>4

-----------------------------------------------------------------------------
\* The ring's live part names the gNBs with queued UEs, each once.
TurnsInv ==
    /\ head <= Len(ring)
    /\ Distinct(Waiting)
    /\ ToSet(Waiting) = { g \in Gnbs : fifos[g] # <<>> }

\* A gNB's FIFO holds UEs of its own, each once.
FifosInv ==
    \A g \in Gnbs : Distinct(fifos[g]) /\ \A u \in ToSet(fifos[g]) : GnbOf[u] = g

\* n counts the queued UEs.
CountInv == IsFiniteSet(Queued) /\ n = Cardinality(Queued)

\* A waiting gNB has seen one turn at most of each other gNB, and none of one before it.
RoundInv ==
    \A g, h \in Gnbs : g # h =>
        /\ turns[g][h] <= 1
        /\ fifos[g] = <<>> => turns[g][h] = 0
        /\ \A i, j \in 1 .. Len(Waiting) :
               j < i /\ Waiting[i] = g /\ Waiting[j] = h => turns[g][h] = 0

QueueInv == TypeOK /\ TurnsInv /\ FifosInv /\ CountInv /\ RoundInv

\* The ring's live part is a sequence of gNBs.
LEMMA WaitingSeq ==
    ASSUME TypeOK, head <= Len(ring)
    PROVE  Waiting \in Seq(Gnbs) /\ Len(Waiting) = Len(ring) - head
<1>1. ring \in Seq(Gnbs) /\ head \in 0 .. Len(ring)
  BY LenProperties DEF TypeOK
<1> QED
  BY <1>1, LiveSeq DEF Waiting

\* What a push does to the live part and the FIFOs.
LEMMA PushEffect ==
    ASSUME TypeOK, head <= Len(ring), NEW p \in Pushers, NEW u \in Ues, Push(p, u)
    PROVE  /\ GnbOf[u] \in Gnbs
           /\ fifos' = [fifos EXCEPT ![GnbOf[u]] = Append(@, u)]
           /\ Waiting' = IF fifos[GnbOf[u]] = <<>> THEN Append(Waiting, GnbOf[u]) ELSE Waiting
           /\ head' <= Len(ring')
           /\ TypeOK'
<1> DEFINE g == GnbOf[u]
<1>1. /\ g \in Gnbs /\ ring \in Seq(Gnbs) /\ head \in 0 .. Len(ring) /\ Len(ring) \in Nat
  BY RRQueueOK, LenProperties DEF TypeOK
<1>2. /\ head' = head
      /\ ring' = IF fifos[g] = <<>> THEN Append(ring, g) ELSE ring
      /\ fifos' = [fifos EXCEPT ![g] = Append(@, u)]
  BY DEF Push, Joined
<1>3. Append(ring, g) \in Seq(Gnbs) /\ Len(Append(ring, g)) = Len(ring) + 1
  BY <1>1, AppendProperties
<1>4. Waiting' = IF fifos[g] = <<>> THEN Append(Waiting, g) ELSE Waiting
  <2>1. CASE fifos[g] = <<>>
    BY <2>1, <1>1, <1>2, LiveAppend DEF Waiting
  <2>2. CASE fifos[g] # <<>>
    BY <2>2, <1>2 DEF Waiting
  <2> QED
    BY <2>1, <2>2
<1>5. head' <= Len(ring')
  BY <1>1, <1>2, <1>3
<1>6. TypeOK'
  <2>1. fifos[g] \in Seq(Ues)
    BY <1>1 DEF TypeOK
  <2>2. Append(fifos[g], u) \in Seq(Ues)
    BY <2>1, AppendProperties
  <2>3. fifos' \in [Gnbs -> Seq(Ues)]
    BY <1>1, <1>2, <2>2 DEF TypeOK
  <2>4. ring' \in Seq(Gnbs) /\ head' \in Nat
    BY <1>1, <1>2, <1>3
  <2>5. n' \in Nat /\ push' \in [Pushers -> {"idle", "signal"}]
    BY DEF Push, TypeOK
  <2> QED
    BY <2>3, <2>4, <2>5 DEF Push, TypeOK
<1> QED
  BY <1>1, <1>2, <1>4, <1>5, <1>6

\* While something is queued some gNB waits.
LEMMA WorkWaits ==
    ASSUME TypeOK, TurnsInv, CountInv, n > 0
    PROVE  Waiting # <<>>
<1>1. Queued # {}
  BY FS_EmptySet DEF CountInv
<1>2. PICK g \in Gnbs : ToSet(fifos[g]) # {}
  BY <1>1 DEF Queued
<1>3. fifos[g] # <<>>
  BY <1>2, EmptyToSet DEF TypeOK
<1>4. ToSet(Waiting) # {}
  BY <1>3 DEF TurnsInv
<1>5. Waiting \in Seq(Gnbs)
  BY WaitingSeq DEF TurnsInv
<1> QED
  BY <1>4, <1>5, EmptyToSet

\* What a turn does to the live part and the FIFOs.
LEMMA TakeEffect ==
    ASSUME TypeOK, TurnsInv, CountInv, Take,
           NEW g, g = Head(Waiting)
    PROVE  /\ Waiting # <<>> /\ g \in Gnbs /\ fifos[g] # <<>>
           /\ fifos' = [fifos EXCEPT ![g] = Tail(@)]
           /\ Waiting' = IF Len(fifos[g]) = 1 THEN Tail(Waiting) ELSE Append(Tail(Waiting), g)
           /\ head' <= Len(ring')
           /\ n' = n - 1 /\ n > 0
           /\ turns' = [x \in Gnbs |-> IF x = g \/ fifos[x] = <<>> THEN [h \in Gnbs |-> 0]
                                       ELSE [turns[x] EXCEPT ![g] = @ + 1]]
           /\ fifos' \in [Gnbs -> Seq(Ues)]
           /\ ring' \in Seq(Gnbs) /\ head' \in Nat /\ n' \in Nat
           /\ turns' \in [Gnbs -> [Gnbs -> Nat]]
<1> DEFINE w     == Waiting
           ring2 == Rejoined(g)
           taken == head + 1
<1>1. n > 0 /\ w # <<>> /\ w \in Seq(Gnbs) /\ Len(w) = Len(ring) - head
  BY WorkWaits, WaitingSeq DEF Take, TurnsInv
<1>2. /\ ring \in Seq(Gnbs) /\ Len(ring) \in Nat /\ head \in 0 .. Len(ring) /\ head < Len(ring)
  <2>1. ring \in Seq(Gnbs) /\ head \in Nat /\ Len(ring) \in Nat
    BY LenProperties DEF TypeOK
  <2>2. Len(w) # 0
    BY <1>1, EmptySeq
  <2> QED
    BY <2>1, <2>2, <1>1 DEF TurnsInv
<1>3. g = ring[head + 1] /\ Tail(w) = SubSeq(ring, taken + 1, Len(ring))
  <2>1. head + 2 = taken + 1
    BY <1>2
  <2> QED
    BY <2>1, <1>2, LiveTail DEF Waiting
<1>4. g \in Gnbs /\ fifos[g] # <<>>
  <2>1. Distinct(w) /\ ToSet(w) = { x \in Gnbs : fifos[x] # <<>> }
    BY DEF TurnsInv
  <2> QED
    BY <2>1, <1>1, TailDistinct
<1>5. /\ fifos' = [fifos EXCEPT ![g] = Tail(@)]
      /\ n' = n - 1
      /\ turns' = [x \in Gnbs |-> IF x = g \/ fifos[x] = <<>> THEN [h \in Gnbs |-> 0]
                                  ELSE [turns[x] EXCEPT ![g] = @ + 1]]
      /\ \/ ring' = ring2 /\ head' = taken
         \/ ring' = SubSeq(ring2, taken + 1, Len(ring2)) /\ head' = 0
  BY <1>3 DEF Take
<1>6. /\ ring2 \in Seq(Gnbs) /\ taken \in 0 .. Len(ring2) /\ Len(ring2) \in Nat
      /\ SubSeq(ring2, taken + 1, Len(ring2))
           = IF Len(fifos[g]) = 1 THEN Tail(w) ELSE Append(Tail(w), g)
  <2>1. taken \in 0 .. Len(ring)
    BY <1>2
  <2>2. CASE Len(fifos[g]) = 1
    BY <2>1, <2>2, <1>2, <1>3 DEF Rejoined
  <2>3. CASE Len(fifos[g]) # 1
    <3>1. ring2 = Append(ring, g)
      BY <2>3 DEF Rejoined
    <3>2. ring2 \in Seq(Gnbs) /\ Len(ring2) = Len(ring) + 1
      BY <3>1, <1>2, <1>4, AppendProperties
    <3>3. SubSeq(ring2, taken + 1, Len(ring2)) = Append(SubSeq(ring, taken + 1, Len(ring)), g)
      BY <3>1, <2>1, <1>2, <1>4, LiveAppend
    <3>4. taken \in 0 .. Len(ring2) /\ Len(ring2) \in Nat
      BY <3>2, <2>1, <1>2
    <3> HIDE DEF ring2, taken, w
    <3> QED
      BY <3>2, <3>3, <3>4, <2>3, <1>3
  <2> QED
    BY <2>2, <2>3
<1>7. SubSeq(ring2, taken + 1, Len(ring2)) \in Seq(Gnbs)
  BY <1>6, LiveSeq
<1> HIDE DEF ring2, taken
<1>8. /\ Waiting' = SubSeq(ring2, taken + 1, Len(ring2))
      /\ head' <= Len(ring') /\ ring' \in Seq(Gnbs) /\ head' \in Nat
  <2>1. Waiting' = SubSeq(ring', head' + 1, Len(ring'))
    BY DEF Waiting
  <2>2. CASE ring' = ring2 /\ head' = taken
    BY <2>1, <2>2, <1>6
  <2>3. CASE ring' = SubSeq(ring2, taken + 1, Len(ring2)) /\ head' = 0
    <3>1. SubSeq(ring', head' + 1, Len(ring')) = ring'
      BY <2>3, <1>7, SubSeqFull
    <3>2. Len(ring') \in Nat
      BY <2>3, <1>7, LenProperties
    <3> QED
      BY <2>1, <2>3, <3>1, <3>2, <1>7
  <2> QED
    BY <2>2, <2>3, <1>5
<1>9. fifos' \in [Gnbs -> Seq(Ues)]
  <2>1. fifos[g] \in Seq(Ues)
    BY <1>4 DEF TypeOK
  <2>2. Tail(fifos[g]) \in Seq(Ues)
    BY <2>1, <1>4, HeadTailProperties
  <2> QED
    BY <2>2, <1>4, <1>5 DEF TypeOK
<1>10. n' \in Nat
  BY <1>1, <1>5 DEF TypeOK
<1>11. turns' \in [Gnbs -> [Gnbs -> Nat]]
  <2>1. \A x \in Gnbs : [turns[x] EXCEPT ![g] = @ + 1] \in [Gnbs -> Nat]
    BY <1>4 DEF TypeOK
  <2>2. [h \in Gnbs |-> 0] \in [Gnbs -> Nat]
    OBVIOUS
  <2> QED
    BY <2>1, <2>2, <1>5
<1> QED
  BY <1>1, <1>4, <1>5, <1>6, <1>8, <1>9, <1>10, <1>11

-----------------------------------------------------------------------------
\* A push keeps the invariant.
LEMMA PushInv ==
    ASSUME QueueInv, NEW p \in Pushers, NEW u \in Ues, Push(p, u)
    PROVE  QueueInv'
<1> DEFINE g == GnbOf[u]
           w == Waiting
<1> USE DEF QueueInv
<1>1. /\ g \in Gnbs /\ fifos' = [fifos EXCEPT ![g] = Append(@, u)]
      /\ Waiting' = IF fifos[g] = <<>> THEN Append(w, g) ELSE w
      /\ head' <= Len(ring') /\ TypeOK'
  BY PushEffect DEF TurnsInv
<1>2. u \notin Queued /\ n' = n + 1 /\ turns' = turns
  BY DEF Push
<1>3. w \in Seq(Gnbs) /\ fifos \in [Gnbs -> Seq(Ues)] /\ fifos[g] \in Seq(Ues)
  BY <1>1, WaitingSeq DEF TurnsInv, TypeOK
<1>4. /\ ToSet(fifos'[g]) = ToSet(fifos[g]) \cup {u}
      /\ Distinct(fifos'[g])
      /\ fifos'[g] # <<>>
      /\ \A x \in Gnbs \ {g} : fifos'[x] = fifos[x]
  <2>1. fifos'[g] = Append(fifos[g], u)
    BY <1>1, <1>3
  <2>2. u \notin ToSet(fifos[g])
    BY <1>1, <1>2 DEF Queued
  <2>3. Distinct(fifos[g])
    BY <1>1 DEF FifosInv
  <2>4. /\ ToSet(fifos'[g]) = ToSet(fifos[g]) \cup {u}
        /\ Distinct(fifos'[g])
    BY <2>1, <2>2, <2>3, <1>3, AppendDistinct
  <2>5. fifos'[g] # <<>>
    BY <2>1, <1>3, AppendProperties
  <2>6. \A x \in Gnbs \ {g} : fifos'[x] = fifos[x]
    BY <1>1, <1>3
  <2> QED
    BY <2>4, <2>5, <2>6
<1>5. FifosInv'
  <2>1. \A x \in Gnbs : Distinct(fifos'[x]) /\ \A v \in ToSet(fifos'[x]) : GnbOf[v] = x
    <3> TAKE x \in Gnbs
    <3>1. CASE x = g
      BY <3>1, <1>4 DEF FifosInv
    <3>2. CASE x # g
      BY <3>2, <1>4 DEF FifosInv
    <3> QED
      BY <3>1, <3>2
  <2> QED
    BY <2>1 DEF FifosInv, Distinct, ToSet
<1>6. CountInv'
  <2>1. Queued' = UNION { ToSet(fifos'[x]) : x \in Gnbs }
    BY DEF Queued, ToSet
  <2>2. \A x \in Gnbs : ToSet(fifos'[x]) = IF x = g THEN ToSet(fifos[x]) \cup {u} ELSE ToSet(fifos[x])
    BY <1>4
  <2>3. Queued' = Queued \cup {u}
    <3>1. ASSUME NEW v PROVE v \in Queued' <=> v \in Queued \cup {u}
      <4>1. v \in Queued' <=> \E x \in Gnbs : v \in ToSet(fifos'[x])
        BY <2>1
      <4>2. v \in Queued <=> \E x \in Gnbs : v \in ToSet(fifos[x])
        BY DEF Queued
      <4>3. \A x \in Gnbs : v \in ToSet(fifos'[x]) <=> v \in ToSet(fifos[x]) \/ (x = g /\ v = u)
        BY <2>2
      <4> QED
        BY <4>1, <4>2, <4>3, <1>1
    <3> QED
      BY <3>1
  <2>4. IsFiniteSet(Queued \cup {u}) /\ Cardinality(Queued \cup {u}) = Cardinality(Queued) + 1
    BY <1>2, FS_AddElement DEF CountInv
  <2> QED
    BY <2>3, <2>4, <1>2 DEF CountInv
<1>7. TurnsInv' /\ RoundInv'
  <2>1. CASE fifos[g] = <<>>
    <3>1. Waiting' = Append(w, g) /\ g \notin ToSet(w)
      BY <2>1, <1>1 DEF TurnsInv
    <3>2. ToSet(Append(w, g)) = ToSet(w) \cup {g} /\ Distinct(Append(w, g))
      BY <3>1, <1>1, <1>3, AppendDistinct DEF TurnsInv
    <3>3. ToSet(Append(w, g)) = { x \in Gnbs : fifos'[x] # <<>> }
      BY <3>2, <1>1, <1>4 DEF TurnsInv
    <3>4. TurnsInv'
      BY <3>1, <3>2, <3>3, <1>1 DEF TurnsInv, ToSet, Distinct
    <3>5. /\ Len(Append(w, g)) = Len(w) + 1 /\ Len(w) \in Nat
          /\ \A i \in 1 .. Len(w) : Append(w, g)[i] = w[i]
          /\ Append(w, g)[Len(w) + 1] = g
      BY <1>1, <1>3, AppendProperties, LenProperties
    <3>6. ASSUME NEW x \in Gnbs, NEW h \in Gnbs, x # h
          PROVE  /\ turns[x][h] <= 1
                 /\ fifos'[x] = <<>> => turns[x][h] = 0
                 /\ \A i, j \in 1 .. Len(Append(w, g)) :
                        j < i /\ Append(w, g)[i] = x /\ Append(w, g)[j] = h => turns[x][h] = 0
      <4>1. turns[x][h] <= 1 /\ (fifos[x] = <<>> => turns[x][h] = 0)
        BY <3>6 DEF RoundInv
      <4>2. fifos'[x] = <<>> => turns[x][h] = 0
        BY <4>1, <1>4
      <4>3. ASSUME NEW i \in 1 .. Len(Append(w, g)), NEW j \in 1 .. Len(Append(w, g)), j < i,
                   Append(w, g)[i] = x, Append(w, g)[j] = h
            PROVE  turns[x][h] = 0
        <5>1. j \in 1 .. Len(w) /\ (i \in 1 .. Len(w) \/ i = Len(w) + 1)
          BY <4>3, <3>5
        <5>2. CASE i = Len(w) + 1
          BY <5>2, <4>1, <4>3, <3>5, <2>1
        <5>3. CASE i \in 1 .. Len(w)
          <6>1. w[i] = x /\ w[j] = h
            BY <5>1, <5>3, <4>3, <3>5
          <6> QED
            BY <6>1, <5>1, <5>3, <4>3, <3>6 DEF RoundInv
        <5> QED
          BY <5>1, <5>2, <5>3
      <4> QED
        BY <4>1, <4>2, <4>3
    <3>7. RoundInv'
      BY <3>1, <3>6, <1>2 DEF RoundInv
    <3> QED
      BY <3>4, <3>7
  <2>2. CASE fifos[g] # <<>>
    <3>1. Waiting' = Waiting
      BY <2>2, <1>1
    <3>2. \A x \in Gnbs : fifos'[x] = <<>> <=> fifos[x] = <<>>
      BY <2>2, <1>4
    <3>3. TurnsInv'
      <4>1. { x \in Gnbs : fifos'[x] # <<>> } = { x \in Gnbs : fifos[x] # <<>> }
        BY <3>2
      <4> QED
        BY <3>1, <4>1, <1>1 DEF TurnsInv, ToSet, Distinct
    <3>4. RoundInv'
      BY <3>1, <3>2, <1>2 DEF RoundInv
    <3> QED
      BY <3>3, <3>4
  <2> QED
    BY <2>1, <2>2
<1> QED
  BY <1>1, <1>5, <1>6, <1>7

\* A turn keeps the invariant's parts.
LEMMA TakeInv ==
    ASSUME QueueInv, Take
    PROVE  TurnsInv' /\ FifosInv' /\ CountInv' /\ RoundInv'
<1> DEFINE g == Head(Waiting)
           w == Waiting
           t == Tail(w)
           f == Head(fifos[g])
<1> USE DEF QueueInv
<1>1. /\ w # <<>> /\ g \in Gnbs /\ fifos[g] # <<>>
      /\ fifos' = [fifos EXCEPT ![g] = Tail(@)]
      /\ Waiting' = IF Len(fifos[g]) = 1 THEN t ELSE Append(t, g)
      /\ head' <= Len(ring')
      /\ n' = n - 1 /\ n > 0
      /\ turns' = [x \in Gnbs |-> IF x = g \/ fifos[x] = <<>> THEN [h \in Gnbs |-> 0]
                                  ELSE [turns[x] EXCEPT ![g] = @ + 1]]
  BY TakeEffect
<1>2. w \in Seq(Gnbs) /\ fifos \in [Gnbs -> Seq(Ues)] /\ fifos[g] \in Seq(Ues)
  BY <1>1, WaitingSeq DEF TurnsInv, TypeOK
<1>3. /\ f \in ToSet(fifos[g])
      /\ ToSet(fifos'[g]) = ToSet(fifos[g]) \ {f}
      /\ Distinct(fifos'[g])
      /\ fifos'[g] = <<>> <=> Len(fifos[g]) = 1
      /\ \A x \in Gnbs \ {g} : fifos'[x] = fifos[x]
  <2>1. fifos'[g] = Tail(fifos[g]) /\ \A x \in Gnbs \ {g} : fifos'[x] = fifos[x]
    BY <1>1, <1>2
  <2>2. Distinct(fifos[g])
    BY <1>1 DEF FifosInv
  <2>3. /\ f \in ToSet(fifos[g])
        /\ ToSet(Tail(fifos[g])) = ToSet(fifos[g]) \ {f}
        /\ Distinct(Tail(fifos[g]))
    BY <2>2, <1>1, <1>2, TailDistinct
  <2>4. Tail(fifos[g]) = <<>> <=> Len(fifos[g]) = 1
    <3>1. Tail(fifos[g]) \in Seq(Ues) /\ Len(Tail(fifos[g])) = Len(fifos[g]) - 1 /\ Len(fifos[g]) \in Nat
      BY <1>1, <1>2, HeadTailProperties, LenProperties
    <3>2. Tail(fifos[g]) = <<>> <=> Len(Tail(fifos[g])) = 0
      BY <3>1, EmptySeq
    <3> QED
      BY <3>1, <3>2
  <2> QED
    BY <2>1, <2>3, <2>4
<1>4. FifosInv'
  <2>1. \A x \in Gnbs : Distinct(fifos'[x]) /\ \A v \in ToSet(fifos'[x]) : GnbOf[v] = x
    <3> TAKE x \in Gnbs
    <3>1. CASE x = g
      BY <3>1, <1>3 DEF FifosInv
    <3>2. CASE x # g
      BY <3>2, <1>3 DEF FifosInv
    <3> QED
      BY <3>1, <3>2
  <2> QED
    BY <2>1 DEF FifosInv, Distinct, ToSet
<1>5. CountInv'
  <2>1. Queued' = UNION { ToSet(fifos'[x]) : x \in Gnbs }
    BY DEF Queued, ToSet
  <2>2. \A x \in Gnbs : ToSet(fifos'[x]) = ToSet(fifos[x]) \ {f}
    <3> TAKE x \in Gnbs
    <3>1. x # g => f \notin ToSet(fifos[x])
      BY <1>1, <1>3 DEF FifosInv
    <3> QED
      BY <3>1, <1>3
  <2>3. Queued' = Queued \ {f}
    <3>1. ASSUME NEW v PROVE v \in Queued' <=> v \in Queued \ {f}
      <4>1. v \in Queued' <=> \E x \in Gnbs : v \in ToSet(fifos'[x])
        BY <2>1
      <4>2. v \in Queued <=> \E x \in Gnbs : v \in ToSet(fifos[x])
        BY DEF Queued
      <4> QED
        BY <4>1, <4>2, <2>2
    <3> QED
      BY <3>1
  <2>4. f \in Queued
    BY <1>1, <1>3 DEF Queued
  <2>5. IsFiniteSet(Queued \ {f}) /\ Cardinality(Queued \ {f}) = Cardinality(Queued) - 1
    BY <2>4, FS_RemoveElement DEF CountInv
  <2> QED
    BY <2>3, <2>5, <1>1 DEF CountInv
<1>6. /\ t \in Seq(Gnbs) /\ Len(w) \in Nat /\ Len(t) = Len(w) - 1 /\ Len(t) \in Nat
      /\ \A i \in 1 .. Len(t) : t[i] = w[i + 1] /\ i + 1 \in 1 .. Len(w)
      /\ w[1] = g /\ 1 \in 1 .. Len(w)
  <2>1. /\ t \in Seq(Gnbs) /\ Len(t) = Len(w) - 1 /\ Len(w) \in Nat /\ Len(t) \in Nat
        /\ \A i \in 1 .. Len(t) : t[i] = w[i + 1]
    BY <1>1, <1>2, HeadTailProperties, LenProperties
  <2>2. w[1] = g
    OBVIOUS
  <2> HIDE DEF t, w, g
  <2> QED
    BY <2>1, <2>2
<1>7. /\ g \in ToSet(w)
      /\ ToSet(t) = ToSet(w) \ {g}
      /\ Distinct(t)
  BY <1>1, <1>2, TailDistinct DEF TurnsInv
<1> HIDE DEF t, w, f
<1>8. TurnsInv'
  <2>1. ToSet(w) = { x \in Gnbs : fifos[x] # <<>> }
    BY DEF TurnsInv, w
  <2>2. CASE Len(fifos[g]) = 1
    <3>1. Waiting' = t
      BY <2>2, <1>1
    <3>2. ToSet(t) = { x \in Gnbs : fifos'[x] # <<>> }
      BY <2>1, <2>2, <1>1, <1>3, <1>7
    <3> QED
      BY <3>1, <3>2, <1>1, <1>7 DEF TurnsInv, ToSet, Distinct
  <2>3. CASE Len(fifos[g]) # 1
    <3>1. Waiting' = Append(t, g)
      BY <2>3, <1>1
    <3>2. ToSet(Append(t, g)) = ToSet(t) \cup {g} /\ Distinct(Append(t, g))
      BY <1>1, <1>6, <1>7, AppendDistinct
    <3>3. ToSet(Append(t, g)) = { x \in Gnbs : fifos'[x] # <<>> }
      BY <3>2, <2>1, <2>3, <1>1, <1>3, <1>7
    <3>4. ToSet(Waiting') = { x \in Gnbs : fifos'[x] # <<>> } /\ Distinct(Waiting')
      BY <3>1, <3>2, <3>3
    <3> QED
      BY <3>4, <1>1 DEF TurnsInv, ToSet, Distinct
  <2> QED
    BY <2>2, <2>3
<1>9. RoundInv'
  <2>1. \A i \in 1 .. Len(Waiting') :
            \/ i \in 1 .. Len(t) /\ Waiting'[i] = w[i + 1] /\ w[i + 1] # g /\ i + 1 \in 1 .. Len(w)
            \/ i = Len(t) + 1 /\ Len(Waiting') = Len(t) + 1 /\ Waiting'[i] = g
    <3>1. \A i \in 1 .. Len(t) : t[i] = w[i + 1] /\ i + 1 \in 1 .. Len(w) /\ w[i + 1] # g
      <4>1. \A i \in 1 .. Len(t) : t[i] \in ToSet(t)
        BY <1>6, LenProperties DEF ToSet
      <4> QED
        BY <4>1, <1>6, <1>7
    <3>2. CASE Len(fifos[g]) = 1
      BY <3>1, <3>2, <1>1
    <3>3. CASE Len(fifos[g]) # 1
      <4>1. /\ Waiting' = Append(t, g)
            /\ Len(Append(t, g)) = Len(t) + 1
            /\ \A i \in 1 .. Len(t) : Append(t, g)[i] = t[i]
            /\ Append(t, g)[Len(t) + 1] = g
        BY <3>3, <1>1, <1>6, AppendProperties
      <4> DEFINE a == Append(t, g)
      <4> HIDE DEF a
      <4>2. \A i \in 1 .. Len(a) : i \in 1 .. Len(t) \/ i = Len(t) + 1
        BY <4>1, <1>6 DEF a
      <4> QED
        BY <4>1, <4>2, <3>1 DEF a
    <3> QED
      BY <3>2, <3>3
  <2>2. ASSUME NEW x \in Gnbs, NEW h \in Gnbs, x # h
        PROVE  /\ turns'[x][h] <= 1
               /\ fifos'[x] = <<>> => turns'[x][h] = 0
               /\ \A i, j \in 1 .. Len(Waiting') :
                      j < i /\ Waiting'[i] = x /\ Waiting'[j] = h => turns'[x][h] = 0
    <3>1. CASE x = g \/ fifos[x] = <<>>
      <4>1. turns'[x][h] = 0
        BY <3>1, <1>1, <2>2
      <4> QED
        BY <4>1
    <3>2. CASE x # g /\ fifos[x] # <<>> /\ h # g
      <4>1. turns'[x][h] = turns[x][h] /\ fifos'[x] # <<>>
        BY <3>2, <1>1, <1>3, <2>2 DEF TypeOK
      <4>2. turns[x][h] <= 1
        BY <2>2 DEF RoundInv
      <4>3. ASSUME NEW i \in 1 .. Len(Waiting'), NEW j \in 1 .. Len(Waiting'), j < i,
                   Waiting'[i] = x, Waiting'[j] = h
            PROVE  turns[x][h] = 0
        <5>1. /\ i + 1 \in 1 .. Len(w) /\ j + 1 \in 1 .. Len(w) /\ j + 1 < i + 1
              /\ w[i + 1] = x /\ w[j + 1] = h
          BY <4>3, <3>2, <2>1
        <5> QED
          BY <5>1, <2>2 DEF RoundInv, w
      <4> QED
        BY <4>1, <4>2, <4>3
    <3>3. CASE x # g /\ fifos[x] # <<>> /\ h = g
      <4>1. turns'[x][g] = turns[x][g] + 1 /\ fifos'[x] # <<>>
        BY <3>3, <1>1, <1>3, <2>2 DEF TypeOK
      <4>2. turns[x][g] = 0
        <5>1. x \in ToSet(w) /\ w[1] = g /\ 1 \in 1 .. Len(w)
          BY <3>3, <1>6 DEF TurnsInv, w
        <5>2. PICK i \in 1 .. Len(w) : w[i] = x
          BY <5>1, <1>2, LenProperties DEF ToSet, w
        <5>3. 1 < i
          BY <5>1, <5>2, <3>3, <1>6
        <5> QED
          BY <5>1, <5>2, <5>3, <3>3, <2>2 DEF RoundInv, w
      <4>3. ASSUME NEW i \in 1 .. Len(Waiting'), NEW j \in 1 .. Len(Waiting'), j < i,
                   Waiting'[i] = x, Waiting'[j] = h
            PROVE  FALSE
        <5>1. j = Len(t) + 1 /\ i <= Len(t) + 1
          BY <4>3, <3>3, <2>1, <1>6
        <5> QED
          BY <5>1, <4>3, <1>6
      <4> QED
        BY <4>1, <4>2, <4>3, <3>3
    <3> QED
      BY <3>1, <3>2, <3>3
  <2> QED
    BY <2>2 DEF RoundInv
<1> QED
  BY <1>4, <1>5, <1>8, <1>9

-----------------------------------------------------------------------------
\* A new queue is empty.
LEMMA QueueInit == Init => QueueInv
<1> SUFFICES ASSUME Init PROVE QueueInv
  OBVIOUS
<1>1. TypeOK
  BY EmptySeq DEF Init, TypeOK
<1>2. Waiting = <<>>
  BY SubSeqEmpty, EmptySeq DEF Init, Waiting
<1>3. ToSet(<<>>) = {} /\ Distinct(<<>>)
  BY EmptySeq DEF ToSet, Distinct
<1>4. TurnsInv
  <2>1. { g \in Gnbs : fifos[g] # <<>> } = {}
    BY DEF Init
  <2>2. head <= Len(ring)
    BY EmptySeq DEF Init
  <2> QED
    BY <2>1, <2>2, <1>2, <1>3 DEF TurnsInv
<1>5. FifosInv
  <2>1. \A g \in Gnbs : fifos[g] = <<>>
    BY DEF Init
  <2> QED
    BY <2>1, <1>3 DEF FifosInv
<1>6. CountInv
  <2>1. \A g \in Gnbs : ToSet(fifos[g]) = {}
    BY <1>3 DEF Init
  <2>2. Queued = {}
    BY <2>1 DEF Queued
  <2> QED
    BY <2>2, FS_EmptySet DEF CountInv, Init
<1>7. RoundInv
  BY DEF RoundInv, Init
<1> QED
  BY <1>1, <1>4, <1>5, <1>6, <1>7 DEF QueueInv

\* Every step keeps the invariant.
LEMMA QueueStep == QueueInv /\ [Next]_vars => QueueInv'
<1> SUFFICES ASSUME QueueInv, [Next]_vars PROVE QueueInv'
  OBVIOUS
<1>1. ASSUME NEW p \in Pushers, NEW u \in Ues, Push(p, u) PROVE QueueInv'
  BY <1>1, PushInv
<1>2. ASSUME Take, TypeOK' PROVE QueueInv'
  BY <1>2, TakeInv DEF QueueInv
<1>3. ASSUME UNCHANGED <<fifos, ring, head, n, turns>>, TypeOK' PROVE QueueInv'
  <2>1. UNCHANGED Waiting /\ UNCHANGED Queued
    BY <1>3 DEF Waiting, Queued, ToSet
  <2>2. TurnsInv'
    BY <1>3, <2>1 DEF QueueInv, TurnsInv, ToSet, Distinct
  <2>3. FifosInv'
    BY <1>3 DEF QueueInv, FifosInv, ToSet, Distinct
  <2>4. CountInv' /\ RoundInv'
    BY <1>3, <2>1 DEF QueueInv, CountInv, RoundInv
  <2> QED
    BY <1>3, <2>2, <2>3, <2>4 DEF QueueInv
<1>4. ASSUME NEW p \in Pushers, Signal(p) PROVE QueueInv'
  <2>1. TypeOK'
    BY <1>4 DEF QueueInv, TypeOK, Signal
  <2> QED
    BY <2>1, <1>3, <1>4 DEF Signal
<1>5. ASSUME Take PROVE /\ fifos' \in [Gnbs -> Seq(Ues)]
                        /\ ring' \in Seq(Gnbs) /\ head' \in Nat /\ n' \in Nat
                        /\ turns' \in [Gnbs -> [Gnbs -> Nat]]
  BY <1>5, TakeEffect DEF QueueInv
<1>6. CASE TryPop
  <2>1. CASE Take
    BY <2>1, <1>2, <1>5, <1>6 DEF TryPop, TypeOK, QueueInv
  <2>2. CASE n = 0 /\ pop' = "wait" /\ UNCHANGED <<fifos, ring, head, n, turns>>
    BY <2>2, <1>3, <1>6 DEF TryPop, TypeOK, QueueInv
  <2> QED
    BY <2>1, <2>2, <1>6 DEF TryPop
<1>7. CASE Wake
  <2>1. TypeOK'
    BY <1>7 DEF QueueInv, TypeOK, Wake
  <2> QED
    BY <2>1, <1>3, <1>7 DEF Wake
<1>8. CASE DrainStarts
  <2>1. TypeOK'
    BY <1>8 DEF QueueInv, TypeOK, DrainStarts
  <2> QED
    BY <2>1, <1>3, <1>8 DEF DrainStarts
<1>9. CASE pop = "drain" /\ Take /\ UNCHANGED <<ready, push, pop, ctxDone>>
  BY <1>2, <1>5, <1>9 DEF TypeOK, QueueInv
<1>10. CASE Cancel
  <2>1. TypeOK'
    BY <1>10 DEF QueueInv, TypeOK, Cancel
  <2> QED
    BY <2>1, <1>3, <1>10 DEF Cancel
<1>11. CASE UNCHANGED vars
  <2>1. TypeOK'
    BY <1>11 DEF QueueInv, TypeOK, vars
  <2> QED
    BY <2>1, <1>3, <1>11 DEF vars
<1> QED
  BY <1>1, <1>4, <1>6, <1>7, <1>8, <1>9, <1>10, <1>11 DEF Next, Drain

\* The ring stays in step with the FIFOs and a gNB waits at most one round (rrqueue.go).
THEOREM TurnsAlwaysKept == Spec => []TurnsKept
<1>1. QueueInv => TurnsKept
  <2> SUFFICES ASSUME QueueInv PROVE TurnsKept
    OBVIOUS
  <2>1. RingMatchesFifos
    <3>1. Waiting \in Seq(Gnbs)
      BY WaitingSeq DEF QueueInv, TurnsInv
    <3>2. Len(Waiting) = Cardinality(ToSet(Waiting))
      BY <3>1, DistinctCount DEF QueueInv, TurnsInv
    <3> QED
      BY <3>2 DEF QueueInv, TurnsInv, CountInv, RingMatchesFifos
  <2>2. OneRound
    BY DEF QueueInv, RoundInv, OneRound
  <2> QED
    BY <2>1, <2>2 DEF QueueInv, TurnsKept
<1> QED
  BY <1>1, QueueInit, QueueStep, PTL DEF Spec

\* The dispatcher never sleeps on a queue that has UEs in it with nobody about to wake it.
THEOREM NeverSleepsOnWork == Spec => []NoSleepOnWork
<1> DEFINE Inv == QueueInv /\ NoSleepOnWork
<1>1. Init => Inv
  BY QueueInit DEF Init, NoSleepOnWork
<1>2. Inv /\ [Next]_vars => Inv'
  <2> SUFFICES ASSUME QueueInv, NoSleepOnWork, [Next]_vars PROVE NoSleepOnWork'
    BY QueueStep
  <2>0. n \in Nat /\ push \in [Pushers -> {"idle", "signal"}]
    BY DEF QueueInv, TypeOK
  <2>1. ASSUME NEW p \in Pushers, NEW u \in Ues, Push(p, u) PROVE NoSleepOnWork'
    <3>1. push'[p] = "signal"
      BY <2>0, <2>1 DEF Push
    <3> QED
      BY <3>1 DEF NoSleepOnWork
  <2>2. ASSUME NEW p \in Pushers, Signal(p) PROVE NoSleepOnWork'
    BY <2>2 DEF Signal, NoSleepOnWork
  <2>3. CASE TryPop
    BY <2>0, <2>3 DEF TryPop, NoSleepOnWork
  <2>4. CASE Wake
    BY <2>4 DEF Wake, NoSleepOnWork
  <2>5. CASE Drain
    BY <2>5 DEF Drain, DrainStarts, NoSleepOnWork
  <2>6. CASE Cancel \/ UNCHANGED vars
    BY <2>6 DEF Cancel, vars, NoSleepOnWork
  <2> QED
    BY <2>1, <2>2, <2>3, <2>4, <2>5, <2>6 DEF Next
<1>3. Inv => NoSleepOnWork
  OBVIOUS
<1> QED
  BY <1>1, <1>2, <1>3, PTL DEF Spec

\* Ring, head, signals and reclaiming add up to a queue of turns: every push and
\* every pop, the drain's too, is one of TurnQueue's, and no other step shows.
THEOREM QueueOfTurns == Spec => ImplementsTurnQueue
<1>1. Init => Turns!Init
  <2> SUFFICES ASSUME Init PROVE Turns!Init
    OBVIOUS
  <2>1. Waiting = <<>>
    BY SubSeqEmpty, EmptySeq DEF Init, Waiting
  <2> QED
    BY <2>1 DEF Init, Turns!Init
<1>2. QueueInv /\ [Next]_vars => [Turns!Next]_(Turns!vars)
  <2> SUFFICES ASSUME QueueInv, [Next]_vars PROVE Turns!Next \/ UNCHANGED <<fifos, Waiting>>
    BY DEF Turns!vars
  <2>1. ASSUME NEW p \in Pushers, NEW u \in Ues, Push(p, u) PROVE Turns!Next
    <3>1. Turns!Push(u)
      BY <2>1, PushEffect DEF QueueInv, TurnsInv, Turns!Push
    <3> QED
      BY <3>1 DEF Turns!Next
  <2>2. ASSUME Take PROVE Turns!Next
    <3> DEFINE g == Head(Waiting)
    <3>1. /\ Waiting # <<>> /\ g \in Gnbs /\ fifos[g] # <<>>
          /\ fifos' = [fifos EXCEPT ![g] = Tail(@)]
          /\ Waiting' = IF Len(fifos[g]) = 1 THEN Tail(Waiting) ELSE Append(Tail(Waiting), g)
      BY <2>2, TakeEffect DEF QueueInv
    <3>2. fifos[g] \in Seq(Ues)
      BY <3>1 DEF QueueInv, TypeOK
    <3>3. Tail(fifos[g]) = <<>> <=> Len(fifos[g]) = 1
      <4>1. Tail(fifos[g]) \in Seq(Ues) /\ Len(Tail(fifos[g])) = Len(fifos[g]) - 1 /\ Len(fifos[g]) \in Nat
        BY <3>1, <3>2, HeadTailProperties, LenProperties
      <4>2. Tail(fifos[g]) = <<>> <=> Len(Tail(fifos[g])) = 0
        BY <4>1, EmptySeq
      <4> QED
        BY <4>1, <4>2
    <3>4. Turns!Pop
      BY <3>1, <3>3 DEF Turns!Pop
    <3> QED
      BY <3>4 DEF Turns!Next
  <2>3. ASSUME UNCHANGED <<fifos, ring, head>> PROVE UNCHANGED <<fifos, Waiting>>
    BY <2>3 DEF Waiting
  <2> QED
    BY <2>1, <2>2, <2>3 DEF Next, Signal, TryPop, Wake, Drain, DrainStarts, Cancel, vars
<1> QED
  BY <1>1, <1>2, QueueInit, QueueStep, PTL DEF Spec, ImplementsTurnQueue, Turns!Spec

=============================================================================
