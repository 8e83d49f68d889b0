---------------------------- MODULE OutcomeProofs ----------------------------
(***************************************************************************)
(* A run's items are in one place each, for any gNBs, UEs, retries and     *)
(* limits; and what it leaves behind and what its cards say: its           *)
(* associations are closed, its control-plane cycles start when the load   *)
(* is done, the UEs it counts failed are those of its failure list, every  *)
(* card counts its gNBs or UEs once, every counter is a natural number,    *)
(* and a stopped run owes nothing.                                         *)
(***************************************************************************)
EXTENDS MCPipeline, FiniteSetTheorems, TLAPS

Phases == {"n2", "running", "stopping", "skipped", "deregister", "close", "stopped"}

\* What the dispatchers work with.
LoopTypes ==
    /\ phase \in Phases
    /\ loop \in [Stages -> {"off", "await", "loop", "wait", "returned"}]
    /\ held \in [Stages -> Items \cup {None}]
    /\ queue \in [Stages -> [Items -> Nat]]
    /\ flight \in [Stages -> SUBSET Items]

\* The items a stage works on.
ItemsOf(s) == CASE s = "n2" -> Gnbs
                [] s \in {"reg", "pdu"} -> Tp
                [] s = "cp" -> Cp
                [] s = "dereg" -> Ues

KindsInv == \A s \in Stages, i \in Items : AtStage(s, i) > 0 => i \in ItemsOf(s)

\* In one place of one stage.
OnceInv ==
    \A i \in Items : /\ \A s \in Stages : AtStage(s, i) <= 1
                     /\ \A s, t \in Stages : s # t => AtStage(s, i) = 0 \/ AtStage(t, i) = 0

\* A throughput UE is nowhere before its gNB is up.
WaitInv ==
    phase = "n2" => \A u \in Tp : AtStage("n2", GnbOf[u]) > 0 => \A s \in Stages : AtStage(s, u) = 0

\* A dispatcher that has not started or has returned holds and runs nothing.
IdleInv ==
    \A s \in Stages :
        /\ loop[s] # "loop" => held[s] = None
        /\ loop[s] \in {"off", "await", "returned"} => flight[s] = {}
        /\ loop[s] \in {"off", "await"} => \A i \in Items : queue[s][i] = 0

\* Which dispatchers there are in each phase.
PhaseInv ==
    /\ \A s \in {"n2", "reg", "pdu"} : loop[s] \notin {"off", "await"}
    /\ phase = "n2" => loop["cp"] = IF Cp = {} THEN "returned" ELSE "off"
    /\ phase # "n2" => loop["n2"] = "returned"
    /\ phase \in {"n2", "running", "stopping", "skipped"} => loop["dereg"] = "off"
    /\ phase \in {"skipped", "deregister", "close", "stopped"} =>
         \A s \in {"reg", "pdu", "cp"} : loop[s] = "returned" /\ \A i \in Items : queue[s][i] = 0

LoopInv == LoopTypes /\ KindsInv /\ OnceInv /\ WaitInv /\ IdleInv /\ PhaseInv

-----------------------------------------------------------------------------
(* Lemmas about queues and places. *)

LEMMA StageNames ==
    /\ "n2" \in Stages /\ "reg" \in Stages /\ "pdu" \in Stages /\ "cp" \in Stages /\ "dereg" \in Stages
    /\ Gnbs \subseteq Items /\ Tp \subseteq Items /\ Cp \subseteq Items /\ Ues \subseteq Items
    /\ Tp \subseteq Ues /\ Cp \subseteq Ues
    /\ \A s \in Stages : ItemsOf(s) \subseteq Items
BY DEF Stages, Items, Ues, ItemsOf

\* What a queue holds after a push.
LEMMA PushedAt ==
    ASSUME LoopTypes, NEW s \in Stages, NEW S
    PROVE  /\ Pushed(s, S) \in [Stages -> [Items -> Nat]]
           /\ \A t \in Stages, i \in Items :
                Pushed(s, S)[t][i] = IF t = s /\ i \in S THEN queue[t][i] + 1 ELSE queue[t][i]
<1>1. queue \in [Stages -> [Items -> Nat]]
  BY DEF LoopTypes
<1>2. [i \in Items |-> IF i \in S THEN queue[s][i] + 1 ELSE queue[s][i]] \in [Items -> Nat]
  BY <1>1
<1>3. Pushed(s, S) = [queue EXCEPT ![s] = [i \in Items |-> IF i \in S THEN queue[s][i] + 1 ELSE queue[s][i]]]
  BY <1>1 DEF Pushed
<1> QED
  BY <1>1, <1>2, <1>3

LEMMA PlaceNat ==
    ASSUME LoopTypes, NEW s \in Stages, NEW i \in Items
    PROVE  /\ queue[s][i] \in Nat /\ AtStage(s, i) \in Nat
           /\ AtStage(s, i) = 0 <=> queue[s][i] = 0 /\ held[s] # i /\ i \notin flight[s]
<1>1. queue[s][i] \in Nat
  BY DEF LoopTypes
<1> QED
  BY <1>1 DEF AtStage

\* No item comes to a place it was not in, and none is counted more than before.
NoMore == \A s \in Stages, i \in Items : AtStage(s, i)' <= AtStage(s, i)

LEMMA NoMoreKeeps ==
    ASSUME LoopTypes, LoopTypes', KindsInv, OnceInv, WaitInv, NoMore, phase' = "n2" => phase = "n2"
    PROVE  KindsInv' /\ OnceInv' /\ WaitInv'
<1>1. \A s \in Stages, i \in Items : AtStage(s, i) \in Nat
  BY PlaceNat
<1>2. \A s \in Stages, i \in Items : AtStage(s, i)' \in Nat
  <2> SUFFICES ASSUME NEW s \in Stages, NEW i \in Items PROVE AtStage(s, i)' \in Nat
    OBVIOUS
  <2>1. queue'[s][i] \in Nat
    BY DEF LoopTypes
  <2> QED
    BY <2>1 DEF AtStage
<1>3. \A s \in Stages, i \in Items : AtStage(s, i)' > 0 => AtStage(s, i) > 0
  BY <1>1, <1>2 DEF NoMore
<1>4. KindsInv'
  BY <1>3 DEF KindsInv
<1>5. OnceInv'
  BY <1>1, <1>2 DEF OnceInv, NoMore
<1>6. WaitInv'
  <2> SUFFICES ASSUME phase' = "n2", NEW u \in Tp, AtStage("n2", GnbOf[u])' > 0, NEW s \in Stages
               PROVE  AtStage(s, u)' = 0
    BY DEF WaitInv
  <2>1. GnbOf[u] \in Items /\ "n2" \in Stages /\ u \in Items
    BY PipelineOK, StageNames DEF Ues
  <2>2. AtStage("n2", GnbOf[u]) > 0
    BY <1>3, <2>1
  <2>3. AtStage(s, u) = 0
    BY <2>2 DEF WaitInv
  <2> QED
    BY <1>1, <1>2, <2>1, <2>3 DEF NoMore
<1> QED
  BY <1>4, <1>5, <1>6

-----------------------------------------------------------------------------
(* What the actions do to the dispatchers keeps LoopInv. *)

\* The attempt for i is over, and i is in no queue.
Ends(s, i) ==
    /\ i \in flight[s] /\ Leave(s, i)
    /\ UNCHANGED <<phase, loop, held, queue>>

\* The attempt for i is over, and i waits for another.
EndsQueued(s, i) ==
    /\ i \in flight[s] /\ Leave(s, i) /\ queue' = Pushed(s, {i})
    /\ UNCHANGED <<phase, loop, held>>

\* execute goes on while the dispatchers stand still.
LEMMA StandingKeeps ==
    ASSUME LoopInv, UNCHANGED <<loop, held, queue, flight>>,
           \/ UNCHANGED phase
           \/ phase = "running" /\ phase' = "stopping"
           \/ phase = "close" /\ phase' = "stopped"
    PROVE  LoopInv' /\ NoMore
<1>1. LoopTypes'
  BY DEF LoopInv, LoopTypes, Phases
<1>2. NoMore
  <2> SUFFICES ASSUME NEW s \in Stages, NEW i \in Items PROVE AtStage(s, i)' <= AtStage(s, i)
    BY DEF NoMore
  <2>1. AtStage(s, i)' = AtStage(s, i)
    BY DEF AtStage
  <2> QED
    BY <2>1, PlaceNat DEF LoopInv
<1>3. KindsInv' /\ OnceInv' /\ WaitInv'
  BY <1>1, <1>2, NoMoreKeeps DEF LoopInv
<1>4. IdleInv'
  BY DEF LoopInv, IdleInv
<1>5. PhaseInv'
  BY DEF LoopInv, PhaseInv
<1> QED
  BY <1>2, <1>1, <1>3, <1>4, <1>5 DEF LoopInv

\* Of every stage but s nothing changes, and of s what is given; phase and what is
\* known of it follow the dispatchers.
LEMMA StageMoves ==
    ASSUME LoopInv, NEW s \in Stages, LoopTypes', UNCHANGED phase,
           \A t \in Stages : t # s => loop'[t] = loop[t] /\ held'[t] = held[t] /\ flight'[t] = flight[t]
                                        /\ queue'[t] = queue[t],
           \A i \in Items : AtStage(s, i)' <= AtStage(s, i),
           \/ loop[s] \in {"loop", "wait"} /\ loop'[s] \in {"loop", "wait"}
           \/ loop[s] = "wait" /\ loop'[s] = "returned" /\ flight'[s] = {},
           loop'[s] # "loop" => held'[s] = None
    PROVE  LoopInv' /\ NoMore
<1>1. NoMore
  <2> SUFFICES ASSUME NEW t \in Stages, NEW i \in Items PROVE AtStage(t, i)' <= AtStage(t, i)
    BY DEF NoMore
  <2>1. CASE t = s
    BY <2>1
  <2>2. CASE t # s
    <3>1. AtStage(t, i)' = AtStage(t, i)
      BY <2>2 DEF AtStage
    <3> QED
      BY <3>1, PlaceNat DEF LoopInv
  <2> QED
    BY <2>1, <2>2
<1>2. KindsInv' /\ OnceInv' /\ WaitInv'
  BY <1>1, NoMoreKeeps DEF LoopInv
<1>3. IdleInv'
  <2> SUFFICES ASSUME NEW t \in Stages
               PROVE  /\ loop'[t] # "loop" => held'[t] = None
                      /\ loop'[t] \in {"off", "await", "returned"} => flight'[t] = {}
                      /\ loop'[t] \in {"off", "await"} => \A i \in Items : queue'[t][i] = 0
    BY DEF IdleInv
  <2>1. CASE t = s
    BY <2>1
  <2>2. CASE t # s
    BY <2>2 DEF LoopInv, IdleInv
  <2> QED
    BY <2>1, <2>2
<1>4. PhaseInv'
  BY StageNames DEF LoopInv, PhaseInv
<1> QED
  BY <1>1, <1>2, <1>3, <1>4 DEF LoopInv

LEMMA EndsKeeps ==
    ASSUME LoopInv, NEW s \in Stages, NEW i \in Items, Ends(s, i)
    PROVE  LoopInv' /\ NoMore
<1>1. LoopTypes'
  BY DEF LoopInv, LoopTypes, Ends, Leave
<1>2. \A t \in Stages : flight'[t] = IF t = s THEN flight[t] \ {i} ELSE flight[t]
  BY DEF LoopInv, LoopTypes, Ends, Leave
<1>3. \A j \in Items : AtStage(s, j)' <= AtStage(s, j)
  <2> SUFFICES ASSUME NEW j \in Items PROVE AtStage(s, j)' <= AtStage(s, j)
    OBVIOUS
  <2>1. queue[s][j] \in Nat
    BY PlaceNat DEF LoopInv
  <2>2. flight'[s] = flight[s] \ {i} /\ queue'[s] = queue[s] /\ held'[s] = held[s]
    BY <1>2 DEF Ends
  <2> QED
    BY <2>1, <2>2 DEF AtStage
<1>4. loop[s] \in {"loop", "wait"} /\ (loop[s] # "loop" => held[s] = None)
  BY DEF LoopInv, LoopTypes, IdleInv, Ends
<1> QED
  BY <1>1, <1>2, <1>3, <1>4, StageMoves DEF Ends

LEMMA EndsQueuedKeeps ==
    ASSUME LoopInv, NEW s \in Stages, NEW i \in Items, EndsQueued(s, i)
    PROVE  LoopInv' /\ NoMore
<1>1. \A t \in Stages : flight'[t] = IF t = s THEN flight[t] \ {i} ELSE flight[t]
  BY DEF LoopInv, LoopTypes, EndsQueued, Leave
<1>2. \A t \in Stages, j \in Items : queue'[t][j] = IF t = s /\ j = i THEN queue[t][j] + 1 ELSE queue[t][j]
  BY PushedAt DEF LoopInv, EndsQueued
<1>3. queue' \in [Stages -> [Items -> Nat]]
  BY PushedAt DEF LoopInv, EndsQueued
<1>4. LoopTypes'
  BY <1>3 DEF LoopInv, LoopTypes, EndsQueued, Leave
<1>5. \A t \in Stages : t # s => queue'[t] = queue[t]
  BY <1>2, <1>3 DEF LoopInv, LoopTypes
<1>6. \A j \in Items : AtStage(s, j)' <= AtStage(s, j)
  <2> SUFFICES ASSUME NEW j \in Items PROVE AtStage(s, j)' <= AtStage(s, j)
    OBVIOUS
  <2>1. queue[s][j] \in Nat
    BY PlaceNat DEF LoopInv
  <2>2. flight'[s] = flight[s] \ {i} /\ held'[s] = held[s] /\ i \in flight[s]
    BY <1>1 DEF EndsQueued
  <2>3. queue'[s][j] = IF j = i THEN queue[s][j] + 1 ELSE queue[s][j]
    BY <1>2
  <2> QED
    BY <2>1, <2>2, <2>3 DEF AtStage
<1>7. loop[s] \in {"loop", "wait"} /\ (loop[s] # "loop" => held[s] = None)
  BY DEF LoopInv, LoopTypes, IdleInv, EndsQueued
<1> QED
  BY <1>1, <1>4, <1>5, <1>6, <1>7, StageMoves DEF EndsQueued

LEMMA PopKeeps ==
    ASSUME LoopInv, NEW s \in Stages, Pop(s)
    PROVE  LoopInv' /\ NoMore
<1>1. PICK i \in Items : /\ queue[s][i] > 0 /\ held' = [held EXCEPT ![s] = i]
                         /\ queue' = [queue EXCEPT ![s][i] = @ - 1]
  BY DEF Pop
<1>2. loop[s] = "loop" /\ held[s] = None /\ UNCHANGED <<phase, loop, flight>>
  BY DEF Pop
<1>3. queue \in [Stages -> [Items -> Nat]] /\ held \in [Stages -> Items \cup {None}]
  BY DEF LoopInv, LoopTypes
<1>4. \A t \in Stages, j \in Items : queue'[t][j] = IF t = s /\ j = i THEN queue[t][j] - 1 ELSE queue[t][j]
  BY <1>1, <1>3
<1>5. queue' \in [Stages -> [Items -> Nat]] /\ held' \in [Stages -> Items \cup {None}]
  BY <1>1, <1>3
<1>6. LoopTypes'
  BY <1>2, <1>5 DEF LoopInv, LoopTypes
<1>7. \A t \in Stages : t # s => queue'[t] = queue[t] /\ held'[t] = held[t]
  BY <1>1, <1>3
<1>8. \A j \in Items : AtStage(s, j)' <= AtStage(s, j)
  <2> SUFFICES ASSUME NEW j \in Items PROVE AtStage(s, j)' <= AtStage(s, j)
    OBVIOUS
  <2>1. queue[s][j] \in Nat /\ j # None
    BY <1>3, PipelineOK
  <2>2. held'[s] = i
    BY <1>1, <1>3
  <2> QED
    BY <1>1, <1>2, <1>4, <2>1, <2>2 DEF AtStage
<1> QED
  BY <1>2, <1>6, <1>7, <1>8, StageMoves

LEMMA LoopEndsKeeps ==
    ASSUME LoopInv, NEW s \in Stages, LoopEnds(s)
    PROVE  LoopInv' /\ NoMore
<1>1. /\ loop[s] = "loop" /\ UNCHANGED <<phase, flight>>
      /\ loop' = [loop EXCEPT ![s] = "wait"] /\ held' = [held EXCEPT ![s] = None]
      /\ queue' = queue \/ queue' = Pushed(s, {held[s]})
  BY DEF LoopEnds
<1>2. queue \in [Stages -> [Items -> Nat]] /\ held \in [Stages -> Items \cup {None}]
  BY DEF LoopInv, LoopTypes
<1>3. /\ queue' \in [Stages -> [Items -> Nat]]
      /\ \A t \in Stages, j \in Items :
           queue'[t][j] = queue[t][j] \/ (t = s /\ j = held[s] /\ queue'[t][j] = queue[t][j] + 1)
  BY <1>1, <1>2, PushedAt DEF LoopInv
<1>4. LoopTypes'
  BY <1>1, <1>3 DEF LoopInv, LoopTypes
<1>5. \A t \in Stages : t # s => queue'[t] = queue[t]
  BY <1>2, <1>3
<1>6. \A t \in Stages : t # s => loop'[t] = loop[t] /\ held'[t] = held[t] /\ flight'[t] = flight[t]
  BY <1>1 DEF LoopInv, LoopTypes
<1>7. loop'[s] = "wait" /\ held'[s] = None
  BY <1>1 DEF LoopInv, LoopTypes
<1>8. \A j \in Items : AtStage(s, j)' <= AtStage(s, j)
  <2> SUFFICES ASSUME NEW j \in Items PROVE AtStage(s, j)' <= AtStage(s, j)
    OBVIOUS
  <2>1. queue[s][j] \in Nat /\ j # None
    BY <1>2, PipelineOK
  <2>2. queue'[s][j] = queue[s][j] \/ (j = held[s] /\ queue'[s][j] = queue[s][j] + 1)
    BY <1>3
  <2> QED
    BY <1>1, <1>7, <2>1, <2>2 DEF AtStage
<1> QED
  BY <1>1, <1>4, <1>5, <1>6, <1>7, <1>8, StageMoves

LEMMA LoopReturnsKeeps ==
    ASSUME LoopInv, NEW s \in Stages, LoopReturns(s)
    PROVE  LoopInv' /\ NoMore
<1>1. /\ loop[s] = "wait" /\ flight[s] = {} /\ UNCHANGED <<phase, held, queue, flight>>
      /\ loop' = [loop EXCEPT ![s] = "returned"]
  BY DEF LoopReturns
<1>2. LoopTypes'
  BY <1>1 DEF LoopInv, LoopTypes
<1>3. \A t \in Stages : loop'[t] = IF t = s THEN "returned" ELSE loop[t]
  BY <1>1 DEF LoopInv, LoopTypes
<1>4. \A j \in Items : AtStage(s, j)' = AtStage(s, j) /\ AtStage(s, j) \in Nat
  BY <1>1, PlaceNat DEF AtStage, LoopInv
<1>5. \A j \in Items : AtStage(s, j)' <= AtStage(s, j)
  BY <1>4
<1>6. held[s] = None
  BY <1>1 DEF LoopInv, IdleInv
<1> QED
  BY <1>1, <1>2, <1>3, <1>5, <1>6, StageMoves

LEMMA DispatchKeeps ==
    ASSUME LoopInv, NEW s \in Stages, Dispatch(s)
    PROVE  LoopInv' /\ NoMore
<1>1. /\ loop[s] = "loop" /\ held[s] # None /\ UNCHANGED <<phase, loop, queue>>
      /\ flight' = [flight EXCEPT ![s] = @ \cup {held[s]}] /\ held' = [held EXCEPT ![s] = None]
  BY DEF Dispatch
<1>2. /\ queue \in [Stages -> [Items -> Nat]] /\ held \in [Stages -> Items \cup {None}]
      /\ flight \in [Stages -> SUBSET Items] /\ held[s] \in Items
  BY <1>1 DEF LoopInv, LoopTypes
<1>3. LoopTypes'
  BY <1>1, <1>2 DEF LoopInv, LoopTypes
<1>4. \A t \in Stages : t # s => held'[t] = held[t] /\ flight'[t] = flight[t]
  BY <1>1, <1>2
<1>5. held'[s] = None /\ flight'[s] = flight[s] \cup {held[s]}
  BY <1>1, <1>2
<1>6. \A j \in Items : AtStage(s, j)' <= AtStage(s, j)
  <2> SUFFICES ASSUME NEW j \in Items PROVE AtStage(s, j)' <= AtStage(s, j)
    OBVIOUS
  <2>1. queue[s][j] \in Nat /\ j # None
    BY <1>2, PipelineOK
  <2> QED
    BY <1>1, <1>5, <2>1 DEF AtStage
<1> QED
  BY <1>1, <1>3, <1>4, <1>5, <1>6, StageMoves

LEMMA SkipCycleKeeps ==
    ASSUME LoopInv, SkipCycle
    PROVE  LoopInv' /\ NoMore
<1>1. /\ loop["cp"] = "loop" /\ UNCHANGED <<phase, loop, queue, flight>>
      /\ held' = [held EXCEPT !["cp"] = None]
  BY DEF SkipCycle
<1>2. queue \in [Stages -> [Items -> Nat]] /\ held \in [Stages -> Items \cup {None}] /\ "cp" \in Stages
  BY StageNames DEF LoopInv, LoopTypes
<1>3. LoopTypes'
  BY <1>1, <1>2 DEF LoopInv, LoopTypes
<1>4. \A t \in Stages : held'[t] = IF t = "cp" THEN None ELSE held[t]
  BY <1>1, <1>2
<1>5. \A j \in Items : AtStage("cp", j)' <= AtStage("cp", j)
  <2> SUFFICES ASSUME NEW j \in Items PROVE AtStage("cp", j)' <= AtStage("cp", j)
    OBVIOUS
  <2>1. queue["cp"][j] \in Nat /\ j # None
    BY <1>2, PipelineOK
  <2> QED
    BY <1>1, <1>2, <1>4, <2>1 DEF AtStage
<1> QED
  BY <1>1, <1>2, <1>3, <1>4, <1>5, StageMoves

\* Items that are nowhere enter a queue of a dispatcher that takes them.
LEMMA EnterKeeps ==
    ASSUME LoopInv, NEW s \in Stages, NEW S \in SUBSET ItemsOf(s), LoopTypes',
           \A t \in Stages, i \in Items : AtStage(t, i)' <= AtStage(t, i) + (IF t = s /\ i \in S THEN 1 ELSE 0),
           \A t \in Stages, i \in S : t # s => AtStage(t, i)' = 0,
           \A i \in S : AtStage(s, i) = 0
    PROVE  KindsInv' /\ OnceInv'
<1>1. \A t \in Stages, i \in Items : AtStage(t, i) \in Nat
  BY PlaceNat DEF LoopInv
<1>2. \A t \in Stages, i \in Items : AtStage(t, i)' \in Nat
  <2> SUFFICES ASSUME NEW t \in Stages, NEW i \in Items PROVE AtStage(t, i)' \in Nat
    OBVIOUS
  <2>1. queue'[t][i] \in Nat
    BY DEF LoopTypes
  <2> QED
    BY <2>1 DEF AtStage
<1>3. S \subseteq Items
  BY StageNames
<1>4. KindsInv'
  <2> SUFFICES ASSUME NEW t \in Stages, NEW i \in Items, AtStage(t, i)' > 0 PROVE i \in ItemsOf(t)
    BY DEF KindsInv
  <2>1. CASE t = s /\ i \in S
    BY <2>1
  <2>2. CASE ~(t = s /\ i \in S)
    <3>1. AtStage(t, i) > 0
      BY <2>2, <1>1, <1>2
    <3> QED
      BY <3>1 DEF LoopInv, KindsInv
  <2> QED
    BY <2>1, <2>2
<1>5. \A i \in Items, t \in Stages : AtStage(t, i)' <= 1
  <2> SUFFICES ASSUME NEW i \in Items, NEW t \in Stages PROVE AtStage(t, i)' <= 1
    OBVIOUS
  <2>1. AtStage(t, i) <= 1
    BY DEF LoopInv, OnceInv
  <2> QED
    BY <2>1, <1>1, <1>2
<1>6. \A i \in Items : \A t, r \in Stages : t # r => AtStage(t, i)' = 0 \/ AtStage(r, i)' = 0
  <2> SUFFICES ASSUME NEW i \in Items, NEW t \in Stages, NEW r \in Stages, t # r
               PROVE  AtStage(t, i)' = 0 \/ AtStage(r, i)' = 0
    OBVIOUS
  <2>1. CASE i \in S
    BY <2>1
  <2>2. CASE i \notin S
    <3>1. AtStage(t, i)' <= AtStage(t, i) /\ AtStage(r, i)' <= AtStage(r, i)
      BY <2>2, <1>1
    <3>2. AtStage(t, i) = 0 \/ AtStage(r, i) = 0
      BY DEF LoopInv, OnceInv
    <3> QED
      BY <3>1, <3>2, <1>1, <1>2
  <2> QED
    BY <2>1, <2>2
<1> QED
  BY <1>4, <1>5, <1>6 DEF OnceInv

\* A gNB is up: its throughput UEs are queued for registration.
LEMMA N2UpKeeps ==
    ASSUME LoopInv, NEW g \in Gnbs, N2Up(g)
    PROVE  LoopInv'
<1> DEFINE S == UesOf(g) \cap Tp
<1>1. /\ g \in flight["n2"] /\ UNCHANGED <<phase, loop, held>>
      /\ flight' = [flight EXCEPT !["n2"] = @ \ {g}] /\ queue' = Pushed("reg", S)
  BY DEF N2Up, Leave
<1>2. S \subseteq Tp /\ \A u \in Tp : u \in S <=> GnbOf[u] = g
  BY StageNames DEF UesOf
<1> HIDE DEF S
<1>3. \A t \in Stages : flight'[t] = IF t = "n2" THEN flight[t] \ {g} ELSE flight[t]
  BY <1>1 DEF LoopInv, LoopTypes
<1>4. /\ queue' \in [Stages -> [Items -> Nat]]
      /\ \A t \in Stages, i \in Items :
           queue'[t][i] = IF t = "reg" /\ i \in S THEN queue[t][i] + 1 ELSE queue[t][i]
  BY <1>1, PushedAt, StageNames DEF LoopInv
<1>5. LoopTypes'
  BY <1>1, <1>4 DEF LoopInv, LoopTypes
<1>6. loop["n2"] \in {"loop", "wait"} /\ phase = "n2"
  BY <1>1, StageNames DEF LoopInv, LoopTypes, IdleInv, PhaseInv
<1>7. AtStage("n2", g) = 1 /\ AtStage("n2", g)' = 0
  <2>1. AtStage("n2", g) <= 1 /\ queue["n2"][g] \in Nat /\ g \in Items /\ "n2" \in Stages
    BY StageNames, PlaceNat DEF LoopInv, OnceInv
  <2>2. queue["n2"][g] = 0 /\ held["n2"] # g
    BY <2>1, <1>1 DEF AtStage
  <2>3. queue'["n2"][g] = 0
    BY <2>1, <2>2, <1>4
  <2>4. flight'["n2"] = flight["n2"] \ {g} /\ held'["n2"] = held["n2"]
    BY <2>1, <1>1, <1>3
  <2> QED
    BY <1>1, <2>2, <2>3, <2>4 DEF AtStage
<1>8. \A t \in Stages, u \in S : AtStage(t, u) = 0
  BY <1>2, <1>6, <1>7 DEF LoopInv, WaitInv
<1>9. \A t \in Stages, i \in Items :
         /\ AtStage(t, i)' <= AtStage(t, i) + (IF t = "reg" /\ i \in S THEN 1 ELSE 0)
         /\ ~(t = "reg" /\ i \in S) => AtStage(t, i)' <= AtStage(t, i)
  <2> SUFFICES ASSUME NEW t \in Stages, NEW i \in Items
               PROVE  /\ AtStage(t, i)' <= AtStage(t, i) + (IF t = "reg" /\ i \in S THEN 1 ELSE 0)
                      /\ ~(t = "reg" /\ i \in S) => AtStage(t, i)' <= AtStage(t, i)
    OBVIOUS
  <2>1. queue[t][i] \in Nat /\ held'[t] = held[t] /\ (i \in flight'[t] => i \in flight[t])
    BY <1>1, <1>3, PlaceNat DEF LoopInv
  <2>2. queue'[t][i] = IF t = "reg" /\ i \in S THEN queue[t][i] + 1 ELSE queue[t][i]
    BY <1>4
  <2> QED
    BY <2>1, <2>2 DEF AtStage
<1>10. \A t \in Stages, i \in Items : AtStage(t, i) \in Nat /\ AtStage(t, i)' \in Nat
  <2> SUFFICES ASSUME NEW t \in Stages, NEW i \in Items PROVE AtStage(t, i) \in Nat /\ AtStage(t, i)' \in Nat
    OBVIOUS
  <2>1. queue'[t][i] \in Nat /\ AtStage(t, i) \in Nat
    BY <1>5, PlaceNat DEF LoopTypes, LoopInv
  <2> QED
    BY <2>1 DEF AtStage
<1>11. S \subseteq Items /\ S \subseteq ItemsOf("reg") /\ "reg" \in Stages
  BY <1>2, StageNames DEF ItemsOf
<1>12. KindsInv' /\ OnceInv'
  <2>1. \A t \in Stages, u \in S : t # "reg" => AtStage(t, u)' = 0
    BY <1>8, <1>9, <1>10, <1>11
  <2> QED
    BY <2>1, <1>5, <1>8, <1>9, <1>11, EnterKeeps
<1>13. WaitInv'
  <2> SUFFICES ASSUME NEW u \in Tp, AtStage("n2", GnbOf[u])' > 0, NEW s \in Stages
               PROVE  AtStage(s, u)' = 0
    BY DEF WaitInv
  <2>1. GnbOf[u] \in Gnbs /\ GnbOf[u] \in Items /\ u \in Items /\ "n2" \in Stages
    BY PipelineOK, StageNames
  <2>2. GnbOf[u] # g /\ u \notin S
    BY <1>2, <1>7, <1>10, <2>1
  <2>3. AtStage("n2", GnbOf[u]) > 0
    BY <1>9, <1>10, <2>1
  <2>4. AtStage(s, u) = 0
    BY <1>6, <2>3 DEF LoopInv, WaitInv
  <2> QED
    BY <1>9, <1>10, <2>1, <2>2, <2>4
<1>14. IdleInv'
  <2> SUFFICES ASSUME NEW t \in Stages
               PROVE  /\ loop'[t] # "loop" => held'[t] = None
                      /\ loop'[t] \in {"off", "await", "returned"} => flight'[t] = {}
                      /\ loop'[t] \in {"off", "await"} => \A i \in Items : queue'[t][i] = 0
    BY DEF IdleInv
  <2>1. t = "reg" => loop[t] \notin {"off", "await"}
    BY DEF LoopInv, PhaseInv
  <2> QED
    BY <1>1, <1>3, <1>4, <2>1 DEF LoopInv, IdleInv
<1>15. PhaseInv'
  BY <1>1, <1>6 DEF LoopInv, PhaseInv
<1> QED
  BY <1>5, <1>12, <1>13, <1>14, <1>15 DEF LoopInv

\* A registered UE is queued for its PDU session.
LEMMA RegAcceptedKeeps ==
    ASSUME LoopInv, NEW u \in Ues, RegAccepted(u)
    PROVE  LoopInv'
<1>1. /\ u \in flight["reg"] /\ UNCHANGED <<phase, loop, held>>
      /\ flight' = [flight EXCEPT !["reg"] = @ \ {u}] /\ queue' = Pushed("pdu", {u})
  BY DEF RegAccepted, Leave
<1>2. \A t \in Stages : flight'[t] = IF t = "reg" THEN flight[t] \ {u} ELSE flight[t]
  BY <1>1 DEF LoopInv, LoopTypes
<1>3. /\ queue' \in [Stages -> [Items -> Nat]]
      /\ \A t \in Stages, i \in Items :
           queue'[t][i] = IF t = "pdu" /\ i \in {u} THEN queue[t][i] + 1 ELSE queue[t][i]
  BY <1>1, PushedAt, StageNames DEF LoopInv
<1>4. LoopTypes'
  BY <1>1, <1>3 DEF LoopInv, LoopTypes
<1>5. u \in Items /\ "reg" \in Stages /\ "pdu" \in Stages /\ loop["reg"] \in {"loop", "wait"}
  BY <1>1, StageNames DEF LoopInv, LoopTypes, IdleInv
<1>6. AtStage("reg", u) = 1 /\ AtStage("reg", u)' = 0
  <2>1. AtStage("reg", u) <= 1 /\ queue["reg"][u] \in Nat
    BY <1>5, PlaceNat DEF LoopInv, OnceInv
  <2>2. queue["reg"][u] = 0 /\ held["reg"] # u
    BY <2>1, <1>1 DEF AtStage
  <2>3. queue'["reg"][u] = 0
    BY <2>2, <1>3, <1>5
  <2>4. flight'["reg"] = flight["reg"] \ {u} /\ held'["reg"] = held["reg"]
    BY <1>1, <1>2, <1>5
  <2> QED
    BY <1>1, <2>2, <2>3, <2>4 DEF AtStage
<1>7. \A t \in Stages : t # "reg" => AtStage(t, u) = 0
  BY <1>5, <1>6 DEF LoopInv, OnceInv
<1>8. u \in Tp
  <2>1. u \in ItemsOf("reg")
    BY <1>5, <1>6 DEF LoopInv, KindsInv
  <2> QED
    BY <2>1 DEF ItemsOf
<1>9. \A t \in Stages, i \in Items :
         /\ AtStage(t, i)' <= AtStage(t, i) + (IF t = "pdu" /\ i \in {u} THEN 1 ELSE 0)
         /\ ~(t = "pdu" /\ i = u) => AtStage(t, i)' <= AtStage(t, i)
  <2> SUFFICES ASSUME NEW t \in Stages, NEW i \in Items
               PROVE  /\ AtStage(t, i)' <= AtStage(t, i) + (IF t = "pdu" /\ i \in {u} THEN 1 ELSE 0)
                      /\ ~(t = "pdu" /\ i = u) => AtStage(t, i)' <= AtStage(t, i)
    OBVIOUS
  <2>1. queue[t][i] \in Nat /\ held'[t] = held[t] /\ (i \in flight'[t] => i \in flight[t])
    BY <1>1, <1>2, PlaceNat DEF LoopInv
  <2>2. queue'[t][i] = IF t = "pdu" /\ i \in {u} THEN queue[t][i] + 1 ELSE queue[t][i]
    BY <1>3
  <2> QED
    BY <2>1, <2>2 DEF AtStage
<1>10. \A t \in Stages, i \in Items : AtStage(t, i) \in Nat /\ AtStage(t, i)' \in Nat
  <2> SUFFICES ASSUME NEW t \in Stages, NEW i \in Items PROVE AtStage(t, i) \in Nat /\ AtStage(t, i)' \in Nat
    OBVIOUS
  <2>1. queue'[t][i] \in Nat /\ AtStage(t, i) \in Nat
    BY <1>4, PlaceNat DEF LoopTypes, LoopInv
  <2> QED
    BY <2>1 DEF AtStage
<1>11. KindsInv' /\ OnceInv'
  <2>1. \A t \in Stages, i \in {u} : t # "pdu" => AtStage(t, i)' = 0
    BY <1>5, <1>6, <1>7, <1>9, <1>10
  <2>2. {u} \in SUBSET ItemsOf("pdu")
    BY <1>8 DEF ItemsOf
  <2> QED
    BY <2>1, <2>2, <1>4, <1>5, <1>7, <1>9, EnterKeeps
<1>12. WaitInv'
  <2> SUFFICES ASSUME phase = "n2", NEW v \in Tp, AtStage("n2", GnbOf[v])' > 0, NEW s \in Stages
               PROVE  AtStage(s, v)' = 0
    BY <1>1 DEF WaitInv
  <2>1. GnbOf[v] \in Items /\ v \in Items /\ "n2" \in Stages
    BY PipelineOK, StageNames
  <2>2. AtStage("n2", GnbOf[v]) > 0
    BY <1>9, <1>10, <2>1
  <2>3. \A t \in Stages : AtStage(t, v) = 0
    BY <2>2 DEF LoopInv, WaitInv
  <2>4. v # u
    BY <2>3, <1>5, <1>6
  <2> QED
    BY <1>9, <1>10, <2>1, <2>3, <2>4
<1>13. IdleInv'
  <2> SUFFICES ASSUME NEW t \in Stages
               PROVE  /\ loop'[t] # "loop" => held'[t] = None
                      /\ loop'[t] \in {"off", "await", "returned"} => flight'[t] = {}
                      /\ loop'[t] \in {"off", "await"} => \A i \in Items : queue'[t][i] = 0
    BY DEF IdleInv
  <2>1. t = "pdu" => loop[t] \notin {"off", "await"}
    BY DEF LoopInv, PhaseInv
  <2>2. loop'[t] # "loop" => held'[t] = None
    BY <1>1 DEF LoopInv, IdleInv
  <2>3. loop'[t] \in {"off", "await", "returned"} => flight'[t] = {}
    BY <1>1, <1>2 DEF LoopInv, IdleInv
  <2>4. loop'[t] \in {"off", "await"} => \A i \in Items : queue'[t][i] = 0
    <3> SUFFICES ASSUME loop[t] \in {"off", "await"}, NEW i \in Items PROVE queue'[t][i] = 0
      BY <1>1
    <3>1. queue[t][i] = 0
      BY DEF LoopInv, IdleInv
    <3>2. t # "pdu"
      BY <2>1
    <3> QED
      BY <1>3, <3>1, <3>2
  <2> QED
    BY <2>2, <2>3, <2>4
<1>14. PhaseInv'
  BY <1>1, <1>5 DEF LoopInv, PhaseInv
<1> QED
  BY <1>4, <1>11, <1>12, <1>13, <1>14 DEF LoopInv

\* The control-plane UEs are queued once the load is done, or the run is stopped before.
LEMMA CpLoopStartsKeeps ==
    ASSUME LoopInv, CpLoopStarts
    PROVE  LoopInv'
<1> DEFINE S == { u \in Cp : alive[GnbOf[u]] }
<1>1. /\ loop["cp"] = "await" /\ UNCHANGED <<phase, held, flight>>
      /\ \/ loop' = [loop EXCEPT !["cp"] = "loop"] /\ queue' = Pushed("cp", S)
         \/ loop' = [loop EXCEPT !["cp"] = "returned"] /\ queue' = queue
  BY DEF CpLoopStarts
<1>2. S \in SUBSET Cp
  OBVIOUS
<1> HIDE DEF S
<1>3. /\ queue' \in [Stages -> [Items -> Nat]]
      /\ \A t \in Stages, i \in Items :
           \/ queue'[t][i] = queue[t][i]
           \/ loop'["cp"] = "loop" /\ t = "cp" /\ i \in S /\ queue'[t][i] = queue[t][i] + 1
  <2>1. CASE loop' = [loop EXCEPT !["cp"] = "loop"] /\ queue' = Pushed("cp", S)
    <3>1. loop'["cp"] = "loop"
      BY <2>1, StageNames DEF LoopInv, LoopTypes
    <3> QED
      BY <2>1, <3>1, PushedAt, StageNames DEF LoopInv
  <2>2. CASE queue' = queue
    BY <2>2 DEF LoopInv, LoopTypes
  <2> QED
    BY <1>1, <2>1, <2>2
<1>4. /\ loop'["cp"] \in {"loop", "returned"}
      /\ \A t \in Stages : t # "cp" => loop'[t] = loop[t]
  BY <1>1, StageNames DEF LoopInv, LoopTypes
<1>5. loop' \in [Stages -> {"off", "await", "loop", "wait", "returned"}]
  BY <1>1 DEF LoopInv, LoopTypes
<1>6. LoopTypes'
  BY <1>1, <1>3, <1>5 DEF LoopInv, LoopTypes
<1>7. phase \in {"running", "stopping"} /\ loop["dereg"] = "off"
  BY <1>1 DEF LoopInv, LoopTypes, PhaseInv, Phases
<1>8. \A t \in Stages, u \in S : AtStage(t, u) = 0
  <2> SUFFICES ASSUME NEW t \in Stages, NEW u \in S PROVE AtStage(t, u) = 0
    OBVIOUS
  <2>1. u \in Cp /\ u \in Items /\ AtStage(t, u) \in Nat
    BY <1>2, StageNames, PlaceNat DEF LoopInv
  <2>2. CASE t \in {"cp", "dereg"}
    <3>1. loop[t] \in {"off", "await"}
      BY <1>1, <1>7, <2>2
    <3>2. held[t] = None /\ flight[t] = {} /\ queue[t][u] = 0
      BY <3>1, <2>1 DEF LoopInv, IdleInv
    <3> QED
      BY <3>2, <2>1, PipelineOK DEF AtStage
  <2>3. CASE t \in {"n2", "reg", "pdu"}
    <3>1. u \notin ItemsOf(t)
      BY <2>1, <2>3, PipelineOK DEF ItemsOf, Ues
    <3> QED
      BY <3>1, <2>1 DEF LoopInv, KindsInv
  <2> QED
    BY <2>2, <2>3 DEF Stages
<1>9. \A t \in Stages, i \in Items :
         /\ AtStage(t, i)' <= AtStage(t, i) + (IF t = "cp" /\ i \in S THEN 1 ELSE 0)
         /\ t # "cp" => AtStage(t, i)' = AtStage(t, i)
         /\ AtStage(t, i) \in Nat
  <2> SUFFICES ASSUME NEW t \in Stages, NEW i \in Items
               PROVE  /\ AtStage(t, i)' <= AtStage(t, i) + (IF t = "cp" /\ i \in S THEN 1 ELSE 0)
                      /\ t # "cp" => AtStage(t, i)' = AtStage(t, i)
                      /\ AtStage(t, i) \in Nat
    OBVIOUS
  <2>1. queue[t][i] \in Nat /\ AtStage(t, i) \in Nat
    BY PlaceNat DEF LoopInv
  <2>2. queue'[t][i] = queue[t][i] \/ (t = "cp" /\ i \in S /\ queue'[t][i] = queue[t][i] + 1)
    BY <1>3
  <2>3. held'[t] = held[t] /\ flight'[t] = flight[t]
    BY <1>1
  <2> QED
    BY <2>1, <2>2, <2>3 DEF AtStage
<1>10. KindsInv' /\ OnceInv'
  <2>1. \A t \in Stages, u \in S : t # "cp" => AtStage(t, u)' = 0
    BY <1>2, <1>8, <1>9, StageNames
  <2>2. S \in SUBSET ItemsOf("cp") /\ "cp" \in Stages /\ S \subseteq Items
    BY <1>2, StageNames DEF ItemsOf
  <2>3. \A t \in Stages, i \in Items : AtStage(t, i)' <= AtStage(t, i) + (IF t = "cp" /\ i \in S THEN 1 ELSE 0)
    BY <1>9
  <2>4. \A i \in S : AtStage("cp", i) = 0
    BY <2>2, <1>8
  <2> QED
    BY <2>1, <2>2, <2>3, <2>4, <1>6, EnterKeeps
<1>11. WaitInv'
  BY <1>1, <1>7 DEF WaitInv
<1>12. IdleInv'
  <2> SUFFICES ASSUME NEW t \in Stages
               PROVE  /\ loop'[t] # "loop" => held'[t] = None
                      /\ loop'[t] \in {"off", "await", "returned"} => flight'[t] = {}
                      /\ loop'[t] \in {"off", "await"} => \A i \in Items : queue'[t][i] = 0
    BY DEF IdleInv
  <2>1. CASE t = "cp"
    <3>1. held[t] = None /\ flight[t] = {}
      BY <1>1, <2>1 DEF LoopInv, IdleInv
    <3> QED
      BY <1>1, <1>4, <2>1, <3>1
  <2>2. CASE t # "cp"
    <3>1. loop'[t] = loop[t] /\ held'[t] = held[t] /\ flight'[t] = flight[t]
      BY <1>1, <1>4, <2>2
    <3>2. \A i \in Items : queue'[t][i] = queue[t][i]
      BY <1>3, <2>2
    <3> QED
      BY <3>1, <3>2 DEF LoopInv, IdleInv
  <2> QED
    BY <2>1, <2>2
<1>13. PhaseInv'
  BY <1>1, <1>4, <1>7, StageNames DEF LoopInv, PhaseInv
<1> QED
  BY <1>6, <1>10, <1>11, <1>12, <1>13 DEF LoopInv

\* The gNBs have had their turns.
LEMMA N2DoneKeeps ==
    ASSUME LoopInv, N2Done
    PROVE  LoopInv' /\ NoMore
<1>1. /\ phase = "n2" /\ loop["n2"] = "returned" /\ phase' \in {"stopping", "running"}
      /\ loop' = [loop EXCEPT !["cp"] = IF Cp = {} THEN "returned" ELSE "await"]
      /\ UNCHANGED <<held, queue, flight>>
  BY DEF N2Done
<1>2. /\ loop'["cp"] = IF Cp = {} THEN "returned" ELSE "await"
      /\ \A t \in Stages : t # "cp" => loop'[t] = loop[t]
      /\ loop' \in [Stages -> {"off", "await", "loop", "wait", "returned"}]
  BY <1>1, StageNames DEF LoopInv, LoopTypes
<1>3. LoopTypes'
  BY <1>1, <1>2 DEF LoopInv, LoopTypes, Phases
<1>4. NoMore
  <2> SUFFICES ASSUME NEW s \in Stages, NEW i \in Items PROVE AtStage(s, i)' <= AtStage(s, i)
    BY DEF NoMore
  <2>1. AtStage(s, i)' = AtStage(s, i)
    BY <1>1 DEF AtStage
  <2> QED
    BY <2>1, PlaceNat DEF LoopInv
<1>5. KindsInv' /\ OnceInv' /\ WaitInv'
  BY <1>1, <1>3, <1>4, NoMoreKeeps DEF LoopInv
<1>6. loop["cp"] = IF Cp = {} THEN "returned" ELSE "off"
  BY <1>1 DEF LoopInv, PhaseInv
<1>7. IdleInv'
  <2> SUFFICES ASSUME NEW t \in Stages
               PROVE  /\ loop'[t] # "loop" => held'[t] = None
                      /\ loop'[t] \in {"off", "await", "returned"} => flight'[t] = {}
                      /\ loop'[t] \in {"off", "await"} => \A i \in Items : queue'[t][i] = 0
    BY DEF IdleInv
  <2>1. CASE t = "cp"
    <3>1. held[t] = None /\ flight[t] = {} /\ (loop'[t] = "await" => \A i \in Items : queue[t][i] = 0)
      BY <1>2, <1>6, <2>1 DEF LoopInv, IdleInv
    <3> QED
      BY <1>1, <1>2, <2>1, <3>1
  <2>2. CASE t # "cp"
    BY <1>1, <1>2, <2>2 DEF LoopInv, IdleInv
  <2> QED
    BY <2>1, <2>2
<1>8. PhaseInv'
  BY <1>1, <1>2, StageNames DEF LoopInv, PhaseInv
<1> QED
  BY <1>4, <1>3, <1>5, <1>7, <1>8 DEF LoopInv

\* What was never started leaves its queue.
LEMMA SkipUnfinishedKeeps ==
    ASSUME LoopInv, SkipUnfinished
    PROVE  LoopInv' /\ NoMore
<1>1. /\ phase = "stopping" /\ phase' = "skipped" /\ UNCHANGED <<loop, held, flight>>
      /\ loop["reg"] = "returned" /\ loop["pdu"] = "returned" /\ loop["cp"] = "returned"
      /\ queue' = [s \in Stages |-> IF s \in {"reg", "pdu", "cp"} THEN Drained(s) ELSE queue[s]]
  BY DEF SkipUnfinished
<1>2. \A s \in Stages, i \in Items : queue'[s][i] = IF s \in {"reg", "pdu", "cp"} THEN 0 ELSE queue[s][i]
  BY <1>1 DEF Drained
<1>3. queue' \in [Stages -> [Items -> Nat]]
  BY <1>1 DEF LoopInv, LoopTypes, Drained
<1>4. LoopTypes'
  BY <1>1, <1>3 DEF LoopInv, LoopTypes, Phases
<1>5. NoMore
  <2> SUFFICES ASSUME NEW s \in Stages, NEW i \in Items PROVE AtStage(s, i)' <= AtStage(s, i)
    BY DEF NoMore
  <2>1. queue[s][i] \in Nat /\ held'[s] = held[s] /\ flight'[s] = flight[s]
    BY <1>1, PlaceNat DEF LoopInv
  <2>2. queue'[s][i] = 0 \/ queue'[s][i] = queue[s][i]
    BY <1>2
  <2> QED
    BY <2>1, <2>2 DEF AtStage
<1>6. KindsInv' /\ OnceInv' /\ WaitInv'
  BY <1>1, <1>4, <1>5, NoMoreKeeps DEF LoopInv
<1>7. IdleInv'
  <2> SUFFICES ASSUME NEW t \in Stages
               PROVE  /\ loop'[t] # "loop" => held'[t] = None
                      /\ loop'[t] \in {"off", "await", "returned"} => flight'[t] = {}
                      /\ loop'[t] \in {"off", "await"} => \A i \in Items : queue'[t][i] = 0
    BY DEF IdleInv
  <2>1. /\ loop[t] # "loop" => held[t] = None
        /\ loop[t] \in {"off", "await", "returned"} => flight[t] = {}
        /\ loop[t] \in {"off", "await"} => \A i \in Items : queue[t][i] = 0
    BY DEF LoopInv, IdleInv
  <2>2. \A i \in Items : queue'[t][i] = 0 \/ queue'[t][i] = queue[t][i]
    BY <1>2
  <2> QED
    BY <1>1, <2>1, <2>2
<1>8. PhaseInv'
  <2>1. \A s \in {"reg", "pdu", "cp"} : loop'[s] = "returned" /\ \A i \in Items : queue'[s][i] = 0
    BY <1>1, <1>2, StageNames
  <2>2. loop'["n2"] = "returned" /\ loop'["dereg"] = "off"
    BY <1>1 DEF LoopInv, PhaseInv
  <2> QED
    BY <1>1, <2>1, <2>2 DEF PhaseInv
<1> QED
  BY <1>5, <1>4, <1>6, <1>7, <1>8 DEF LoopInv

\* Cleanup queues what it can deregister: by now nothing else works on it.
LEMMA DeregisterAllKeeps ==
    ASSUME LoopInv, DeregisterAll
    PROVE  LoopInv'
<1> DEFINE S == { u \in Ues : CanDeregister(u) }
<1>1. /\ phase = "skipped" /\ UNCHANGED <<held, flight>>
      /\ \/ S = {} /\ phase' = "close" /\ UNCHANGED <<loop, queue>>
         \/ /\ phase' = "deregister" /\ loop' = [loop EXCEPT !["dereg"] = "loop"]
            /\ queue' = Pushed("dereg", S)
  BY DEF DeregisterAll
<1>2. S \in SUBSET Ues
  OBVIOUS
<1> HIDE DEF S
<1>3. /\ queue' \in [Stages -> [Items -> Nat]]
      /\ \A t \in Stages, i \in Items :
           queue'[t][i] = IF t = "dereg" /\ i \in S THEN queue[t][i] + 1 ELSE queue[t][i]
  <2>1. CASE queue' = Pushed("dereg", S)
    BY <2>1, PushedAt, StageNames DEF LoopInv
  <2>2. CASE S = {} /\ queue' = queue
    BY <2>2 DEF LoopInv, LoopTypes
  <2> QED
    BY <1>1, <2>1, <2>2
<1>4. /\ \A t \in Stages : t # "dereg" => loop'[t] = loop[t]
      /\ loop'["dereg"] = "loop" \/ (loop'["dereg"] = loop["dereg"] /\ S = {})
      /\ loop' \in [Stages -> {"off", "await", "loop", "wait", "returned"}]
  BY <1>1, StageNames DEF LoopInv, LoopTypes
<1>5. LoopTypes'
  BY <1>1, <1>3, <1>4 DEF LoopInv, LoopTypes, Phases
<1>6. /\ loop["dereg"] = "off"
      /\ \A s \in {"reg", "pdu", "cp"} : loop[s] = "returned" /\ \A i \in Items : queue[s][i] = 0
  BY <1>1 DEF LoopInv, PhaseInv
<1>7. \A t \in Stages, u \in S : AtStage(t, u) = 0
  <2> SUFFICES ASSUME NEW t \in Stages, NEW u \in S PROVE AtStage(t, u) = 0
    OBVIOUS
  <2>1. u \in Ues /\ u \in Items /\ AtStage(t, u) \in Nat
    BY <1>2, StageNames, PlaceNat DEF LoopInv
  <2>2. CASE t \in {"reg", "pdu", "cp", "dereg"}
    <3>1. queue[t][u] = 0 /\ loop[t] \in {"off", "returned"}
      BY <1>6, <2>1, <2>2, StageNames DEF LoopInv, IdleInv
    <3>2. held[t] = None /\ flight[t] = {}
      BY <3>1 DEF LoopInv, IdleInv
    <3> QED
      BY <3>1, <3>2, <2>1, PipelineOK DEF AtStage
  <2>3. CASE t = "n2"
    <3>1. u \notin ItemsOf(t)
      BY <2>1, <2>3, PipelineOK DEF ItemsOf
    <3> QED
      BY <3>1, <2>1 DEF LoopInv, KindsInv
  <2> QED
    BY <2>2, <2>3 DEF Stages
<1>8. \A t \in Stages, i \in Items :
         /\ AtStage(t, i)' <= AtStage(t, i) + (IF t = "dereg" /\ i \in S THEN 1 ELSE 0)
         /\ t # "dereg" => AtStage(t, i)' = AtStage(t, i)
  <2> SUFFICES ASSUME NEW t \in Stages, NEW i \in Items
               PROVE  /\ AtStage(t, i)' <= AtStage(t, i) + (IF t = "dereg" /\ i \in S THEN 1 ELSE 0)
                      /\ t # "dereg" => AtStage(t, i)' = AtStage(t, i)
    OBVIOUS
  <2>1. queue[t][i] \in Nat /\ held'[t] = held[t] /\ flight'[t] = flight[t]
    BY <1>1, PlaceNat DEF LoopInv
  <2>2. queue'[t][i] = IF t = "dereg" /\ i \in S THEN queue[t][i] + 1 ELSE queue[t][i]
    BY <1>3
  <2> QED
    BY <2>1, <2>2 DEF AtStage
<1>9. KindsInv' /\ OnceInv'
  <2>1. \A t \in Stages, u \in S : t # "dereg" => AtStage(t, u)' = 0
    BY <1>2, <1>7, <1>8, StageNames
  <2>2. S \in SUBSET ItemsOf("dereg") /\ "dereg" \in Stages /\ S \subseteq Items
    BY <1>2, StageNames DEF ItemsOf
  <2>3. \A t \in Stages, i \in Items : AtStage(t, i)' <= AtStage(t, i) + (IF t = "dereg" /\ i \in S THEN 1 ELSE 0)
    BY <1>8
  <2>4. \A i \in S : AtStage("dereg", i) = 0
    BY <2>2, <1>7
  <2> QED
    BY <2>1, <2>2, <2>3, <2>4, <1>5, EnterKeeps
<1>10. WaitInv'
  BY <1>1 DEF WaitInv
<1>11. IdleInv'
  <2> SUFFICES ASSUME NEW t \in Stages
               PROVE  /\ loop'[t] # "loop" => held'[t] = None
                      /\ loop'[t] \in {"off", "await", "returned"} => flight'[t] = {}
                      /\ loop'[t] \in {"off", "await"} => \A i \in Items : queue'[t][i] = 0
    BY DEF IdleInv
  <2>1. CASE t = "dereg" /\ loop'[t] = "loop"
    BY <2>1
  <2>2. CASE t # "dereg" \/ (S = {} /\ loop'[t] = loop[t])
    <3>1. loop'[t] = loop[t] /\ held'[t] = held[t] /\ flight'[t] = flight[t]
      BY <1>1, <1>4, <2>2
    <3>2. \A i \in Items : queue'[t][i] = queue[t][i]
      BY <1>3, <2>2
    <3> QED
      BY <3>1, <3>2 DEF LoopInv, IdleInv
  <2> QED
    BY <1>4, <2>1, <2>2
<1>12. PhaseInv'
  <2>1. \A s \in {"reg", "pdu", "cp"} : loop'[s] = "returned" /\ \A i \in Items : queue'[s][i] = 0
    <3> SUFFICES ASSUME NEW s \in {"reg", "pdu", "cp"}
                 PROVE  loop'[s] = "returned" /\ \A i \in Items : queue'[s][i] = 0
      OBVIOUS
    <3>1. s \in Stages /\ s # "dereg"
      BY StageNames
    <3>2. \A i \in Items : queue'[s][i] = queue[s][i]
      BY <1>3, <3>1
    <3> QED
      BY <1>4, <1>6, <3>1, <3>2
  <2>2. loop'["n2"] = "returned"
    BY <1>1, <1>4, StageNames DEF LoopInv, PhaseInv
  <2>3. phase' \in {"deregister", "close"}
    BY <1>1
  <2> QED
    BY <2>1, <2>2, <2>3 DEF PhaseInv
<1> QED
  BY <1>5, <1>9, <1>10, <1>11, <1>12 DEF LoopInv

\* What an aborted cleanup left queued is skipped.
LEMMA DeregisterDoneKeeps ==
    ASSUME LoopInv, DeregisterDone
    PROVE  LoopInv' /\ NoMore
<1>1. /\ phase = "deregister" /\ phase' = "close" /\ UNCHANGED <<loop, held, flight>>
      /\ queue' = [queue EXCEPT !["dereg"] = Drained("dereg")]
  BY DEF DeregisterDone
<1>2. \A s \in Stages, i \in Items : queue'[s][i] = IF s = "dereg" THEN 0 ELSE queue[s][i]
  BY <1>1 DEF Drained, LoopInv, LoopTypes
<1>3. queue' \in [Stages -> [Items -> Nat]]
  BY <1>1 DEF LoopInv, LoopTypes, Drained
<1>4. LoopTypes'
  BY <1>1, <1>3 DEF LoopInv, LoopTypes, Phases
<1>5. NoMore
  <2> SUFFICES ASSUME NEW s \in Stages, NEW i \in Items PROVE AtStage(s, i)' <= AtStage(s, i)
    BY DEF NoMore
  <2>1. queue[s][i] \in Nat /\ held'[s] = held[s] /\ flight'[s] = flight[s]
    BY <1>1, PlaceNat DEF LoopInv
  <2>2. queue'[s][i] = 0 \/ queue'[s][i] = queue[s][i]
    BY <1>2
  <2> QED
    BY <2>1, <2>2 DEF AtStage
<1>6. KindsInv' /\ OnceInv' /\ WaitInv'
  BY <1>1, <1>4, <1>5, NoMoreKeeps DEF LoopInv
<1>7. IdleInv'
  <2> SUFFICES ASSUME NEW t \in Stages
               PROVE  /\ loop'[t] # "loop" => held'[t] = None
                      /\ loop'[t] \in {"off", "await", "returned"} => flight'[t] = {}
                      /\ loop'[t] \in {"off", "await"} => \A i \in Items : queue'[t][i] = 0
    BY DEF IdleInv
  <2>1. /\ loop[t] # "loop" => held[t] = None
        /\ loop[t] \in {"off", "await", "returned"} => flight[t] = {}
        /\ loop[t] \in {"off", "await"} => \A i \in Items : queue[t][i] = 0
    BY DEF LoopInv, IdleInv
  <2>2. \A i \in Items : queue'[t][i] = 0 \/ queue'[t][i] = queue[t][i]
    BY <1>2
  <2> QED
    BY <1>1, <2>1, <2>2
<1>8. PhaseInv'
  <2>1. \A s \in {"reg", "pdu", "cp"} : loop[s] = "returned" /\ \A i \in Items : queue[s][i] = 0
    BY <1>1 DEF LoopInv, PhaseInv
  <2>2. \A s \in {"reg", "pdu", "cp"}, i \in Items : queue'[s][i] = 0
    BY <1>2, <2>1, StageNames
  <2>3. loop["n2"] = "returned"
    BY <1>1 DEF LoopInv, PhaseInv
  <2> QED
    BY <1>1, <2>1, <2>2, <2>3 DEF PhaseInv
<1> QED
  BY <1>5, <1>4, <1>6, <1>7, <1>8 DEF LoopInv

-----------------------------------------------------------------------------
(* Every step. *)

\* A UE in the middle of a cycle has its attempt.
CycleInv ==
    /\ step \in [Ues -> {"idle", "register", "hold", "deregister"}]
    /\ \A u \in Ues : step[u] # "idle" => u \in flight["cp"]

OneInv == LoopInv /\ CycleInv

LEMMA OneInit == Init => OneInv
<1> SUFFICES ASSUME Init PROVE OneInv
  OBVIOUS
<1>1. /\ phase = "n2" /\ held = [s \in Stages |-> None] /\ flight = [s \in Stages |-> {}]
      /\ loop = [s \in Stages |-> CASE s \in {"n2", "reg", "pdu"} -> "loop"
                                    [] s = "cp" -> IF Cp = {} THEN "returned" ELSE "off"
                                    [] OTHER -> "off"]
      /\ queue = [s \in Stages |-> [i \in Items |-> IF s = "n2" /\ i \in Gnbs THEN 1 ELSE 0]]
      /\ step = [u \in Ues |-> "idle"]
  BY DEF Init
<1>2. /\ loop["n2"] = "loop" /\ loop["reg"] = "loop" /\ loop["pdu"] = "loop" /\ loop["dereg"] = "off"
      /\ loop["cp"] = IF Cp = {} THEN "returned" ELSE "off"
  BY <1>1, StageNames
<1>3. loop \in [Stages -> {"off", "await", "loop", "wait", "returned"}]
  BY <1>1
<1>4. LoopTypes
  BY <1>1, <1>3 DEF LoopTypes, Phases
<1>5. \A s \in Stages, i \in Items :
         /\ held[s] = None /\ flight[s] = {} /\ i # None
         /\ queue[s][i] = IF s = "n2" /\ i \in Gnbs THEN 1 ELSE 0
  BY <1>1, PipelineOK
<1>6. \A s \in Stages, i \in Items : AtStage(s, i) = IF s = "n2" /\ i \in Gnbs THEN 1 ELSE 0
  BY <1>5 DEF AtStage
<1>7. KindsInv
  BY <1>6 DEF KindsInv, ItemsOf
<1>8. OnceInv
  BY <1>6 DEF OnceInv
<1>9. WaitInv
  <2>1. \A u \in Tp : u \in Items /\ u \notin Gnbs
    BY PipelineOK, StageNames
  <2> QED
    BY <1>6, <2>1 DEF WaitInv
<1>10. IdleInv
  <2>1. \A s \in Stages : loop[s] \in {"off", "await"} => s # "n2"
    BY <1>2
  <2>2. \A s \in Stages : loop[s] \in {"off", "await"} => \A i \in Items : queue[s][i] = 0
    BY <1>5, <2>1
  <2>3. \A s \in Stages : held[s] = None /\ flight[s] = {}
    BY <1>1
  <2> QED
    BY <2>2, <2>3 DEF IdleInv
<1>11. PhaseInv
  BY <1>1, <1>2 DEF PhaseInv
<1>12. CycleInv
  BY <1>1 DEF CycleInv
<1> QED
  BY <1>4, <1>7, <1>8, <1>9, <1>10, <1>11, <1>12 DEF OneInv, LoopInv

\* The steps that put an item where it was not.
Moves ==
    \/ \E g \in Gnbs : N2Up(g)
    \/ \E u \in Ues : RegAccepted(u)
    \/ CpLoopStarts
    \/ DeregisterAll

LEMMA LoopStep == OneInv /\ [Next]_vars => LoopInv' /\ (NoMore \/ Moves)
<1> SUFFICES ASSUME OneInv, [Next]_vars PROVE LoopInv' /\ (NoMore \/ Moves)
  OBVIOUS
<1>1. LoopInv /\ CycleInv
  BY DEF OneInv
<1>2. \A u \in Ues : u \in Items
  BY StageNames
<1>3. \A g \in Gnbs : g \in Items
  BY StageNames
<1>4. ASSUME NEW s \in Stages, Dispatcher(s) PROVE LoopInv' /\ (NoMore \/ Moves)
  <2>1. CASE Pop(s)
    BY <1>1, <2>1, PopKeeps
  <2>2. CASE LoopEnds(s)
    BY <1>1, <2>2, LoopEndsKeeps
  <2>3. CASE LoopReturns(s)
    BY <1>1, <2>3, LoopReturnsKeeps
  <2>4. CASE BeginAttempt(s)
    BY <1>1, <2>4, DispatchKeeps DEF BeginAttempt
  <2>5. CASE CpLoopStarts
    BY <1>1, <2>5, CpLoopStartsKeeps DEF Moves
  <2>6. CASE BeginCycle
    BY <1>1, <2>6, DispatchKeeps, StageNames DEF BeginCycle
  <2>7. CASE SkipCycle
    BY <1>1, <2>7, SkipCycleKeeps
  <2>8. CASE BeginDeregistration
    BY <1>1, <2>8, DispatchKeeps, StageNames DEF BeginDeregistration
  <2> QED
    BY <1>4, <2>1, <2>2, <2>3, <2>4, <2>5, <2>6, <2>7, <2>8 DEF Dispatcher
<1>5. ASSUME NEW s \in Stages, NEW i \in Items, Retry(s, i) PROVE LoopInv' /\ (NoMore \/ Moves)
  <2>1. EndsQueued(s, i)
    BY <1>5 DEF Retry, EndsQueued
  <2> QED
    BY <1>1, <2>1, EndsQueuedKeeps
<1>6. ASSUME NEW g \in Gnbs, GnbAttemptEnds(g) PROVE LoopInv' /\ (NoMore \/ Moves)
  <2>1. CASE N2Up(g)
    BY <1>1, <2>1, N2UpKeeps DEF Moves
  <2>2. CASE N2Fails(g)
    <3>1. Ends("n2", g)
      BY <2>2 DEF N2Fails, Ends
    <3> QED
      BY <1>1, <1>3, <3>1, EndsKeeps, StageNames
  <2> QED
    BY <1>3, <1>5, <1>6, <2>1, <2>2, StageNames DEF GnbAttemptEnds
<1>7. ASSUME NEW u \in Ues, CpRegisters(u) \/ CpHolds(u) \/ CpDeregisters(u) PROVE LoopInv' /\ (NoMore \/ Moves)
  <2>1. u \in flight["cp"]
    BY <1>1, <1>7 DEF CycleInv, CpRegisters, CpHolds, CpDeregisters
  <2>2. Ends("cp", u) \/ EndsQueued("cp", u) \/ UNCHANGED <<phase, loop, held, queue, flight>>
    <3>1. CASE CpRegisters(u)
      BY <2>1, <3>1 DEF CpRegisters, Idle, Ends, EndsQueued
    <3>2. CASE CpHolds(u)
      BY <2>1, <3>2 DEF CpHolds, Ends, EndsQueued
    <3>3. CASE CpDeregisters(u)
      BY <2>1, <3>3 DEF CpDeregisters, Idle, Ends, EndsQueued
    <3> QED
      BY <1>7, <3>1, <3>2, <3>3
  <2> QED
    BY <1>1, <1>2, <2>2, EndsKeeps, EndsQueuedKeeps, StandingKeeps, StageNames
<1>8. ASSUME NEW u \in Ues, UeAttemptEnds(u) PROVE LoopInv' /\ (NoMore \/ Moves)
  <2>1. CASE RegAccepted(u)
    BY <1>1, <2>1, RegAcceptedKeeps DEF Moves
  <2>2. CASE RegFails(u)
    <3>1. Ends("reg", u)
      BY <2>2 DEF RegFails, Ends
    <3> QED
      BY <1>1, <1>2, <3>1, EndsKeeps, StageNames
  <2>3. CASE PduAccepted(u) \/ PduFails(u)
    <3>1. Ends("pdu", u)
      BY <2>3 DEF PduAccepted, PduFails, Ends
    <3> QED
      BY <1>1, <1>2, <3>1, EndsKeeps, StageNames
  <2>4. CASE DeregAccepted(u) \/ DeregAborted(u) \/ DeregFails(u)
    <3>1. Ends("dereg", u)
      BY <2>4 DEF DeregAccepted, DeregAborted, DeregFails, Deregistered, Ends
    <3> QED
      BY <1>1, <1>2, <3>1, EndsKeeps, StageNames
  <2>5. CASE DeregRetry(u)
    <3>1. EndsQueued("dereg", u)
      BY <2>5 DEF DeregRetry, EndsQueued
    <3> QED
      BY <1>1, <1>2, <3>1, EndsQueuedKeeps, StageNames
  <2> QED
    BY <1>2, <1>5, <1>7, <1>8, <2>1, <2>2, <2>3, <2>4, <2>5, StageNames DEF UeAttemptEnds
<1>9. CASE Execute
  <2>1. CASE N2Done
    BY <1>1, <2>1, N2DoneKeeps
  <2>2. CASE Stopping \/ Stopped
    BY <1>1, <2>2, StandingKeeps DEF Stopping, Stopped, loopVars
  <2>3. CASE SkipUnfinished
    BY <1>1, <2>3, SkipUnfinishedKeeps
  <2>4. CASE DeregisterAll
    BY <1>1, <2>4, DeregisterAllKeeps DEF Moves
  <2>5. CASE DeregisterDone
    BY <1>1, <2>5, DeregisterDoneKeeps
  <2>6. CASE \E g \in Gnbs : CloseTake(g) \/ CloseEnds(g)
    BY <1>1, <2>6, StandingKeeps DEF CloseTake, CloseEnds, loopVars
  <2> QED
    BY <1>9, <2>1, <2>2, <2>3, <2>4, <2>5, <2>6 DEF Execute
<1>10. CASE Stop \/ Abort \/ (\E g \in Gnbs : AssociationEnds(g) \/ Watcher(g)) \/ UNCHANGED vars
  <2>1. UNCHANGED <<phase, loop, held, queue, flight>>
    BY <1>10 DEF Stop, Abort, AssociationEnds, Watcher, WatchCheck, WatchTake, WatchClose, loopVars, vars
  <2> QED
    BY <1>1, <2>1, StandingKeeps
<1> QED
  BY <1>4, <1>6, <1>8, <1>9, <1>10 DEF Next

LEMMA CycleStep == OneInv /\ [Next]_vars => CycleInv'
<1> SUFFICES ASSUME OneInv, [Next]_vars PROVE CycleInv'
  OBVIOUS
<1>1. LoopTypes /\ CycleInv /\ "cp" \in Stages
  BY StageNames DEF OneInv, LoopInv
<1>2. flight \in [Stages -> SUBSET Items] /\ step \in [Ues -> {"idle", "register", "hold", "deregister"}]
  BY <1>1 DEF LoopTypes, CycleInv
<1>3. ASSUME UNCHANGED step, flight["cp"] \subseteq flight'["cp"] PROVE CycleInv'
  BY <1>1, <1>3 DEF CycleInv
<1>4. ASSUME NEW s \in Stages \ {"cp"}, NEW i, Leave(s, i), UNCHANGED step PROVE CycleInv'
  BY <1>1, <1>2, <1>3, <1>4 DEF Leave
<1>5. ASSUME NEW s \in Stages, Dispatch(s) PROVE flight["cp"] \subseteq flight'["cp"]
  BY <1>1, <1>2, <1>5 DEF Dispatch
<1>6. ASSUME NEW s \in Stages, Dispatcher(s) PROVE CycleInv'
  <2>1. CASE Pop(s) \/ LoopEnds(s) \/ LoopReturns(s) \/ CpLoopStarts \/ SkipCycle
    BY <1>3, <2>1 DEF Pop, LoopEnds, LoopReturns, CpLoopStarts, SkipCycle, ueVars
  <2>2. CASE BeginAttempt(s)
    BY <1>3, <1>5, <2>2 DEF BeginAttempt
  <2>3. CASE BeginDeregistration
    BY <1>3, <1>5, <2>3, StageNames DEF BeginDeregistration
  <2>4. CASE BeginCycle
    <3>1. flight' = [flight EXCEPT !["cp"] = @ \cup {held["cp"]}]
      BY <2>4 DEF BeginCycle, Dispatch
    <3>2. step' = [step EXCEPT ![held["cp"]] = "register"]
      BY <2>4 DEF BeginCycle
    <3> QED
      BY <1>1, <1>2, <3>1, <3>2 DEF CycleInv
  <2> QED
    BY <1>6, <2>1, <2>2, <2>3, <2>4 DEF Dispatcher
<1>7. ASSUME NEW u \in Ues, CpRegisters(u) \/ CpHolds(u) \/ CpDeregisters(u) PROVE CycleInv'
  <2>1. u \in flight["cp"]
    BY <1>1, <1>7 DEF CycleInv, CpRegisters, CpHolds, CpDeregisters
  <2>2. \/ UNCHANGED flight /\ \E a \in {"hold", "deregister"} : step' = [step EXCEPT ![u] = a]
        \/ Leave("cp", u) /\ step' = [step EXCEPT ![u] = "idle"]
    <3>1. CASE CpRegisters(u)
      BY <3>1 DEF CpRegisters, Idle
    <3>2. CASE CpHolds(u)
      BY <3>2 DEF CpHolds
    <3>3. CASE CpDeregisters(u)
      BY <3>3 DEF CpDeregisters, Idle
    <3> QED
      BY <1>7, <3>1, <3>2, <3>3
  <2> QED
    BY <1>1, <1>2, <2>1, <2>2 DEF CycleInv, Leave
<1>8. ASSUME NEW g \in Gnbs, GnbAttemptEnds(g) PROVE CycleInv'
  <2>1. Leave("n2", g) /\ UNCHANGED step
    BY <1>8 DEF GnbAttemptEnds, N2Up, N2Fails, Retry, ueVars
  <2> QED
    BY <1>4, <2>1, StageNames
<1>9. ASSUME NEW u \in Ues, UeAttemptEnds(u) PROVE CycleInv'
  <2>1. CASE RegAccepted(u) \/ RegFails(u) \/ Retry("reg", u)
    <3>1. Leave("reg", u) /\ UNCHANGED step
      BY <2>1 DEF RegAccepted, RegFails, Retry
    <3> QED
      BY <1>4, <3>1, StageNames
  <2>2. CASE PduAccepted(u) \/ PduFails(u) \/ Retry("pdu", u)
    <3>1. Leave("pdu", u) /\ UNCHANGED step
      BY <2>2 DEF PduAccepted, PduFails, Retry
    <3> QED
      BY <1>4, <3>1, StageNames
  <2>3. CASE DeregAccepted(u) \/ DeregAborted(u) \/ DeregFails(u) \/ DeregRetry(u)
    <3>1. Leave("dereg", u) /\ UNCHANGED step
      BY <2>3 DEF DeregAccepted, DeregAborted, DeregFails, DeregRetry, Deregistered
    <3> QED
      BY <1>4, <3>1, StageNames
  <2> QED
    BY <1>7, <1>9, <2>1, <2>2, <2>3 DEF UeAttemptEnds
<1>10. CASE Execute \/ Stop \/ Abort \/ (\E g \in Gnbs : AssociationEnds(g) \/ Watcher(g)) \/ UNCHANGED vars
  <2>1. UNCHANGED <<step, flight>>
    <3>1. CASE Execute
      BY <3>1 DEF Execute, N2Done, Stopping, SkipUnfinished, DeregisterAll, DeregisterDone, CloseTake, CloseEnds,
                  Stopped, loopVars, ueVars
    <3>2. CASE Stop \/ Abort \/ (\E g \in Gnbs : AssociationEnds(g) \/ Watcher(g)) \/ UNCHANGED vars
      BY <3>2 DEF Stop, Abort, AssociationEnds, Watcher, WatchCheck, WatchTake, WatchClose, loopVars, ueVars, vars
    <3> QED
      BY <1>10, <3>1, <3>2
  <2> QED
    BY <1>3, <2>1
<1> QED
  BY <1>6, <1>8, <1>9, <1>10 DEF Next

LEMMA OneStep == OneInv /\ [Next]_vars => OneInv'
BY LoopStep, CycleStep DEF OneInv

\* No gNB or UE is queued twice, held twice or attempted twice, in one stage or in two: a
\* UE's nas and link belong to one attempt at a time, whatever retries and hand-overs a
\* Stop cuts through.
THEOREM OnePlaceAlways == Spec => []OnePlace
<1>1. Init => OneInv
  BY OneInit
<1>2. OneInv /\ [Next]_vars => OneInv'
  BY OneStep
<1>3. OneInv => OnePlace
  <2> SUFFICES ASSUME OneInv, NEW i \in Items PROVE Places(i) <= 1
    BY DEF OnePlace
  <2> DEFINE a == AtStage("n2", i)
             b == AtStage("reg", i)
             c == AtStage("pdu", i)
             d == AtStage("cp", i)
             e == AtStage("dereg", i)
  <2>1. a \in Nat /\ b \in Nat /\ c \in Nat /\ d \in Nat /\ e \in Nat
    BY PlaceNat, StageNames DEF OneInv, LoopInv
  <2>2. a <= 1 /\ b <= 1 /\ c <= 1 /\ d <= 1 /\ e <= 1
    BY StageNames DEF OneInv, LoopInv, OnceInv
  <2>3. /\ a = 0 \/ b = 0
        /\ a = 0 \/ c = 0
        /\ a = 0 \/ d = 0
        /\ a = 0 \/ e = 0
        /\ b = 0 \/ c = 0
        /\ b = 0 \/ d = 0
        /\ b = 0 \/ e = 0
        /\ c = 0 \/ d = 0
        /\ c = 0 \/ e = 0
        /\ d = 0 \/ e = 0
    BY StageNames DEF OneInv, LoopInv, OnceInv
  <2>4. Places(i) = a + b + c + d + e
    BY DEF Places
  <2> HIDE DEF a, b, c, d, e
  <2> QED
    BY <2>1, <2>2, <2>3, <2>4
<1> QED
  BY <1>1, <1>2, <1>3, PTL DEF Spec

-----------------------------------------------------------------------------
(* What a run leaves behind. *)

\* The gNB or UE of an attempt that has just ended or is about to begin is the stage's.
LEMMA AttemptsKind ==
    ASSUME LoopInv, NEW s \in Stages, NEW i \in Items, i \in flight[s] \/ held[s] = i
    PROVE  i \in ItemsOf(s) /\ AtStage(s, i) > 0
<1>1. queue[s][i] \in Nat
  BY PlaceNat DEF LoopInv
<1>2. AtStage(s, i) > 0
  BY <1>1 DEF AtStage
<1> QED
  BY <1>2 DEF LoopInv, KindsInv

\* A dispatcher with an attempt is still there.
LEMMA AttemptsLoop ==
    ASSUME LoopInv, NEW s \in Stages, flight[s] # {} \/ held[s] # None
    PROVE  loop[s] \in {"loop", "wait"}
BY DEF LoopInv, LoopTypes, IdleInv

-----------------------------------------------------------------------------
(* The associations. *)

ConnsInv ==
    /\ conn \in [Gnbs -> BOOLEAN] /\ open \in [Gnbs -> BOOLEAN]
    /\ watch \in [Gnbs -> {"none", "read", "ended", "take", "close", "done"}]
    /\ rel \in [Gnbs -> {"todo", "closing", "done"}]
    /\ \A g \in Gnbs :
         /\ open[g] => conn[g] \/ watch[g] = "close" \/ rel[g] = "closing"
         /\ rel[g] # "todo" => phase \in {"close", "stopped"} /\ ~conn[g]
         /\ phase = "stopped" => rel[g] = "done"

LEMMA ConnsInit == Init => ConnsInv
BY DEF Init, ConnsInv

LEMMA ConnsStep == OneInv /\ ConnsInv /\ [Next]_vars => ConnsInv'
<1> SUFFICES ASSUME OneInv, ConnsInv, [Next]_vars PROVE ConnsInv'
  OBVIOUS
<1>1. LoopInv
  BY DEF OneInv
<1>2. ASSUME UNCHANGED gnbVars, \/ UNCHANGED phase
                                \/ phase \notin {"close", "stopped"} /\ phase' # "stopped"
                                \/ Stopped
      PROVE  ConnsInv'
  BY <1>2 DEF ConnsInv, Stopped, gnbVars
<1>3. ASSUME UNCHANGED <<conn, open, watch, rel, phase>> PROVE ConnsInv'
  BY <1>3 DEF ConnsInv
<1>4. ASSUME NEW g \in Gnbs, GnbAttemptEnds(g) PROVE ConnsInv'
  <2>1. CASE N2Up(g)
    <3>1. loop["n2"] \in {"loop", "wait"}
      BY <2>1, <1>1, AttemptsLoop, StageNames DEF N2Up
    <3>2. phase = "n2"
      BY <3>1, <1>1 DEF LoopInv, PhaseInv
    <3>3. /\ conn' = [conn EXCEPT ![g] = TRUE] /\ open' = [open EXCEPT ![g] = TRUE]
          /\ watch' = [watch EXCEPT ![g] = "read"] /\ UNCHANGED <<rel, phase>>
      BY <2>1 DEF N2Up
    <3> QED
      BY <3>2, <3>3 DEF ConnsInv
  <2>2. CASE N2Fails(g) \/ Retry("n2", g)
    BY <1>3, <2>2 DEF N2Fails, Retry
  <2> QED
    BY <1>4, <2>1, <2>2 DEF GnbAttemptEnds
<1>5. ASSUME NEW g \in Gnbs, AssociationEnds(g) \/ Watcher(g) PROVE ConnsInv'
  <2>1. CASE AssociationEnds(g) \/ WatchCheck(g)
    <3>1. \E w \in {"ended", "done", "take"} : watch' = [watch EXCEPT ![g] = w]
      BY <2>1 DEF AssociationEnds, WatchCheck
    <3>2. watch[g] # "close" /\ UNCHANGED <<conn, open, rel, phase>>
      BY <2>1 DEF AssociationEnds, WatchCheck
    <3> QED
      BY <3>1, <3>2 DEF ConnsInv
  <2>2. CASE WatchTake(g)
    BY <2>2 DEF WatchTake, ConnsInv
  <2>3. CASE WatchClose(g)
    BY <2>3 DEF WatchClose, ConnsInv
  <2> QED
    BY <1>5, <2>1, <2>2, <2>3 DEF Watcher
<1>6. CASE Execute
  <2>1. CASE N2Done \/ Stopping \/ SkipUnfinished \/ DeregisterAll \/ DeregisterDone
    BY <1>2, <2>1 DEF N2Done, Stopping, SkipUnfinished, DeregisterAll, DeregisterDone
  <2>2. CASE Stopped
    BY <1>2, <2>2 DEF Stopped
  <2>3. ASSUME NEW g \in Gnbs, CloseTake(g) PROVE ConnsInv'
    <3>1. /\ phase = "close" /\ conn' = [conn EXCEPT ![g] = FALSE]
          /\ rel' = [rel EXCEPT ![g] = IF conn[g] THEN "closing" ELSE "done"]
          /\ rel[g] = "todo" /\ UNCHANGED <<open, watch, phase>>
      BY <2>3 DEF CloseTake
    <3> QED
      BY <3>1 DEF ConnsInv
  <2>4. ASSUME NEW g \in Gnbs, CloseEnds(g) PROVE ConnsInv'
    <3>1. /\ rel[g] = "closing" /\ rel' = [rel EXCEPT ![g] = "done"]
          /\ open' = [open EXCEPT ![g] = FALSE] /\ UNCHANGED <<conn, watch, phase>>
      BY <2>4 DEF CloseEnds
    <3> QED
      BY <3>1 DEF ConnsInv
  <2> QED
    BY <1>6, <2>1, <2>2, <2>3, <2>4 DEF Execute
<1>7. ASSUME NEW s \in Stages, Dispatcher(s) PROVE ConnsInv'
  BY <1>3, <1>7 DEF Dispatcher, Pop, LoopEnds, LoopReturns, BeginAttempt, BeginCycle, BeginDeregistration,
                    SkipCycle, CpLoopStarts, Dispatch, gnbVars
<1>8. ASSUME NEW u \in Ues, UeAttemptEnds(u) PROVE ConnsInv'
  <2>1. CASE RegAccepted(u) \/ RegFails(u) \/ Retry("reg", u) \/ PduAccepted(u) \/ PduFails(u) \/ Retry("pdu", u)
    BY <1>3, <2>1 DEF RegAccepted, RegFails, PduAccepted, PduFails, Retry, gnbVars
  <2>2. CASE CpRegisters(u) \/ CpHolds(u) \/ CpDeregisters(u)
    BY <1>3, <2>2 DEF CpRegisters, CpHolds, CpDeregisters, gnbVars
  <2>3. CASE DeregAccepted(u) \/ DeregAborted(u) \/ DeregFails(u) \/ DeregRetry(u)
    BY <1>3, <2>3 DEF DeregAccepted, DeregAborted, DeregFails, DeregRetry, Deregistered, gnbVars
  <2> QED
    BY <1>8, <2>1, <2>2, <2>3 DEF UeAttemptEnds
<1>9. CASE Stop \/ Abort \/ UNCHANGED vars
  BY <1>3, <1>9 DEF Stop, Abort, vars, gnbVars
<1> QED
  BY <1>4, <1>5, <1>6, <1>7, <1>8, <1>9 DEF Next

\* A stopped run leaves no association open but one its watcher has taken and is just
\* closing: closeConns and watchAssociation each take a connection at most once, and
\* between them they take all.
THEOREM ConnsClosedAlways == Spec => []ConnsClosed
<1>1. Init => OneInv /\ ConnsInv
  BY OneInit, ConnsInit
<1>2. OneInv /\ ConnsInv /\ [Next]_vars => (OneInv /\ ConnsInv)'
  BY OneStep, ConnsStep
<1>3. ConnsInv => ConnsClosed
  BY DEF ConnsInv, ConnsClosed
<1> QED
  BY <1>1, <1>2, <1>3, PTL DEF Spec

-----------------------------------------------------------------------------
(* The control-plane cycles wait for the load. *)

Unfinished == { u \in Tp : ~pduDone[u] }
Active     == {"registering", "registered", "deregistering"}
Late       == {"skipped", "deregister", "close", "stopped"}

LoadTypes ==
    /\ left \in [n2 : Int, tp : Int, dereg : Int]
    /\ pduDone \in [Ues -> BOOLEAN]
    /\ uSt \in [Ues -> UeStates]

LoadInv ==
    /\ LoadTypes
    /\ left.tp = Cardinality(Unfinished)
    /\ loop["cp"] \in {"loop", "wait"} => left.tp = 0
    /\ phase \in Late => left.tp = 0
    /\ \A u \in Cp : uSt[u] \in Active => left.tp = 0

LEMMA UnfinishedFinite == IsFiniteSet(Unfinished) /\ Cardinality(Unfinished) \in Nat
<1>1. IsFiniteSet(Tp)
  BY PipelineOK, StageNames, FS_Subset
<1>2. Unfinished \in SUBSET Tp
  BY DEF Unfinished
<1>3. IsFiniteSet(Unfinished)
  BY <1>1, <1>2, FS_Subset
<1> QED
  BY <1>3, FS_CardinalityType

\* No UE is marked: neither count changes.
SameLoad == UNCHANGED pduDone /\ left'.tp = left.tp

\* The UEs of S are marked, and those that were not yet are counted off.
Marks(S) ==
    /\ pduDone' = [u \in Ues |-> pduDone[u] \/ u \in S]
    /\ left'.tp = left.tp - Cardinality({ u \in S : ~pduDone[u] })

LEMMA LoadCounted ==
    ASSUME LoadInv, SameLoad \/ \E S \in SUBSET Tp : Marks(S)
    PROVE  left'.tp = Cardinality(Unfinished)' /\ left'.tp <= left.tp
<1>1. left.tp = Cardinality(Unfinished) /\ Cardinality(Unfinished) \in Nat
  BY UnfinishedFinite DEF LoadInv
<1>2. CASE SameLoad
  <2>1. Unfinished' = Unfinished
    BY <1>2 DEF SameLoad, Unfinished
  <2> QED
    BY <1>1, <1>2, <2>1 DEF SameLoad
<1>3. ASSUME NEW S \in SUBSET Tp, Marks(S)
      PROVE  left'.tp = Cardinality(Unfinished)' /\ left'.tp <= left.tp
  <2> DEFINE M == { u \in S : ~pduDone[u] }
  <2>1. Unfinished' = Unfinished \ M /\ Unfinished \cap M = M
    BY <1>3, StageNames DEF Marks, Unfinished
  <2>2. Cardinality(Unfinished \ M) = Cardinality(Unfinished) - Cardinality(M)
    BY <2>1, UnfinishedFinite, FS_Difference
  <2>3. M \in SUBSET Unfinished
    BY DEF Unfinished
  <2>4. Cardinality(M) \in Nat
    BY <2>3, UnfinishedFinite, FS_Subset, FS_CardinalityType
  <2>5. left'.tp = left.tp - Cardinality(M)
    BY <1>3 DEF Marks
  <2> HIDE DEF M
  <2> QED
    BY <1>1, <2>1, <2>2, <2>4, <2>5
<1> QED
  BY <1>2, <1>3

\* Once the load is counted off it stays so.
LEMMA LoadKeeps ==
    ASSUME LoadInv, LoadTypes', SameLoad \/ \E S \in SUBSET Tp : Marks(S),
           loop'["cp"] \in {"loop", "wait"} => loop["cp"] \in {"loop", "wait"} \/ left.tp = 0,
           phase' \in Late => phase \in Late \/ left'.tp = 0,
           \A u \in Cp : uSt'[u] \in Active => uSt[u] \in Active \/ left.tp = 0
    PROVE  LoadInv'
<1>1. left'.tp = Cardinality(Unfinished)' /\ left'.tp <= left.tp
  BY LoadCounted
<1>2. left.tp \in Nat /\ Cardinality(Unfinished)' \in Nat
  <2>1. IsFiniteSet(Unfinished)' /\ Cardinality(Unfinished)' \in Nat
    <3>1. IsFiniteSet(Tp) /\ Unfinished' \in SUBSET Tp
      BY PipelineOK, StageNames, FS_Subset DEF Unfinished
    <3>2. IsFiniteSet(Unfinished')
      BY <3>1, FS_Subset
    <3> QED
      BY <3>2, FS_CardinalityType
  <2> QED
    BY <2>1, UnfinishedFinite DEF LoadInv
<1>3. left.tp = 0 => left'.tp = 0
  BY <1>1, <1>2
<1> QED
  BY <1>1, <1>3 DEF LoadInv

LEMMA LoadInit == Init => LoadInv
<1> SUFFICES ASSUME Init PROVE LoadInv
  OBVIOUS
<1>1. /\ left = [n2 |-> Cardinality(Gnbs), tp |-> Cardinality(Tp), dereg |-> 0]
      /\ pduDone = [u \in Ues |-> u \in Cp] /\ uSt = [u \in Ues |-> "pending"]
      /\ phase = "n2" /\ loop["cp"] \notin {"loop", "wait"}
  BY StageNames DEF Init
<1>2. Unfinished = Tp
  BY <1>1, PipelineOK, StageNames DEF Unfinished
<1>3. Cardinality(Gnbs) \in Int /\ Cardinality(Tp) \in Int
  <2>1. IsFiniteSet(Gnbs) /\ IsFiniteSet(Tp)
    BY PipelineOK, StageNames, FS_Subset
  <2> QED
    BY <2>1, FS_CardinalityType
<1>4. LoadTypes
  BY <1>1, <1>3 DEF LoadTypes, UeStates
<1> QED
  BY <1>1, <1>2, <1>4, StageNames DEF LoadInv, Late, Active

\* One UE's state changes, to one that is active only if it may be.
LEMMA LoadOneUe ==
    ASSUME LoadInv, NEW u \in Ues, NEW x \in UeStates, uSt' = [uSt EXCEPT ![u] = x],
           u \in Cp /\ x \in Active => uSt[u] \in Active \/ left.tp = 0
    PROVE  /\ uSt' \in [Ues -> UeStates]
           /\ \A v \in Cp : uSt'[v] \in Active => uSt[v] \in Active \/ left.tp = 0
<1>1. uSt \in [Ues -> UeStates]
  BY DEF LoadInv, LoadTypes
<1>2. uSt' \in [Ues -> UeStates] /\ \A v \in Ues : uSt'[v] = IF v = u THEN x ELSE uSt[v]
  BY <1>1
<1> QED
  BY <1>2, StageNames

LEMMA MarkedTypes ==
    ASSUME LoadTypes, NEW S \in SUBSET Tp, PduMarked(S)
    PROVE  /\ left' \in [n2 : Int, tp : Int, dereg : Int] /\ pduDone' \in [Ues -> BOOLEAN]
           /\ Marks(S)
<1> DEFINE n == Cardinality({ u \in S : ~pduDone[u] })
<1>1. n \in Nat
  <2>1. { u \in S : ~pduDone[u] } \in SUBSET Tp /\ IsFiniteSet(Tp)
    BY PipelineOK, StageNames, FS_Subset
  <2> QED
    BY <2>1, FS_Subset, FS_CardinalityType
<1>2. left' = [left EXCEPT !.tp = @ - n] /\ pduDone' = [u \in Ues |-> pduDone[u] \/ u \in S]
  BY DEF PduMarked
<1> HIDE DEF n
<1>3. left \in [n2 : Int, tp : Int, dereg : Int] /\ pduDone \in [Ues -> BOOLEAN]
  BY DEF LoadTypes
<1>4. left' \in [n2 : Int, tp : Int, dereg : Int] /\ left'.tp = left.tp - n
  BY <1>1, <1>2, <1>3
<1>5. pduDone' \in [Ues -> BOOLEAN]
  BY <1>2, <1>3
<1> QED
  BY <1>2, <1>4, <1>5 DEF Marks, n

LEMMA LoadDispatcher ==
    ASSUME OneInv, LoadInv, NEW s \in Stages, Dispatcher(s)
    PROVE  LoadInv'
<1>1. LoopInv /\ LoopTypes /\ LoadTypes
  BY DEF OneInv, LoopInv, LoadInv
<1>2. CASE Pop(s) \/ LoopEnds(s) \/ LoopReturns(s)
  <2>1. SameLoad /\ UNCHANGED <<phase, left, pduDone, uSt>>
    BY <1>2 DEF Pop, LoopEnds, LoopReturns, ueVars, SameLoad
  <2>2. loop'["cp"] \in {"loop", "wait"} => loop["cp"] \in {"loop", "wait"}
    BY <1>1, <1>2, StageNames DEF Pop, LoopEnds, LoopReturns, LoopTypes
  <2>3. LoadTypes'
    BY <1>1, <2>1 DEF LoadTypes
  <2> QED
    BY <2>1, <2>2, <2>3, LoadKeeps
<1>3. CASE CpLoopStarts
  <2>1. SameLoad /\ UNCHANGED <<phase, left, pduDone, uSt>>
    BY <1>3 DEF CpLoopStarts, ueVars, SameLoad
  <2>2. loop'["cp"] \in {"loop", "wait"} => left.tp = 0
    BY <1>1, <1>3, StageNames DEF CpLoopStarts, LoopTypes
  <2>3. LoadTypes'
    BY <1>1, <2>1 DEF LoadTypes
  <2> QED
    BY <2>1, <2>2, <2>3, LoadKeeps
<1>4. ASSUME NEW x \in UeStates, NEW u \in Ues, uSt' = [uSt EXCEPT ![u] = x],
             u \in Cp /\ x \in Active => uSt[u] \in Active \/ left.tp = 0,
             UNCHANGED <<phase, loop, left, pduDone>>
      PROVE  LoadInv'
  <2>1. /\ uSt' \in [Ues -> UeStates]
        /\ \A v \in Cp : uSt'[v] \in Active => uSt[v] \in Active \/ left.tp = 0
    BY <1>4, LoadOneUe
  <2>2. LoadTypes' /\ SameLoad
    BY <1>1, <1>4, <2>1 DEF LoadTypes, SameLoad
  <2> QED
    BY <1>4, <2>1, <2>2, LoadKeeps
<1>5. CASE BeginAttempt(s)
  <2>1. /\ held[s] # None /\ UNCHANGED <<phase, loop, left, pduDone>> /\ s \in {"n2", "reg", "pdu"}
        /\ s = "n2" => UNCHANGED uSt
        /\ s # "n2" => uSt' = [uSt EXCEPT ![held[s]] = IF s = "reg" THEN "registering" ELSE "establishing"]
    BY <1>5 DEF BeginAttempt, Dispatch
  <2>2. CASE s = "n2"
    <3>1. LoadTypes' /\ SameLoad
      BY <1>1, <2>1, <2>2 DEF LoadTypes, SameLoad
    <3> QED
      BY <2>1, <2>2, <3>1, LoadKeeps
  <2>3. CASE s # "n2"
    <3>1. held[s] \in Items
      BY <1>1, <2>1 DEF LoopTypes
    <3>2. held[s] \in Tp
      BY <1>1, <2>1, <2>3, <3>1, AttemptsKind DEF ItemsOf
    <3>3. held[s] \in Ues /\ held[s] \notin Cp
      BY <3>2, PipelineOK, StageNames
    <3> DEFINE x == IF s = "reg" THEN "registering" ELSE "establishing"
    <3>4. x \in UeStates /\ uSt' = [uSt EXCEPT ![held[s]] = x]
      BY <2>1, <2>3 DEF UeStates
    <3> HIDE DEF x
    <3> QED
      BY <1>4, <2>1, <3>3, <3>4
  <2> QED
    BY <2>2, <2>3
<1>6. CASE BeginCycle \/ SkipCycle
  <2>1. /\ held["cp"] # None /\ loop["cp"] = "loop" /\ UNCHANGED <<phase, loop, left, pduDone>>
        /\ \E x \in {"registering", "skipped"} : uSt' = [uSt EXCEPT ![held["cp"]] = x]
    BY <1>6 DEF BeginCycle, SkipCycle, Dispatch
  <2>2. held["cp"] \in Items
    BY <1>1, <2>1, StageNames DEF LoopTypes
  <2>3. held["cp"] \in Cp
    BY <1>1, <2>2, AttemptsKind, StageNames DEF ItemsOf
  <2>4. left.tp = 0
    BY <2>1 DEF LoadInv
  <2> QED
    BY <1>4, <2>1, <2>3, <2>4, StageNames DEF UeStates
<1>7. CASE BeginDeregistration
  <2>1. /\ held["dereg"] # None /\ loop["dereg"] = "loop" /\ UNCHANGED <<phase, loop, left, pduDone>>
        /\ uSt' = [uSt EXCEPT ![held["dereg"]] = IF @ = "failed" THEN @ ELSE "deregistering"]
    BY <1>7 DEF BeginDeregistration, Dispatch, CleanupState
  <2>2. held["dereg"] \in Items
    BY <1>1, <2>1, StageNames DEF LoopTypes
  <2>3. held["dereg"] \in Ues
    BY <1>1, <2>2, AttemptsKind, StageNames DEF ItemsOf
  <2>4. phase \in Late
    BY <1>1, <2>1 DEF LoopInv, PhaseInv, LoopTypes, Phases, Late
  <2>5. left.tp = 0
    BY <2>4 DEF LoadInv
  <2>6. \E x \in {"failed", "deregistering"} : uSt' = [uSt EXCEPT ![held["dereg"]] = x]
    BY <2>1
  <2> QED
    BY <1>4, <2>1, <2>3, <2>5, <2>6 DEF UeStates
<1> QED
  BY <1>2, <1>3, <1>5, <1>6, <1>7 DEF Dispatcher

LEMMA LoadAttempt ==
    ASSUME OneInv, LoadInv, NEW u \in Ues, UeAttemptEnds(u)
    PROVE  LoadInv'
<1>1. LoopInv /\ LoopTypes /\ LoadTypes /\ CycleInv /\ u \in Items
  BY StageNames DEF OneInv, LoopInv, LoadInv
<1>2. ASSUME NEW x \in UeStates, uSt' = [uSt EXCEPT ![u] = x],
             u \in Cp /\ x \in Active => uSt[u] \in Active \/ left.tp = 0,
             UNCHANGED <<phase, loop>>, SameLoad \/ \E S \in SUBSET Tp : Marks(S),
             left' \in [n2 : Int, tp : Int, dereg : Int], pduDone' \in [Ues -> BOOLEAN]
      PROVE  LoadInv'
  <2>1. /\ uSt' \in [Ues -> UeStates]
        /\ \A v \in Cp : uSt'[v] \in Active => uSt[v] \in Active \/ left.tp = 0
    BY <1>2, LoadOneUe
  <2>2. LoadTypes'
    BY <1>2, <2>1 DEF LoadTypes
  <2> QED
    BY <1>2, <2>1, <2>2, LoadKeeps
<1>3. ASSUME UNCHANGED <<left, pduDone>>
      PROVE  SameLoad /\ left' \in [n2 : Int, tp : Int, dereg : Int] /\ pduDone' \in [Ues -> BOOLEAN]
  BY <1>1, <1>3 DEF SameLoad, LoadTypes
<1>4. CASE u \in flight["reg"] \/ u \in flight["pdu"]
  <2>1. u \in Tp /\ u \notin Cp
    BY <1>1, <1>4, AttemptsKind, StageNames, PipelineOK DEF ItemsOf
  <2>2. CASE RegAccepted(u) \/ Retry("reg", u) \/ Retry("pdu", u)
    <3>1. UNCHANGED <<phase, loop, left, pduDone>>
      BY <2>2 DEF RegAccepted, Retry
    <3>2. \E x \in {"registered", "pending"} : uSt' = [uSt EXCEPT ![u] = x]
      BY <2>2 DEF RegAccepted, Retry
    <3> QED
      BY <1>2, <1>3, <2>1, <3>1, <3>2 DEF UeStates
  <2>3. CASE RegFails(u) \/ PduAccepted(u) \/ PduFails(u)
    <3>1. PduMarked({u}) /\ UNCHANGED <<phase, loop>>
      BY <2>3 DEF RegFails, PduAccepted, PduFails
    <3>2. \E x \in {"failed", "established"} : uSt' = [uSt EXCEPT ![u] = x]
      BY <2>3 DEF RegFails, PduAccepted, PduFails
    <3>3. /\ left' \in [n2 : Int, tp : Int, dereg : Int] /\ pduDone' \in [Ues -> BOOLEAN]
          /\ \E S \in SUBSET Tp : Marks(S)
      BY <1>1, <2>1, <3>1, MarkedTypes
    <3> QED
      BY <1>2, <2>1, <3>1, <3>2, <3>3 DEF UeStates
  <2>4. CASE DeregAccepted(u) \/ DeregAborted(u) \/ DeregFails(u) \/ DeregRetry(u)
    <3>1. AtStage("dereg", u) > 0
      BY <1>1, <2>4, AttemptsKind, StageNames DEF DeregAccepted, DeregAborted, DeregFails, DeregRetry, Deregistered
    <3>2. AtStage("reg", u) > 0 \/ AtStage("pdu", u) > 0
      BY <1>1, <1>4, AttemptsKind, StageNames
    <3> QED
      BY <1>1, <3>1, <3>2, StageNames DEF LoopInv, OnceInv
  <2>5. CASE CpRegisters(u) \/ CpHolds(u) \/ CpDeregisters(u)
    <3>1. u \in flight["cp"]
      BY <1>1, <2>5 DEF CycleInv, CpRegisters, CpHolds, CpDeregisters
    <3>2. u \in Cp
      BY <1>1, <3>1, AttemptsKind, StageNames DEF ItemsOf
    <3> QED
      BY <2>1, <3>2
  <2> QED
    BY <2>2, <2>3, <2>4, <2>5 DEF UeAttemptEnds
<1>5. CASE CpRegisters(u) \/ CpHolds(u) \/ CpDeregisters(u)
  <2>1. u \in flight["cp"]
    BY <1>1, <1>5 DEF CycleInv, CpRegisters, CpHolds, CpDeregisters
  <2>2. left.tp = 0
    BY <1>1, <2>1, AttemptsLoop, StageNames DEF LoadInv
  <2>3. UNCHANGED <<phase, loop, left, pduDone>>
    BY <1>5 DEF CpRegisters, CpHolds, CpDeregisters
  <2>4. \/ UNCHANGED uSt
        \/ \E x \in {"registered", "pending", "deregistering"} : uSt' = [uSt EXCEPT ![u] = x]
    BY <1>5 DEF CpRegisters, CpHolds, CpDeregisters, Idle
  <2>5. CASE UNCHANGED uSt
    <3>1. LoadTypes'
      BY <1>1, <2>3, <2>5 DEF LoadTypes
    <3> QED
      BY <1>3, <2>3, <2>5, <3>1, LoadKeeps
  <2> QED
    BY <1>2, <1>3, <2>2, <2>3, <2>4, <2>5 DEF UeStates
<1>6. CASE DeregRetry(u)
  <2>1. UNCHANGED <<phase, loop, left, pduDone, uSt>>
    BY <1>6 DEF DeregRetry
  <2>2. LoadTypes'
    BY <1>1, <2>1 DEF LoadTypes
  <2> QED
    BY <1>3, <2>1, <2>2, LoadKeeps
<1>7. CASE DeregAccepted(u) \/ DeregAborted(u) \/ DeregFails(u)
  <2>1. UNCHANGED <<phase, loop, pduDone>> /\ left' = [left EXCEPT !.dereg = @ - 1]
    BY <1>7 DEF DeregAccepted, DeregAborted, DeregFails, Deregistered
  <2>2. \E x \in {"failed", "deregistered", "cancelled"} : uSt' = [uSt EXCEPT ![u] = x]
    BY <1>7 DEF DeregAccepted, DeregAborted, DeregFails, CleanupState
  <2>3. SameLoad /\ left' \in [n2 : Int, tp : Int, dereg : Int] /\ pduDone' \in [Ues -> BOOLEAN]
    BY <1>1, <2>1 DEF SameLoad, LoadTypes
  <2> QED
    BY <1>2, <2>1, <2>2, <2>3 DEF UeStates, Active
<1>8. CASE RegAccepted(u) \/ RegFails(u) \/ Retry("reg", u) \/ PduAccepted(u) \/ PduFails(u) \/ Retry("pdu", u)
  BY <1>4, <1>8 DEF RegAccepted, RegFails, PduAccepted, PduFails, Retry
<1> QED
  BY <1>5, <1>6, <1>7, <1>8 DEF UeAttemptEnds

LEMMA LoadGnb ==
    ASSUME OneInv, LoadInv, NEW g \in Gnbs, GnbAttemptEnds(g)
    PROVE  LoadInv'
<1>1. LoadTypes
  BY DEF LoadInv
<1>2. CASE N2Up(g) \/ Retry("n2", g)
  <2>1. /\ UNCHANGED <<phase, loop, pduDone, uSt>>
        /\ left' = left \/ left' = [left EXCEPT !.n2 = @ - 1]
    BY <1>2 DEF N2Up, Retry, ueVars
  <2>2. SameLoad /\ left' \in [n2 : Int, tp : Int, dereg : Int]
    BY <1>1, <2>1 DEF SameLoad, LoadTypes
  <2>3. LoadTypes'
    BY <1>1, <2>1, <2>2 DEF LoadTypes
  <2> QED
    BY <2>1, <2>2, <2>3, LoadKeeps
<1>3. CASE N2Fails(g)
  <2> DEFINE tp == UesOf(g) \cap Tp
             n == Cardinality({ u \in tp : ~pduDone[u] })
  <2>1. /\ UNCHANGED <<phase, loop>>
        /\ pduDone' = [u \in Ues |-> pduDone[u] \/ u \in tp]
        /\ left' = [left EXCEPT !.n2 = @ - 1, !.tp = @ - n]
        /\ uSt' = [u \in Ues |-> IF GnbOf[u] = g THEN "skipped" ELSE uSt[u]]
    BY <1>3 DEF N2Fails
  <2>2. n \in Nat
    <3>1. { u \in tp : ~pduDone[u] } \in SUBSET Tp /\ IsFiniteSet(Tp)
      BY PipelineOK, StageNames, FS_Subset
    <3> QED
      BY <3>1, FS_Subset, FS_CardinalityType
  <2>3. tp \in SUBSET Tp
    OBVIOUS
  <2>4. n = Cardinality({ u \in tp : ~pduDone[u] })
    OBVIOUS
  <2> HIDE DEF n, tp
  <2>5. left \in [n2 : Int, tp : Int, dereg : Int] /\ pduDone \in [Ues -> BOOLEAN] /\ uSt \in [Ues -> UeStates]
    BY <1>1 DEF LoadTypes
  <2>6. left' \in [n2 : Int, tp : Int, dereg : Int] /\ left'.tp = left.tp - n
    <3>1. /\ left = [n2 |-> left.n2, tp |-> left.tp, dereg |-> left.dereg]
          /\ left.n2 \in Int /\ left.tp \in Int /\ left.dereg \in Int
      BY <2>5
    <3>2. left' = [n2 |-> left.n2 - 1, tp |-> left.tp - n, dereg |-> left.dereg]
      BY <2>1, <3>1
    <3> QED
      BY <2>2, <3>1, <3>2
  <2>7. pduDone' \in [Ues -> BOOLEAN]
    BY <2>1, <2>5
  <2>8. uSt' \in [Ues -> UeStates] /\ \A u \in Ues : uSt'[u] = uSt[u] \/ uSt'[u] = "skipped"
    BY <2>1, <2>5 DEF UeStates
  <2>9. Marks(tp)
    BY <2>1, <2>4, <2>6 DEF Marks
  <2>10. LoadTypes'
    BY <2>6, <2>7, <2>8 DEF LoadTypes
  <2>11. \A u \in Cp : uSt'[u] \in Active => uSt[u] \in Active
    BY <2>8, StageNames DEF Active
  <2> QED
    BY <2>1, <2>3, <2>9, <2>10, <2>11, LoadKeeps
<1> QED
  BY <1>2, <1>3 DEF GnbAttemptEnds

LEMMA LoadExecute ==
    ASSUME OneInv, LoadInv, Execute
    PROVE  LoadInv'
<1>1. LoopInv /\ LoopTypes /\ LoadTypes
  BY DEF OneInv, LoopInv, LoadInv
<1>2. CASE Stopping \/ Stopped \/ (\E g \in Gnbs : CloseTake(g) \/ CloseEnds(g))
  <2>1. UNCHANGED <<loop, left, pduDone, uSt>> /\ (phase' \in Late => phase \in Late)
    BY <1>2 DEF Stopping, Stopped, CloseTake, CloseEnds, loopVars, ueVars, Late
  <2>2. SameLoad /\ LoadTypes'
    BY <1>1, <2>1 DEF SameLoad, LoadTypes
  <2> QED
    BY <2>1, <2>2, LoadKeeps
<1>3. CASE N2Done
  <2>1. /\ UNCHANGED <<left, pduDone, uSt>> /\ phase' \notin Late
        /\ loop' = [loop EXCEPT !["cp"] = IF Cp = {} THEN "returned" ELSE "await"]
    BY <1>3 DEF N2Done, ueVars, Late
  <2>2. loop'["cp"] \notin {"loop", "wait"}
    BY <1>1, <2>1, StageNames DEF LoopTypes
  <2>3. SameLoad /\ LoadTypes'
    BY <1>1, <2>1 DEF SameLoad, LoadTypes
  <2> QED
    BY <2>1, <2>2, <2>3, LoadKeeps
<1>4. CASE SkipUnfinished
  <2>1. PduMarked(Unfinished) /\ UNCHANGED loop
    BY <1>4 DEF SkipUnfinished, Unfinished
  <2>2. Unfinished \in SUBSET Tp
    BY DEF Unfinished
  <2>3. /\ left' \in [n2 : Int, tp : Int, dereg : Int] /\ pduDone' \in [Ues -> BOOLEAN]
        /\ Marks(Unfinished)
    BY <1>1, <2>1, <2>2, MarkedTypes
  <2>4. left'.tp = 0
    <3>1. { u \in Unfinished : ~pduDone[u] } = Unfinished
      BY DEF Unfinished
    <3>2. left'.tp = left.tp - Cardinality(Unfinished)
      BY <2>3, <3>1 DEF Marks
    <3>3. left.tp = Cardinality(Unfinished) /\ Cardinality(Unfinished) \in Nat
      BY UnfinishedFinite DEF LoadInv
    <3> QED
      BY <3>2, <3>3
  <2>5. uSt' = [u \in Ues |->
                IF u \in Cp /\ uSt[u] = "pending" /\ cycled[u] THEN "deregistered"
                ELSE IF uSt[u] \in {"pending", "registering", "registered", "establishing"} THEN "cancelled"
                ELSE uSt[u]]
    BY <1>4 DEF SkipUnfinished
  <2>6. /\ uSt' \in [Ues -> UeStates]
        /\ \A u \in Ues : uSt'[u] = uSt[u] \/ uSt'[u] \in {"deregistered", "cancelled"}
    BY <1>1, <2>5 DEF LoadTypes, UeStates
  <2>7. LoadTypes'
    BY <2>3, <2>6 DEF LoadTypes
  <2>8. \A u \in Cp : uSt'[u] \in Active => uSt[u] \in Active
    BY <2>6, StageNames DEF Active
  <2> QED
    BY <2>1, <2>2, <2>3, <2>4, <2>7, <2>8, LoadKeeps
<1>5. CASE DeregisterAll
  <2> DEFINE S == { u \in Ues : CanDeregister(u) }
  <2>1. /\ phase = "skipped" /\ UNCHANGED <<pduDone, uSt>>
        /\ left' = left \/ left' = [left EXCEPT !.dereg = Cardinality(S)]
        /\ loop' = loop \/ loop' = [loop EXCEPT !["dereg"] = "loop"]
    BY <1>5 DEF DeregisterAll, ueVars
  <2>2. Cardinality(S) \in Nat
    <3>1. S \in SUBSET Ues /\ IsFiniteSet(Ues)
      BY PipelineOK, StageNames, FS_Subset
    <3> QED
      BY <3>1, FS_Subset, FS_CardinalityType
  <2> HIDE DEF S
  <2>3. left' \in [n2 : Int, tp : Int, dereg : Int] /\ left'.tp = left.tp
    BY <1>1, <2>1, <2>2 DEF LoadTypes
  <2>4. SameLoad /\ LoadTypes'
    BY <1>1, <2>1, <2>3 DEF SameLoad, LoadTypes
  <2>5. loop'["cp"] = loop["cp"] /\ phase \in Late
    BY <1>1, <2>1, StageNames DEF LoopTypes, Late
  <2> QED
    BY <2>1, <2>4, <2>5, LoadKeeps
<1>6. CASE DeregisterDone
  <2> DEFINE drained == { u \in Ues : queue["dereg"][u] > 0 }
  <2>1. /\ phase = "deregister" /\ UNCHANGED <<loop, left, pduDone>>
        /\ uSt' = [u \in Ues |-> IF u \in drained /\ uSt[u] # "failed" THEN "cancelled" ELSE uSt[u]]
    BY <1>6 DEF DeregisterDone
  <2> HIDE DEF drained
  <2>2. uSt' \in [Ues -> UeStates] /\ \A u \in Ues : uSt'[u] = uSt[u] \/ uSt'[u] = "cancelled"
    BY <1>1, <2>1 DEF LoadTypes, UeStates
  <2>3. SameLoad /\ LoadTypes'
    BY <1>1, <2>1, <2>2 DEF SameLoad, LoadTypes
  <2>4. phase \in Late /\ \A u \in Cp : uSt'[u] \in Active => uSt[u] \in Active
    BY <2>1, <2>2, StageNames DEF Late, Active
  <2> QED
    BY <2>1, <2>3, <2>4, LoadKeeps
<1> QED
  BY <1>2, <1>3, <1>4, <1>5, <1>6 DEF Execute

LEMMA LoadStep == OneInv /\ LoadInv /\ [Next]_vars => LoadInv'
<1> SUFFICES ASSUME OneInv, LoadInv, [Next]_vars PROVE LoadInv'
  OBVIOUS
<1>1. CASE Stop \/ Abort \/ (\E g \in Gnbs : AssociationEnds(g) \/ Watcher(g)) \/ UNCHANGED vars
  <2>1. UNCHANGED <<phase, loop, left, pduDone, uSt>>
    BY <1>1 DEF Stop, Abort, AssociationEnds, Watcher, WatchCheck, WatchTake, WatchClose, loopVars, ueVars, vars
  <2>2. SameLoad /\ LoadTypes'
    BY <2>1 DEF SameLoad, LoadTypes, LoadInv
  <2> QED
    BY <2>1, <2>2, LoadKeeps
<1> QED
  BY <1>1, LoadDispatcher, LoadAttempt, LoadGnb, LoadExecute DEF Next

\* The control-plane cycles start once every throughput UE has its final PDU outcome:
\* tpLeft is always the number of those that have none, whichever way they get it, and
\* no control-plane UE registers while it is not zero.
THEOREM LoadBeforeCyclesAlways == Spec => []LoadBeforeCycles
<1>1. Init => OneInv /\ LoadInv
  BY OneInit, LoadInit
<1>2. OneInv /\ LoadInv /\ [Next]_vars => (OneInv /\ LoadInv)'
  BY OneStep, LoadStep
<1>3. LoadInv => LoadBeforeCycles
  BY DEF LoadInv, LoadBeforeCycles, Unfinished, Active
<1> QED
  BY <1>1, <1>2, <1>3, PTL DEF Spec

-----------------------------------------------------------------------------
(* The failure list. *)

Cleanup == {"deregister", "close", "stopped"}

\* A failed UE is not worked on any more, except by the cleanup.
FailedIsDone(u) ==
    /\ AtStage("reg", u) = 0 /\ AtStage("pdu", u) = 0 /\ AtStage("cp", u) = 0
    /\ phase = "n2" => AtStage("n2", GnbOf[u]) = 0
    /\ u \in Cp => phase \in Cleanup

FailInv ==
    /\ failures \in SUBSET (Ues \X {"registration", "pdu", "deregistration"})
    /\ \A u \in Ues : uSt[u] = "failed" <=> \E f \in failures : f[1] = u
    /\ \A u \in Ues : uSt[u] = "failed" => FailedIsDone(u)

\* The failed UEs are the same, and so is the list.
SameFailed == UNCHANGED failures /\ \A u \in Ues : uSt'[u] = "failed" <=> uSt[u] = "failed"

\* u is failed and listed.
Fails(u) ==
    /\ uSt' = [uSt EXCEPT ![u] = "failed"]
    /\ \E x \in {"registration", "pdu", "deregistration"} : failures' = failures \cup {<<u, x>>}

LEMMA FailInit == Init => FailInv
BY DEF Init, FailInv

Onward ==
    /\ phase' = "n2" => phase = "n2"
    /\ phase \in Cleanup => phase' \in Cleanup
    /\ phase \in {"close", "stopped"} => phase' \in {"close", "stopped"}
    /\ phase \notin Cleanup /\ phase' \in Cleanup => DeregisterAll

PhaseSteps == N2Done \/ Stopping \/ SkipUnfinished \/ DeregisterAll \/ DeregisterDone \/ Stopped

LEMMA PhaseMoves == [Next]_vars => UNCHANGED phase \/ PhaseSteps
<1> SUFFICES ASSUME [Next]_vars PROVE UNCHANGED phase \/ PhaseSteps
  OBVIOUS
<1>1. CASE Execute
  BY <1>1 DEF Execute, CloseTake, CloseEnds, PhaseSteps
<1>2. ASSUME NEW s \in Stages, Dispatcher(s) PROVE UNCHANGED phase
  BY <1>2 DEF Dispatcher, Pop, LoopEnds, LoopReturns, BeginAttempt, BeginCycle, BeginDeregistration, SkipCycle,
              CpLoopStarts, Dispatch
<1>3. ASSUME NEW g \in Gnbs, GnbAttemptEnds(g) \/ AssociationEnds(g) \/ Watcher(g) PROVE UNCHANGED phase
  BY <1>3 DEF GnbAttemptEnds, N2Up, N2Fails, Retry, AssociationEnds, Watcher, WatchCheck, WatchTake, WatchClose
<1>4. ASSUME NEW u \in Ues, UeAttemptEnds(u) PROVE UNCHANGED phase
  <2>1. CASE RegAccepted(u) \/ RegFails(u) \/ Retry("reg", u) \/ PduAccepted(u) \/ PduFails(u) \/ Retry("pdu", u)
    BY <2>1 DEF RegAccepted, RegFails, PduAccepted, PduFails, Retry
  <2>2. CASE CpRegisters(u) \/ CpHolds(u) \/ CpDeregisters(u)
    BY <2>2 DEF CpRegisters, CpHolds, CpDeregisters
  <2>3. CASE DeregAccepted(u) \/ DeregAborted(u) \/ DeregFails(u) \/ DeregRetry(u)
    BY <2>3 DEF DeregAccepted, DeregAborted, DeregFails, DeregRetry, Deregistered
  <2> QED
    BY <1>4, <2>1, <2>2, <2>3 DEF UeAttemptEnds
<1>5. CASE Stop \/ Abort \/ UNCHANGED vars
  BY <1>5 DEF Stop, Abort, vars
<1> QED
  BY <1>1, <1>2, <1>3, <1>4, <1>5 DEF Next

LEMMA PhaseOrder == [Next]_vars => Onward
<1> SUFFICES ASSUME [Next]_vars PROVE Onward
  OBVIOUS
<1>1. UNCHANGED phase \/ PhaseSteps
  BY PhaseMoves
<1> QED
  BY <1>1 DEF Onward, PhaseSteps, N2Done, Stopping, SkipUnfinished, DeregisterAll, DeregisterDone, Stopped, Cleanup

\* A place nothing was added to.
LEMMA NotAdded ==
    ASSUME LoopTypes, NEW s \in Stages, NEW i \in Items, AtStage(s, i) = 0,
           queue'[s][i] = queue[s][i], held'[s] = held[s], flight'[s] \subseteq flight[s]
    PROVE  AtStage(s, i)' = 0
<1>1. queue[s][i] = 0 /\ held[s] # i /\ i \notin flight[s]
  BY PlaceNat
<1> QED
  BY <1>1 DEF AtStage

LEMMA FailedStayDone ==
    ASSUME OneInv, FailInv, [Next]_vars, NEW u \in Ues, uSt[u] = "failed"
    PROVE  FailedIsDone(u)'
<1>1. LoopInv /\ LoopTypes /\ LoopInv' /\ LoopTypes' /\ (NoMore \/ Moves)
  BY LoopStep DEF OneInv, LoopInv
<1>2. FailedIsDone(u)
  BY DEF FailInv
<1>3. (phase' = "n2" => phase = "n2") /\ (phase \in Cleanup => phase' \in Cleanup)
  BY PhaseOrder DEF Onward
<1>4. u \in Items /\ GnbOf[u] \in Gnbs /\ GnbOf[u] \in Items /\ GnbOf[u] # u
  BY PipelineOK, StageNames
<1>5. ASSUME AtStage("reg", u)' = 0, AtStage("pdu", u)' = 0, AtStage("cp", u)' = 0,
             phase = "n2" => AtStage("n2", GnbOf[u])' = 0
      PROVE  FailedIsDone(u)'
  BY <1>2, <1>3, <1>5 DEF FailedIsDone
<1>6. CASE NoMore
  <2>1. \A s \in Stages, i \in Items : AtStage(s, i) = 0 => AtStage(s, i)' = 0
    <3> SUFFICES ASSUME NEW s \in Stages, NEW i \in Items, AtStage(s, i) = 0 PROVE AtStage(s, i)' = 0
      OBVIOUS
    <3>1. AtStage(s, i)' <= 0
      BY <1>6 DEF NoMore
    <3>2. queue'[s][i] \in Nat
      BY <1>1 DEF LoopTypes
    <3> QED
      BY <3>1, <3>2 DEF AtStage
  <2> QED
    BY <1>2, <1>4, <1>5, <2>1, StageNames DEF FailedIsDone
<1>7. ASSUME NEW S, NEW t \in Stages, queue' = Pushed(t, S), UNCHANGED held,
             \A s \in Stages : flight'[s] \subseteq flight[s],
             u \notin S \/ t = "dereg", GnbOf[u] \notin S \/ phase # "n2"
      PROVE  FailedIsDone(u)'
  <2>1. \A s \in Stages, i \in Items : ~(s = t /\ i \in S) => queue'[s][i] = queue[s][i]
    BY <1>1, <1>7, PushedAt
  <2>2. \A s \in {"reg", "pdu", "cp"} : queue'[s][u] = queue[s][u]
    BY <1>4, <1>7, <2>1, StageNames
  <2>3. AtStage("reg", u)' = 0 /\ AtStage("pdu", u)' = 0 /\ AtStage("cp", u)' = 0
    BY <1>1, <1>2, <1>4, <1>7, <2>2, NotAdded, StageNames DEF FailedIsDone
  <2>4. phase = "n2" => AtStage("n2", GnbOf[u])' = 0
    <3> SUFFICES ASSUME phase = "n2" PROVE AtStage("n2", GnbOf[u])' = 0
      OBVIOUS
    <3>1. queue'["n2"][GnbOf[u]] = queue["n2"][GnbOf[u]] /\ AtStage("n2", GnbOf[u]) = 0
      BY <1>2, <1>4, <1>7, <2>1, StageNames DEF FailedIsDone
    <3> QED
      BY <1>1, <1>4, <1>7, <3>1, NotAdded, StageNames
  <2> QED
    BY <1>5, <2>3, <2>4
<1>8. ASSUME NEW g \in Gnbs, N2Up(g) PROVE FailedIsDone(u)'
  <2>1. /\ g \in flight["n2"] /\ queue' = Pushed("reg", UesOf(g) \cap Tp) /\ UNCHANGED held
        /\ flight' = [flight EXCEPT !["n2"] = @ \ {g}]
    BY <1>8 DEF N2Up, Leave
  <2>2. phase = "n2" /\ AtStage("n2", g) > 0
    BY <1>1, <2>1, AttemptsLoop, AttemptsKind, StageNames DEF LoopInv, PhaseInv
  <2>3. GnbOf[u] # g
    BY <1>2, <2>2 DEF FailedIsDone
  <2>4. u \notin UesOf(g) \cap Tp /\ GnbOf[u] \notin UesOf(g) \cap Tp
    BY <1>4, <2>3, PipelineOK DEF UesOf
  <2>5. \A s \in Stages : flight'[s] \subseteq flight[s]
    BY <1>1, <2>1 DEF LoopTypes
  <2> QED
    BY <1>7, <2>1, <2>4, <2>5, StageNames
<1>9. ASSUME NEW v \in Ues, RegAccepted(v) PROVE FailedIsDone(u)'
  <2>1. /\ v \in flight["reg"] /\ queue' = Pushed("pdu", {v}) /\ UNCHANGED held
        /\ flight' = [flight EXCEPT !["reg"] = @ \ {v}]
    BY <1>9 DEF RegAccepted, Leave
  <2>2. AtStage("reg", v) > 0
    BY <1>1, <2>1, AttemptsKind, StageNames
  <2>3. v # u
    BY <1>2, <2>2 DEF FailedIsDone
  <2>4. GnbOf[u] # v
    BY <1>4, PipelineOK
  <2>5. \A s \in Stages : flight'[s] \subseteq flight[s]
    BY <1>1, <2>1 DEF LoopTypes
  <2> QED
    BY <1>7, <2>1, <2>3, <2>4, <2>5, StageNames
<1>10. CASE CpLoopStarts
  <2>1. /\ loop["cp"] = "await" /\ UNCHANGED <<held, flight, phase>>
        /\ queue' = queue \/ queue' = Pushed("cp", { v \in Cp : alive[GnbOf[v]] })
    BY <1>10 DEF CpLoopStarts
  <2>2. phase \notin Cleanup /\ phase # "n2"
    BY <1>1, <2>1 DEF LoopInv, PhaseInv, Cleanup
  <2>3. u \notin Cp
    BY <1>2, <2>2 DEF FailedIsDone
  <2>4. CASE queue' = queue
    <3>1. FailedIsDone(u)' <=> FailedIsDone(u)
      BY <2>1, <2>4 DEF FailedIsDone, AtStage
    <3> QED
      BY <1>2, <3>1
  <2>5. CASE queue' = Pushed("cp", { v \in Cp : alive[GnbOf[v]] })
    BY <1>7, <2>1, <2>2, <2>3, <2>5, StageNames
  <2> QED
    BY <2>1, <2>4, <2>5
<1>11. CASE DeregisterAll
  <2> DEFINE S == { v \in Ues : CanDeregister(v) }
  <2>1. /\ phase = "skipped" /\ UNCHANGED <<held, flight>>
        /\ queue' = queue \/ queue' = Pushed("dereg", S)
    BY <1>11 DEF DeregisterAll
  <2> HIDE DEF S
  <2>2. CASE queue' = queue
    <3>1. AtStage("reg", u)' = AtStage("reg", u) /\ AtStage("pdu", u)' = AtStage("pdu", u)
          /\ AtStage("cp", u)' = AtStage("cp", u)
      BY <2>1, <2>2 DEF AtStage
    <3> QED
      BY <1>2, <1>5, <2>1, <3>1 DEF FailedIsDone
  <2>3. CASE queue' = Pushed("dereg", S)
    BY <1>7, <2>1, <2>3, StageNames
  <2> QED
    BY <2>1, <2>2, <2>3
<1> QED
  BY <1>1, <1>6, <1>8, <1>9, <1>10, <1>11 DEF Moves

LEMMA FailKeeps ==
    ASSUME OneInv, LoadTypes, FailInv, [Next]_vars,
           SameFailed \/ \E u \in Ues : Fails(u) /\ FailedIsDone(u)'
    PROVE  FailInv'
<1>1. \A u \in Ues : uSt[u] = "failed" => FailedIsDone(u)'
  BY FailedStayDone
<1>2. CASE SameFailed
  BY <1>1, <1>2 DEF FailInv, SameFailed
<1>3. ASSUME NEW u \in Ues, Fails(u), FailedIsDone(u)' PROVE FailInv'
  <2>1. PICK x \in {"registration", "pdu", "deregistration"} : failures' = failures \cup {<<u, x>>}
    BY <1>3 DEF Fails
  <2>2. \A v \in Ues : uSt'[v] = IF v = u THEN "failed" ELSE uSt[v]
    BY <1>3 DEF Fails, LoadTypes
  <2>3. <<u, x>>[1] = u
    OBVIOUS
  <2>4. failures' \in SUBSET (Ues \X {"registration", "pdu", "deregistration"})
    BY <2>1 DEF FailInv
  <2>5. \A v \in Ues : (\E f \in failures' : f[1] = v) <=> v = u \/ \E f \in failures : f[1] = v
    BY <2>1, <2>3
  <2>6. \A v \in Ues : uSt'[v] = "failed" <=> \E f \in failures' : f[1] = v
    BY <2>2, <2>5 DEF FailInv
  <2>7. \A v \in Ues : uSt'[v] = "failed" => FailedIsDone(v)'
    BY <1>1, <1>3, <2>2
  <2> QED
    BY <2>4, <2>6, <2>7 DEF FailInv
<1> QED
  BY <1>2, <1>3

\* A UE that an attempt works on, or that is about to get one, has not failed.
LEMMA WorkedOn ==
    ASSUME OneInv, FailInv, NEW s \in {"reg", "pdu", "cp"}, NEW u, u \in flight[s] \/ (held[s] = u /\ u # None)
    PROVE  u \in Ues /\ uSt[u] # "failed" /\ AtStage(s, u) > 0
<1>1. LoopInv /\ LoopTypes /\ s \in Stages
  BY StageNames DEF OneInv, LoopInv
<1>2. u \in Items
  BY <1>1 DEF LoopTypes
<1>3. u \in ItemsOf(s) /\ AtStage(s, u) > 0
  BY <1>1, <1>2, AttemptsKind
<1>4. u \in Ues
  BY <1>3, StageNames DEF ItemsOf
<1>5. uSt[u] = "failed" => AtStage(s, u) = 0
  BY <1>4 DEF FailInv, FailedIsDone
<1> QED
  BY <1>3, <1>4, <1>5

LEMMA SameFailedOne ==
    ASSUME LoadTypes, NEW u \in Ues, NEW x, uSt' = [uSt EXCEPT ![u] = x], UNCHANGED failures,
           x = "failed" <=> uSt[u] = "failed"
    PROVE  SameFailed
<1>1. \A v \in Ues : uSt'[v] = IF v = u THEN x ELSE uSt[v]
  BY DEF LoadTypes
<1> QED
  BY <1>1 DEF SameFailed

LEMMA FailDispatcher ==
    ASSUME OneInv, LoadTypes, FailInv, NEW s \in Stages, Dispatcher(s)
    PROVE  SameFailed
<1>1. CASE Pop(s) \/ LoopEnds(s) \/ LoopReturns(s) \/ CpLoopStarts
  BY <1>1 DEF Pop, LoopEnds, LoopReturns, CpLoopStarts, ueVars, SameFailed
<1>2. CASE BeginAttempt(s)
  <2>1. /\ held[s] # None /\ UNCHANGED failures /\ s \in {"n2", "reg", "pdu"}
        /\ s = "n2" => UNCHANGED uSt
        /\ s # "n2" => uSt' = [uSt EXCEPT ![held[s]] = IF s = "reg" THEN "registering" ELSE "establishing"]
    BY <1>2 DEF BeginAttempt, Dispatch
  <2>2. CASE s = "n2"
    BY <2>1, <2>2 DEF SameFailed
  <2>3. CASE s # "n2"
    <3>1. held[s] \in Ues /\ uSt[held[s]] # "failed"
      BY <2>1, <2>3, WorkedOn
    <3>2. \E x \in {"registering", "establishing"} : uSt' = [uSt EXCEPT ![held[s]] = x]
      BY <2>1, <2>3
    <3> QED
      BY <2>1, <3>1, <3>2, SameFailedOne
  <2> QED
    BY <2>2, <2>3
<1>3. CASE BeginCycle \/ SkipCycle
  <2>1. /\ held["cp"] # None /\ UNCHANGED failures
        /\ \E x \in {"registering", "skipped"} : uSt' = [uSt EXCEPT ![held["cp"]] = x]
    BY <1>3 DEF BeginCycle, SkipCycle, Dispatch
  <2>2. held["cp"] \in Ues /\ uSt[held["cp"]] # "failed"
    BY <2>1, WorkedOn
  <2> QED
    BY <2>1, <2>2, SameFailedOne
<1>4. CASE BeginDeregistration
  <2>1. /\ held["dereg"] # None /\ UNCHANGED failures
        /\ uSt' = [uSt EXCEPT ![held["dereg"]] = IF @ = "failed" THEN @ ELSE "deregistering"]
    BY <1>4 DEF BeginDeregistration, Dispatch, CleanupState
  <2>2. held["dereg"] \in Ues
    BY <2>1, AttemptsKind, StageNames DEF OneInv, LoopInv, LoopTypes, ItemsOf
  <2>3. PICK x : /\ uSt' = [uSt EXCEPT ![held["dereg"]] = x]
                 /\ x = IF uSt[held["dereg"]] = "failed" THEN "failed" ELSE "deregistering"
    BY <2>1
  <2> QED
    BY <2>1, <2>2, <2>3, SameFailedOne
<1> QED
  BY <1>1, <1>2, <1>3, <1>4 DEF Dispatcher

LEMMA FailGnb ==
    ASSUME OneInv, LoadTypes, FailInv, NEW g \in Gnbs, GnbAttemptEnds(g)
    PROVE  SameFailed
<1>1. CASE N2Up(g) \/ Retry("n2", g)
  BY <1>1 DEF N2Up, Retry, ueVars, SameFailed
<1>2. CASE N2Fails(g)
  <2>1. /\ g \in flight["n2"] /\ UNCHANGED failures
        /\ uSt' = [u \in Ues |-> IF GnbOf[u] = g THEN "skipped" ELSE uSt[u]]
    BY <1>2 DEF N2Fails
  <2>2. phase = "n2" /\ AtStage("n2", g) > 0
    BY <2>1, AttemptsLoop, AttemptsKind, StageNames DEF OneInv, LoopInv, PhaseInv
  <2>3. \A u \in Ues : uSt[u] = "failed" => GnbOf[u] # g
    BY <2>2 DEF FailInv, FailedIsDone
  <2>4. \A u \in Ues : uSt'[u] = IF GnbOf[u] = g THEN "skipped" ELSE uSt[u]
    BY <2>1
  <2> QED
    BY <2>1, <2>3, <2>4 DEF SameFailed
<1> QED
  BY <1>1, <1>2 DEF GnbAttemptEnds

LEMMA FailExecute ==
    ASSUME LoadTypes, FailInv, Execute
    PROVE  SameFailed
<1>1. CASE N2Done \/ Stopping \/ Stopped \/ DeregisterAll \/ (\E g \in Gnbs : CloseTake(g) \/ CloseEnds(g))
  BY <1>1 DEF N2Done, Stopping, Stopped, DeregisterAll, CloseTake, CloseEnds, ueVars, SameFailed
<1>2. CASE SkipUnfinished
  <2>1. UNCHANGED failures /\ uSt' = [u \in Ues |->
                IF u \in Cp /\ uSt[u] = "pending" /\ cycled[u] THEN "deregistered"
                ELSE IF uSt[u] \in {"pending", "registering", "registered", "establishing"} THEN "cancelled"
                ELSE uSt[u]]
    BY <1>2 DEF SkipUnfinished
  <2>2. \A u \in Ues : uSt'[u] = uSt[u] \/ (uSt[u] # "failed" /\ uSt'[u] # "failed")
    BY <2>1
  <2> QED
    BY <2>1, <2>2 DEF SameFailed
<1>3. CASE DeregisterDone
  <2> DEFINE drained == { u \in Ues : queue["dereg"][u] > 0 }
  <2>1. UNCHANGED failures
        /\ uSt' = [u \in Ues |-> IF u \in drained /\ uSt[u] # "failed" THEN "cancelled" ELSE uSt[u]]
    BY <1>3 DEF DeregisterDone
  <2> HIDE DEF drained
  <2>2. \A u \in Ues : uSt'[u] = uSt[u] \/ (uSt[u] # "failed" /\ uSt'[u] # "failed")
    BY <2>1
  <2> QED
    BY <2>1, <2>2 DEF SameFailed
<1> QED
  BY <1>1, <1>2, <1>3 DEF Execute

\* An attempt that ends: either the failed UEs are the same or this one has failed, and nothing
\* else works on it.
LEMMA FailAttempt ==
    ASSUME OneInv, LoadTypes, FailInv, NEW u \in Ues, UeAttemptEnds(u)
    PROVE  SameFailed \/ (Fails(u) /\ FailedIsDone(u)')
<1>1. LoopInv /\ LoopTypes /\ CycleInv /\ u \in Items
  BY StageNames DEF OneInv, LoopInv
<1>2. CASE RegAccepted(u) \/ Retry("reg", u) \/ PduAccepted(u) \/ Retry("pdu", u)
  <2>1. (u \in flight["reg"] \/ u \in flight["pdu"]) /\ UNCHANGED failures
    BY <1>2 DEF RegAccepted, Retry, PduAccepted
  <2>2. \E x \in {"registered", "pending", "established"} : uSt' = [uSt EXCEPT ![u] = x]
    BY <1>2 DEF RegAccepted, Retry, PduAccepted
  <2>3. uSt[u] # "failed"
    BY <2>1, WorkedOn
  <2> QED
    BY <2>1, <2>2, <2>3, SameFailedOne
<1>3. CASE CpRegisters(u) \/ CpHolds(u) \/ CpDeregisters(u)
  <2>1. u \in flight["cp"] /\ UNCHANGED failures
    BY <1>1, <1>3 DEF CycleInv, CpRegisters, CpHolds, CpDeregisters
  <2>2. \/ UNCHANGED uSt
        \/ \E x \in {"registered", "pending", "deregistering"} : uSt' = [uSt EXCEPT ![u] = x]
    BY <1>3 DEF CpRegisters, CpHolds, CpDeregisters, Idle
  <2>3. uSt[u] # "failed"
    BY <2>1, WorkedOn
  <2>4. CASE UNCHANGED uSt
    BY <2>1, <2>4 DEF SameFailed
  <2> QED
    BY <2>1, <2>2, <2>3, <2>4, SameFailedOne
<1>4. CASE DeregRetry(u)
  BY <1>4 DEF DeregRetry, SameFailed
<1>5. CASE DeregAccepted(u) \/ DeregAborted(u)
  <2>1. UNCHANGED failures
    BY <1>5 DEF DeregAccepted, DeregAborted
  <2>2. CASE uSt[u] = "failed"
    <3>1. uSt' = [uSt EXCEPT ![u] = "failed"]
      BY <1>5, <2>2 DEF DeregAccepted, DeregAborted, CleanupState
    <3> QED
      BY <2>1, <2>2, <3>1, SameFailedOne
  <2>3. CASE uSt[u] # "failed"
    <3>1. PICK x \in {"deregistered", "cancelled"} : uSt' = [uSt EXCEPT ![u] = x]
      BY <1>5, <2>3 DEF DeregAccepted, DeregAborted, CleanupState
    <3> QED
      BY <2>1, <2>3, <3>1, SameFailedOne
  <2> QED
    BY <2>2, <2>3
<1>6. ASSUME NEW s \in {"reg", "pdu", "dereg"}, Ends(s, u) PROVE FailedIsDone(u)'
  <2>1. s \in Stages /\ u \in flight[s] /\ AtStage(s, u) > 0 /\ u \in ItemsOf(s)
    BY <1>1, <1>6, AttemptsKind, StageNames DEF Ends
  <2>2. AtStage(s, u) <= 1 /\ queue[s][u] \in Nat
    BY <1>1, <2>1, PlaceNat DEF LoopInv, OnceInv
  <2>3. queue[s][u] = 0 /\ held[s] # u
    BY <2>1, <2>2 DEF AtStage
  <2>4. \A t \in Stages : flight'[t] = IF t = s THEN flight[t] \ {u} ELSE flight[t]
    BY <1>1, <1>6 DEF Ends, Leave, LoopTypes
  <2>5. UNCHANGED <<phase, loop, held, queue>>
    BY <1>6 DEF Ends
  <2>6. flight'[s] = flight[s] \ {u} /\ queue'[s] = queue[s] /\ held'[s] = held[s]
    BY <2>1, <2>4, <2>5
  <2>7. AtStage(s, u)' = 0
    BY <2>3, <2>6 DEF AtStage
  <2>8. \A t \in Stages : t # s => AtStage(t, u) = 0
    <3> SUFFICES ASSUME NEW t \in Stages, t # s PROVE AtStage(t, u) = 0
      OBVIOUS
    <3>1. AtStage(s, u) = 0 \/ AtStage(t, u) = 0
      BY <1>1, <2>1 DEF LoopInv, OnceInv
    <3> QED
      BY <2>1, <3>1
  <2>9. \A t \in Stages : t # s => AtStage(t, u)' = 0
    <3> SUFFICES ASSUME NEW t \in Stages, t # s PROVE AtStage(t, u)' = 0
      OBVIOUS
    <3>1. queue'[t][u] = queue[t][u] /\ held'[t] = held[t] /\ flight'[t] \subseteq flight[t]
      BY <2>4, <2>5
    <3> QED
      BY <1>1, <2>8, <3>1, NotAdded
  <2>10. loop[s] \in {"loop", "wait"}
    BY <1>1, <2>1, AttemptsLoop
  <2>11. s = "dereg" => phase \in Cleanup
    BY <1>1, <2>10 DEF LoopInv, LoopTypes, Phases, PhaseInv, Cleanup
  <2>12. s # "dereg" => u \in Tp /\ u \notin Cp
    BY <2>1, PipelineOK, StageNames DEF ItemsOf
  <2>13. phase = "n2" => AtStage("n2", GnbOf[u])' = 0
    <3> SUFFICES ASSUME phase = "n2" PROVE AtStage("n2", GnbOf[u])' = 0
      OBVIOUS
    <3>1. u \in Tp /\ GnbOf[u] \in Items /\ "n2" # s
      BY <2>11, <2>12, PipelineOK, StageNames DEF Cleanup
    <3>2. AtStage("n2", GnbOf[u]) \in Nat
      BY <1>1, <3>1, PlaceNat, StageNames
    <3>3. AtStage("n2", GnbOf[u]) = 0
      BY <1>1, <2>1, <3>1, <3>2 DEF LoopInv, WaitInv
    <3>4. queue'["n2"][GnbOf[u]] = queue["n2"][GnbOf[u]] /\ held'["n2"] = held["n2"]
          /\ flight'["n2"] \subseteq flight["n2"]
      BY <2>4, <2>5, StageNames
    <3> QED
      BY <1>1, <3>1, <3>3, <3>4, NotAdded, StageNames
  <2>14. AtStage("reg", u)' = 0 /\ AtStage("pdu", u)' = 0 /\ AtStage("cp", u)' = 0
    BY <2>7, <2>9, StageNames
  <2>15. u \in Cp => phase' \in Cleanup
    BY <2>5, <2>11, <2>12
  <2>16. phase' = "n2" => AtStage("n2", GnbOf[u])' = 0
    BY <2>5, <2>13
  <2> QED
    BY <2>14, <2>15, <2>16 DEF FailedIsDone
<1>7. CASE RegFails(u)
  <2>1. Fails(u) /\ Ends("reg", u)
    BY <1>7 DEF RegFails, Fails, Ends
  <2> QED
    BY <1>6, <2>1
<1>8. CASE PduFails(u)
  <2>1. Fails(u) /\ Ends("pdu", u)
    BY <1>8 DEF PduFails, Fails, Ends
  <2> QED
    BY <1>6, <2>1
<1>9. CASE DeregFails(u)
  <2>1. uSt' = [uSt EXCEPT ![u] = IF @ = "failed" THEN @ ELSE "failed"]
    BY <1>9 DEF DeregFails, CleanupState
  <2>2. uSt' = [uSt EXCEPT ![u] = "failed"]
    BY <2>1
  <2>3. Fails(u) /\ Ends("dereg", u)
    BY <1>9, <2>2 DEF DeregFails, Deregistered, Fails, Ends
  <2> QED
    BY <1>6, <2>3
<1> QED
  BY <1>2, <1>3, <1>4, <1>5, <1>7, <1>8, <1>9 DEF UeAttemptEnds

LEMMA FailStep == OneInv /\ LoadInv /\ FailInv /\ [Next]_vars => FailInv'
<1> SUFFICES ASSUME OneInv, LoadInv, FailInv, [Next]_vars PROVE FailInv'
  OBVIOUS
<1>1. LoadTypes
  BY DEF LoadInv
<1>2. CASE Stop \/ Abort \/ (\E g \in Gnbs : AssociationEnds(g) \/ Watcher(g)) \/ UNCHANGED vars
  <2>1. SameFailed
    BY <1>2 DEF Stop, Abort, AssociationEnds, Watcher, WatchCheck, WatchTake, WatchClose, ueVars, vars, SameFailed
  <2> QED
    BY <1>1, <2>1, FailKeeps
<1>3. CASE \E s \in Stages : Dispatcher(s)
  BY <1>1, <1>3, FailDispatcher, FailKeeps
<1>4. CASE \E g \in Gnbs : GnbAttemptEnds(g)
  BY <1>1, <1>4, FailGnb, FailKeeps
<1>5. CASE Execute
  BY <1>1, <1>5, FailExecute, FailKeeps
<1>6. CASE \E u \in Ues : UeAttemptEnds(u)
  <2>1. SameFailed \/ \E u \in Ues : Fails(u) /\ FailedIsDone(u)'
    BY <1>1, <1>6, FailAttempt
  <2> QED
    BY <1>1, <2>1, FailKeeps
<1> QED
  BY <1>2, <1>3, <1>4, <1>5, <1>6 DEF Next

\* The UEs counted failed are those the failure list names: a UE that failed is never
\* attempted again and keeps its state through the cleanup, and what the cleanup fails is
\* listed too.
THEOREM FailedAreListedAlways == Spec => []FailedAreListed
<1>1. Init => OneInv /\ LoadInv /\ FailInv
  BY OneInit, LoadInit, FailInit
<1>2. OneInv /\ LoadInv /\ FailInv /\ [Next]_vars => (OneInv /\ LoadInv /\ FailInv)'
  BY OneStep, LoadStep, FailStep
<1>3. FailInv => FailedAreListed
  BY DEF FailInv, FailedAreListed
<1> QED
  BY <1>1, <1>2, <1>3, PTL DEF Spec

-----------------------------------------------------------------------------
(* What cleanup leaves. *)

\* The association of a gNB that keeps it is open until it is closed for good.
AliveInv ==
    \A g \in Gnbs \ MayLose :
        watch[g] # "none" /\ phase \notin {"close", "stopped"} => watch[g] = "read" /\ open[g] /\ alive[g]

\* A UE that registers or has registered has a gNB that came up.
UpInv == \A u \in Tp : AtStage("reg", u) > 0 \/ link[u] => watch[GnbOf[u]] # "none"

\* Cleanup is about to deregister what it can.
LinkInv ==
    \A u \in Tp : link[u] /\ phase \in Cleanup =>
        \/ aborted \/ GnbOf[u] \in MayLose
        \/ phase = "deregister" /\ AtStage("dereg", u) > 0

\* Who is reported deregistered is not in the core.
CoreInv == \A u \in Tp : uSt[u] = "deregistered" => u \notin core /\ phase \in Cleanup

CleanInv ==
    /\ alive \in [Gnbs -> BOOLEAN] /\ link \in [Ues -> BOOLEAN]
    /\ AliveInv /\ UpInv /\ LinkInv /\ CoreInv

LEMMA CleanInit == Init => CleanInv
<1> SUFFICES ASSUME Init PROVE CleanInv
  OBVIOUS
<1>1. /\ alive \in [Gnbs -> BOOLEAN] /\ link \in [Ues -> BOOLEAN] /\ phase = "n2"
      /\ \A g \in Gnbs : watch[g] = "none"
      /\ \A u \in Ues : ~link[u] /\ uSt[u] = "pending"
  BY DEF Init
<1>2. \A u \in Tp : AtStage("reg", u) = 0
  <2> SUFFICES ASSUME NEW u \in Tp PROVE AtStage("reg", u) = 0
    OBVIOUS
  <2>1. u \in Items /\ u # None
    BY PipelineOK, StageNames
  <2>2. queue["reg"][u] = 0 /\ held["reg"] = None /\ flight["reg"] = {}
    BY <2>1, StageNames DEF Init
  <2> QED
    BY <2>1, <2>2 DEF AtStage
<1>3. \A u \in Tp : u \in Ues
  BY StageNames
<1> QED
  BY <1>1, <1>2, <1>3 DEF CleanInv, AliveInv, UpInv, LinkInv, CoreInv, Cleanup

LEMMA AliveStep == OneInv /\ ConnsInv /\ CleanInv /\ [Next]_vars => alive' \in [Gnbs -> BOOLEAN] /\ AliveInv'
<1> SUFFICES ASSUME OneInv, ConnsInv, CleanInv, [Next]_vars PROVE alive' \in [Gnbs -> BOOLEAN] /\ AliveInv'
  OBVIOUS
<1>1. phase' \notin {"close", "stopped"} => phase \notin {"close", "stopped"}
  BY PhaseOrder DEF Onward
<1>2. alive \in [Gnbs -> BOOLEAN] /\ AliveInv
  BY DEF CleanInv
<1>3. ASSUME UNCHANGED <<alive, watch, open>> PROVE alive' \in [Gnbs -> BOOLEAN] /\ AliveInv'
  BY <1>1, <1>2, <1>3 DEF AliveInv
<1>4. ASSUME NEW g \in Gnbs, GnbAttemptEnds(g) PROVE alive' \in [Gnbs -> BOOLEAN] /\ AliveInv'
  <2>1. CASE N2Up(g)
    <3>1. /\ alive' = [alive EXCEPT ![g] = TRUE] /\ open' = [open EXCEPT ![g] = TRUE]
          /\ watch' = [watch EXCEPT ![g] = "read"] /\ UNCHANGED phase
      BY <2>1 DEF N2Up
    <3> QED
      BY <1>2, <3>1 DEF AliveInv, ConnsInv
  <2>2. CASE N2Fails(g) \/ Retry("n2", g)
    BY <1>3, <2>2 DEF N2Fails, Retry
  <2> QED
    BY <1>4, <2>1, <2>2 DEF GnbAttemptEnds
<1>5. ASSUME NEW g \in Gnbs, AssociationEnds(g) PROVE alive' \in [Gnbs -> BOOLEAN] /\ AliveInv'
  <2>1. /\ watch[g] = "read" /\ (g \in MayLose \/ ~open[g]) /\ UNCHANGED <<open, phase>>
        /\ alive' = [alive EXCEPT ![g] = FALSE] /\ watch' = [watch EXCEPT ![g] = "ended"]
    BY <1>5 DEF AssociationEnds
  <2>2. g \in MayLose \/ phase \in {"close", "stopped"}
    BY <1>2, <1>5 DEF AliveInv, AssociationEnds
  <2>3. alive' \in [Gnbs -> BOOLEAN]
    BY <1>2, <2>1
  <2>4. \A h \in Gnbs : h # g => alive'[h] = alive[h] /\ watch'[h] = watch[h]
    BY <1>2, <2>1 DEF ConnsInv
  <2> QED
    BY <1>2, <2>1, <2>2, <2>3, <2>4 DEF AliveInv
<1>6. ASSUME NEW g \in Gnbs, Watcher(g) PROVE alive' \in [Gnbs -> BOOLEAN] /\ AliveInv'
  <2>1. /\ watch[g] \notin {"none", "read"} /\ UNCHANGED <<alive, phase>>
        /\ \A h \in Gnbs : h # g => open'[h] = open[h] /\ watch'[h] = watch[h]
    BY <1>6 DEF Watcher, WatchCheck, WatchTake, WatchClose, ConnsInv
  <2>2. g \in MayLose \/ phase \in {"close", "stopped"}
    BY <1>2, <2>1 DEF AliveInv
  <2> QED
    BY <1>2, <2>1, <2>2 DEF AliveInv
<1>7. CASE Execute
  <2>1. ASSUME NEW g \in Gnbs, CloseEnds(g) PROVE alive' \in [Gnbs -> BOOLEAN] /\ AliveInv'
    <3>1. UNCHANGED <<alive, phase>> /\ phase \in {"close", "stopped"}
      BY <2>1 DEF CloseEnds, ConnsInv
    <3> QED
      BY <1>2, <3>1 DEF AliveInv
  <2>2. CASE N2Done \/ Stopping \/ SkipUnfinished \/ DeregisterAll \/ DeregisterDone \/ Stopped
    BY <1>3, <2>2 DEF N2Done, Stopping, SkipUnfinished, DeregisterAll, DeregisterDone, Stopped, gnbVars
  <2>3. ASSUME NEW g \in Gnbs, CloseTake(g) PROVE alive' \in [Gnbs -> BOOLEAN] /\ AliveInv'
    BY <1>3, <2>3 DEF CloseTake
  <2> QED
    BY <1>7, <2>1, <2>2, <2>3 DEF Execute
<1>8. ASSUME NEW s \in Stages, Dispatcher(s) PROVE alive' \in [Gnbs -> BOOLEAN] /\ AliveInv'
  BY <1>3, <1>8 DEF Dispatcher, Pop, LoopEnds, LoopReturns, BeginAttempt, BeginCycle, BeginDeregistration,
                    SkipCycle, CpLoopStarts, Dispatch, gnbVars
<1>9. ASSUME NEW u \in Ues, UeAttemptEnds(u) PROVE alive' \in [Gnbs -> BOOLEAN] /\ AliveInv'
  <2>1. CASE RegAccepted(u) \/ RegFails(u) \/ Retry("reg", u) \/ PduAccepted(u) \/ PduFails(u) \/ Retry("pdu", u)
    BY <1>3, <2>1 DEF RegAccepted, RegFails, PduAccepted, PduFails, Retry, gnbVars
  <2>2. CASE CpRegisters(u) \/ CpHolds(u) \/ CpDeregisters(u)
    BY <1>3, <2>2 DEF CpRegisters, CpHolds, CpDeregisters, gnbVars
  <2>3. CASE DeregAccepted(u) \/ DeregAborted(u) \/ DeregFails(u) \/ DeregRetry(u)
    BY <1>3, <2>3 DEF DeregAccepted, DeregAborted, DeregFails, DeregRetry, Deregistered, gnbVars
  <2> QED
    BY <1>9, <2>1, <2>2, <2>3 DEF UeAttemptEnds
<1>10. CASE Stop \/ Abort \/ UNCHANGED vars
  BY <1>3, <1>10 DEF Stop, Abort, vars, gnbVars
<1> QED
  BY <1>4, <1>5, <1>6, <1>7, <1>8, <1>9, <1>10 DEF Next

\* A UE gets its link by registering, and loses it for good when it is deregistered.
LEMMA LinkMoves ==
    ASSUME OneInv, CleanInv, [Next]_vars
    PROVE  /\ link' \in [Ues -> BOOLEAN]
           /\ \A u \in Tp : link'[u] => link[u] \/ RegAccepted(u)
<1>1. LoopInv /\ CycleInv /\ link \in [Ues -> BOOLEAN]
  BY DEF OneInv, CleanInv
<1> DEFINE Goal == link' \in [Ues -> BOOLEAN] /\ \A u \in Tp : link'[u] => link[u] \/ RegAccepted(u)
<1>2. ASSUME UNCHANGED link PROVE Goal
  BY <1>1, <1>2
<1>3. ASSUME NEW u \in Ues, NEW b \in BOOLEAN, link' = [link EXCEPT ![u] = b],
             b /\ u \in Tp => RegAccepted(u)
      PROVE  Goal
  <2>1. link' \in [Ues -> BOOLEAN] /\ \A v \in Ues : link'[v] = IF v = u THEN b ELSE link[v]
    BY <1>1, <1>3
  <2> QED
    BY <1>3, <2>1, StageNames
<1>4. ASSUME NEW u \in Ues, UeAttemptEnds(u) PROVE Goal
  <2>1. CASE RegAccepted(u)
    <3>1. link' = [link EXCEPT ![u] = TRUE]
      BY <2>1 DEF RegAccepted
    <3> QED
      BY <1>3, <2>1, <3>1
  <2>2. CASE RegFails(u) \/ Retry("reg", u) \/ PduAccepted(u) \/ PduFails(u) \/ Retry("pdu", u)
    BY <1>2, <2>2 DEF RegFails, PduAccepted, PduFails, Retry
  <2>3. CASE CpRegisters(u) \/ CpHolds(u) \/ CpDeregisters(u)
    <3>1. u \in flight["cp"]
      BY <1>1, <2>3 DEF CycleInv, CpRegisters, CpHolds, CpDeregisters
    <3>2. u \notin Tp
      BY <1>1, <3>1, AttemptsKind, StageNames, PipelineOK DEF ItemsOf
    <3>3. UNCHANGED link \/ \E b \in BOOLEAN : link' = [link EXCEPT ![u] = b]
      BY <2>3 DEF CpRegisters, CpHolds, CpDeregisters
    <3> QED
      BY <1>2, <1>3, <3>2, <3>3
  <2>4. CASE DeregAccepted(u) \/ DeregAborted(u) \/ DeregFails(u)
    <3>1. link' = [link EXCEPT ![u] = FALSE]
      BY <2>4 DEF DeregAccepted, DeregAborted, DeregFails, Deregistered
    <3> QED
      BY <1>3, <3>1
  <2>5. CASE DeregRetry(u)
    BY <1>2, <2>5 DEF DeregRetry
  <2> QED
    BY <1>4, <2>1, <2>2, <2>3, <2>4, <2>5 DEF UeAttemptEnds
<1>5. CASE Execute
  <2>1. CASE DeregisterDone
    <3>1. \E S : link' = [u \in Ues |-> link[u] /\ u \notin S]
      BY <2>1 DEF DeregisterDone
    <3>2. link' \in [Ues -> BOOLEAN] /\ \A u \in Ues : link'[u] => link[u]
      BY <1>1, <3>1
    <3> QED
      BY <3>2, StageNames DEF Goal
  <2>2. CASE N2Done \/ Stopping \/ SkipUnfinished \/ DeregisterAll \/ Stopped
    BY <1>2, <2>2 DEF N2Done, Stopping, SkipUnfinished, DeregisterAll, Stopped, ueVars
  <2>3. CASE \E g \in Gnbs : CloseTake(g) \/ CloseEnds(g)
    BY <1>2, <2>3 DEF CloseTake, CloseEnds, ueVars
  <2> QED
    BY <1>5, <2>1, <2>2, <2>3 DEF Execute
<1>6. ASSUME NEW s \in Stages, Dispatcher(s) PROVE Goal
  BY <1>2, <1>6 DEF Dispatcher, Pop, LoopEnds, LoopReturns, BeginAttempt, BeginCycle, BeginDeregistration,
                    SkipCycle, CpLoopStarts, Dispatch, ueVars
<1>7. ASSUME NEW g \in Gnbs, GnbAttemptEnds(g) PROVE Goal
  BY <1>2, <1>7 DEF GnbAttemptEnds, N2Up, N2Fails, Retry, ueVars
<1>8. CASE Stop \/ Abort \/ (\E g \in Gnbs : AssociationEnds(g) \/ Watcher(g)) \/ UNCHANGED vars
  BY <1>2, <1>8 DEF Stop, Abort, AssociationEnds, Watcher, WatchCheck, WatchTake, WatchClose, ueVars, vars
<1>9. Goal
  BY <1>4, <1>5, <1>6, <1>7, <1>8 DEF Next
<1> QED
  BY <1>9 DEF Goal

\* A watcher that was started stays so.
LEMMA WatchMoves ==
    ASSUME ConnsInv, [Next]_vars, NEW g \in Gnbs, watch[g] # "none"
    PROVE  watch'[g] # "none"
<1>1. ASSUME UNCHANGED watch PROVE watch'[g] # "none"
  BY <1>1
<1>2. ASSUME NEW h \in Gnbs, NEW w, w # "none", watch' = [watch EXCEPT ![h] = w] PROVE watch'[g] # "none"
  BY <1>2 DEF ConnsInv
<1>3. ASSUME NEW h \in Gnbs, GnbAttemptEnds(h) \/ AssociationEnds(h) \/ Watcher(h) PROVE watch'[g] # "none"
  <2>1. UNCHANGED watch \/ \E w \in {"read", "ended", "take", "close", "done"} : watch' = [watch EXCEPT ![h] = w]
    BY <1>3 DEF GnbAttemptEnds, N2Up, N2Fails, Retry, AssociationEnds, Watcher, WatchCheck, WatchTake, WatchClose
  <2> QED
    BY <1>1, <1>2, <2>1
<1>4. CASE Execute
  BY <1>1, <1>4 DEF Execute, N2Done, Stopping, SkipUnfinished, DeregisterAll, DeregisterDone, CloseTake, CloseEnds,
                    Stopped, gnbVars
<1>5. ASSUME NEW s \in Stages, Dispatcher(s) PROVE watch'[g] # "none"
  BY <1>1, <1>5 DEF Dispatcher, Pop, LoopEnds, LoopReturns, BeginAttempt, BeginCycle, BeginDeregistration,
                    SkipCycle, CpLoopStarts, Dispatch, gnbVars
<1>6. ASSUME NEW u \in Ues, UeAttemptEnds(u) PROVE watch'[g] # "none"
  <2>1. CASE RegAccepted(u) \/ RegFails(u) \/ Retry("reg", u) \/ PduAccepted(u) \/ PduFails(u) \/ Retry("pdu", u)
    BY <1>1, <2>1 DEF RegAccepted, RegFails, PduAccepted, PduFails, Retry, gnbVars
  <2>2. CASE CpRegisters(u) \/ CpHolds(u) \/ CpDeregisters(u)
    BY <1>1, <2>2 DEF CpRegisters, CpHolds, CpDeregisters, gnbVars
  <2>3. CASE DeregAccepted(u) \/ DeregAborted(u) \/ DeregFails(u) \/ DeregRetry(u)
    BY <1>1, <2>3 DEF DeregAccepted, DeregAborted, DeregFails, DeregRetry, Deregistered, gnbVars
  <2> QED
    BY <1>6, <2>1, <2>2, <2>3 DEF UeAttemptEnds
<1>7. CASE Stop \/ Abort \/ UNCHANGED vars
  BY <1>1, <1>7 DEF Stop, Abort, vars, gnbVars
<1> QED
  BY <1>3, <1>4, <1>5, <1>6, <1>7 DEF Next

LEMMA UpStep == OneInv /\ ConnsInv /\ CleanInv /\ [Next]_vars => UpInv'
<1> SUFFICES ASSUME OneInv, ConnsInv, CleanInv, [Next]_vars, NEW u \in Tp, (AtStage("reg", u) > 0)' \/ link'[u]
             PROVE  watch'[GnbOf[u]] # "none"
  BY DEF UpInv
<1>1. LoopInv /\ LoopTypes /\ LoopTypes' /\ (NoMore \/ Moves) /\ UpInv
  BY LoopStep DEF OneInv, LoopInv, CleanInv
<1>2. u \in Items /\ u \in Ues /\ u \notin Cp /\ GnbOf[u] \in Gnbs /\ "reg" \in Stages
  BY PipelineOK, StageNames
<1>3. AtStage("reg", u) \in Nat /\ (AtStage("reg", u) \in Nat)'
  <2>1. queue'["reg"][u] \in Nat
    BY <1>1, <1>2 DEF LoopTypes
  <2> QED
    BY <1>1, <1>2, <2>1, PlaceNat DEF AtStage
<1>4. CASE AtStage("reg", u) > 0 \/ link[u]
  BY <1>1, <1>2, <1>4, WatchMoves DEF UpInv
<1>5. CASE ~link[u] /\ link'[u]
  <2>1. RegAccepted(u)
    BY <1>5, LinkMoves
  <2>2. AtStage("reg", u) > 0
    BY <1>1, <1>2, <2>1, AttemptsKind DEF RegAccepted
  <2> QED
    BY <1>4, <2>2
<1>6. CASE AtStage("reg", u) = 0 /\ (AtStage("reg", u) > 0)'
  <2>1. ~NoMore
    BY <1>2, <1>3, <1>6 DEF NoMore
  <2>2. ASSUME NEW t \in Stages, NEW S, queue' = Pushed(t, S), UNCHANGED held,
               \A s \in Stages : flight'[s] \subseteq flight[s], t # "reg" \/ u \notin S
        PROVE  FALSE
    <3>1. queue'["reg"][u] = queue["reg"][u]
      BY <1>1, <1>2, <2>2, PushedAt
    <3> QED
      BY <1>1, <1>2, <1>6, <2>2, <3>1, NotAdded
  <2>3. ASSUME NEW g \in Gnbs, N2Up(g) PROVE watch'[GnbOf[u]] # "none"
    <3>1. /\ queue' = Pushed("reg", UesOf(g) \cap Tp) /\ UNCHANGED held
          /\ flight' = [flight EXCEPT !["n2"] = @ \ {g}] /\ watch' = [watch EXCEPT ![g] = "read"]
      BY <2>3 DEF N2Up, Leave
    <3>2. \A s \in Stages : flight'[s] \subseteq flight[s]
      BY <1>1, <3>1 DEF LoopTypes
    <3>3. u \in UesOf(g)
      BY <1>2, <2>2, <3>1, <3>2
    <3> QED
      BY <1>2, <3>1, <3>3 DEF UesOf, ConnsInv
  <2>4. ASSUME NEW v \in Ues, RegAccepted(v) PROVE FALSE
    <3>1. /\ queue' = Pushed("pdu", {v}) /\ UNCHANGED held
          /\ flight' = [flight EXCEPT !["reg"] = @ \ {v}]
      BY <2>4 DEF RegAccepted, Leave
    <3>2. \A s \in Stages : flight'[s] \subseteq flight[s]
      BY <1>1, <3>1 DEF LoopTypes
    <3> QED
      BY <2>2, <3>1, <3>2, StageNames
  <2>5. ASSUME UNCHANGED <<held, flight, queue>> PROVE FALSE
    BY <1>1, <1>2, <1>6, <2>5, NotAdded
  <2>6. CASE CpLoopStarts
    <3>1. UNCHANGED <<held, flight>> /\ (queue' = queue \/ \E S : queue' = Pushed("cp", S))
      BY <2>6 DEF CpLoopStarts
    <3> QED
      BY <2>2, <2>5, <3>1, StageNames
  <2>7. CASE DeregisterAll
    <3>1. UNCHANGED <<held, flight>> /\ (queue' = queue \/ \E S : queue' = Pushed("dereg", S))
      BY <2>7 DEF DeregisterAll
    <3> QED
      BY <2>2, <2>5, <3>1, StageNames
  <2> QED
    BY <1>1, <2>1, <2>3, <2>4, <2>6, <2>7 DEF Moves
<1> QED
  BY <1>3, <1>4, <1>5, <1>6

\* While cleanup deregisters, a UE keeps its place until it is done with or drained.
LEMMA DeregPlaces ==
    ASSUME OneInv, [Next]_vars, phase = "deregister", NEW u \in Ues, AtStage("dereg", u) > 0
    PROVE  \/ phase' = "deregister" /\ (AtStage("dereg", u) > 0)'
           \/ Deregistered(u)
           \/ DeregisterDone /\ queue["dereg"][u] > 0
<1>1. LoopInv /\ LoopTypes /\ LoopTypes' /\ CycleInv
  BY LoopStep DEF OneInv, LoopInv
<1>2. u \in Items /\ u \in Ues /\ "dereg" \in Stages /\ u # None
  BY PipelineOK, StageNames
<1>3. queue["dereg"][u] \in Nat /\ queue'["dereg"][u] \in Nat
  BY <1>1, <1>2 DEF LoopTypes
<1>4. queue["dereg"][u] > 0 \/ held["dereg"] = u \/ u \in flight["dereg"]
  BY <1>3 DEF AtStage
<1>5. ASSUME queue'["dereg"][u] > 0 \/ held'["dereg"] = u \/ u \in flight'["dereg"] PROVE (AtStage("dereg", u) > 0)'
  BY <1>3, <1>5 DEF AtStage
<1>6. ASSUME queue'["dereg"] = queue["dereg"], held'["dereg"] = held["dereg"], flight'["dereg"] = flight["dereg"]
      PROVE  (AtStage("dereg", u) > 0)'
  BY <1>4, <1>5, <1>6
<1>7. ASSUME NEW s \in Stages, NEW i \in Items, s # "dereg", Leave(s, i) PROVE flight'["dereg"] = flight["dereg"]
  BY <1>1, <1>2, <1>7 DEF Leave, LoopTypes
<1>8. ASSUME NEW s \in Stages, NEW S, s # "dereg", queue' = Pushed(s, S) PROVE queue'["dereg"] = queue["dereg"]
  BY <1>1, <1>2, <1>8 DEF Pushed, LoopTypes
<1>9. ASSUME NEW s \in Stages, Dispatcher(s) PROVE phase' = "deregister" /\ (AtStage("dereg", u) > 0)'
  <2>1. UNCHANGED phase
    BY <1>9 DEF Dispatcher, Pop, LoopEnds, LoopReturns, BeginAttempt, BeginCycle, BeginDeregistration, SkipCycle,
                CpLoopStarts, Dispatch
  <2>2. CASE Pop(s)
    <3>1. PICK i \in Items : /\ queue[s][i] > 0 /\ held' = [held EXCEPT ![s] = i]
                             /\ queue' = [queue EXCEPT ![s][i] = @ - 1]
      BY <2>2 DEF Pop
    <3>2. held[s] = None /\ UNCHANGED flight
      BY <2>2 DEF Pop
    <3>3. CASE s = "dereg"
      <4>1. queue'[s][u] = queue[s][u] \/ held'[s] = u
        BY <1>1, <1>2, <3>1, <3>3 DEF LoopTypes
      <4> QED
        BY <1>2, <1>4, <1>5, <2>1, <3>2, <3>3, <4>1
    <3>4. CASE s # "dereg"
      BY <1>1, <1>2, <1>6, <2>1, <3>1, <3>2, <3>4 DEF LoopTypes
    <3> QED
      BY <3>3, <3>4, <2>1
  <2>3. CASE LoopEnds(s)
    <3>1. /\ held' = [held EXCEPT ![s] = None] /\ UNCHANGED flight
          /\ s # "n2" => queue' = Pushed(s, {held[s]})
          /\ s = "n2" => queue' = queue
      BY <2>3 DEF LoopEnds
    <3>2. CASE s = "dereg"
      <4>1. queue'[s][u] = IF u \in {held[s]} THEN queue[s][u] + 1 ELSE queue[s][u]
        BY <1>1, <1>2, <3>1, <3>2, PushedAt
      <4> QED
        BY <1>3, <1>4, <1>5, <2>1, <3>1, <3>2, <4>1
    <3>3. CASE s # "dereg"
      <4>1. queue'["dereg"] = queue["dereg"]
        BY <1>8, <3>1, <3>3
      <4> QED
        BY <1>1, <1>2, <1>6, <2>1, <3>1, <3>3, <4>1 DEF LoopTypes
    <3> QED
      BY <3>2, <3>3, <2>1
  <2>4. CASE LoopReturns(s)
    BY <1>6, <2>1, <2>4 DEF LoopReturns
  <2>5. ASSUME NEW r \in Stages, Dispatch(r) PROVE (AtStage("dereg", u) > 0)'
    <3>1. /\ flight' = [flight EXCEPT ![r] = @ \cup {held[r]}] /\ held' = [held EXCEPT ![r] = None]
          /\ UNCHANGED queue
      BY <2>5 DEF Dispatch
    <3>2. CASE r = "dereg"
      <4>1. flight'[r] = flight[r] \cup {held[r]}
        BY <1>1, <1>2, <3>1, <3>2 DEF LoopTypes
      <4> QED
        BY <1>4, <1>5, <3>1, <3>2, <4>1
    <3>3. CASE r # "dereg"
      BY <1>1, <1>2, <1>6, <3>1, <3>3 DEF LoopTypes
    <3> QED
      BY <3>2, <3>3
  <2>6. CASE BeginAttempt(s) \/ BeginCycle \/ BeginDeregistration
    BY <2>1, <2>5, <2>6, StageNames DEF BeginAttempt, BeginCycle, BeginDeregistration
  <2>7. CASE SkipCycle
    BY <1>1, <1>2, <1>6, <2>1, <2>7 DEF SkipCycle, LoopTypes
  <2>8. CASE CpLoopStarts
    <3>1. UNCHANGED <<held, flight>> /\ (queue' = queue \/ \E S : queue' = Pushed("cp", S))
      BY <2>8 DEF CpLoopStarts
    <3>2. queue'["dereg"] = queue["dereg"]
      BY <1>8, <3>1, StageNames
    <3> QED
      BY <1>6, <2>1, <3>1, <3>2
  <2> QED
    BY <1>9, <2>2, <2>3, <2>4, <2>6, <2>7, <2>8 DEF Dispatcher
<1>10. ASSUME NEW g \in Gnbs, GnbAttemptEnds(g) PROVE phase' = "deregister" /\ (AtStage("dereg", u) > 0)'
  <2>1. /\ UNCHANGED <<phase, held>> /\ Leave("n2", g)
        /\ \/ queue' = queue
           \/ \E s \in {"n2", "reg"} : \E S : queue' = Pushed(s, S)
    BY <1>10 DEF GnbAttemptEnds, N2Up, N2Fails, Retry
  <2>2. queue'["dereg"] = queue["dereg"] /\ flight'["dereg"] = flight["dereg"]
    BY <1>7, <1>8, <2>1, StageNames
  <2> QED
    BY <1>6, <2>1, <2>2
<1>11. ASSUME NEW v \in Ues, UeAttemptEnds(v)
       PROVE  (phase' = "deregister" /\ (AtStage("dereg", u) > 0)') \/ Deregistered(u)
  <2>1. v \in Items
    BY StageNames
  <2>2. CASE RegAccepted(v) \/ RegFails(v) \/ Retry("reg", v) \/ PduAccepted(v) \/ PduFails(v) \/ Retry("pdu", v)
    <3>1. /\ UNCHANGED <<phase, held>> /\ (Leave("reg", v) \/ Leave("pdu", v))
          /\ \/ queue' = queue
             \/ \E s \in {"reg", "pdu"} : \E S : queue' = Pushed(s, S)
      BY <2>2 DEF RegAccepted, RegFails, PduAccepted, PduFails, Retry
    <3>2. queue'["dereg"] = queue["dereg"] /\ flight'["dereg"] = flight["dereg"]
      BY <1>7, <1>8, <2>1, <3>1, StageNames
    <3> QED
      BY <1>6, <3>1, <3>2
  <2>3. CASE CpRegisters(v) \/ CpHolds(v) \/ CpDeregisters(v)
    <3>1. /\ UNCHANGED <<phase, held>> /\ (Leave("cp", v) \/ UNCHANGED flight)
          /\ queue' = queue \/ \E S : queue' = Pushed("cp", S)
      BY <2>3 DEF CpRegisters, CpHolds, CpDeregisters, Idle
    <3>2. queue'["dereg"] = queue["dereg"] /\ flight'["dereg"] = flight["dereg"]
      BY <1>7, <1>8, <2>1, <3>1, StageNames
    <3> QED
      BY <1>6, <3>1, <3>2
  <2>4. CASE DeregAccepted(v) \/ DeregAborted(v) \/ DeregFails(v)
    <3>1. /\ UNCHANGED <<phase, held, queue>> /\ flight' = [flight EXCEPT !["dereg"] = @ \ {v}]
          /\ Deregistered(v)
      BY <2>4 DEF DeregAccepted, DeregAborted, DeregFails, Deregistered, Leave
    <3>2. flight'["dereg"] = flight["dereg"] \ {v}
      BY <1>1, <1>2, <3>1 DEF LoopTypes
    <3>3. CASE v # u
      BY <1>4, <1>5, <3>1, <3>2, <3>3
    <3> QED
      BY <3>1, <3>3
  <2>5. CASE DeregRetry(v)
    <3>1. /\ UNCHANGED <<phase, held>> /\ flight' = [flight EXCEPT !["dereg"] = @ \ {v}]
          /\ queue' = Pushed("dereg", {v})
      BY <2>5 DEF DeregRetry, Leave
    <3>2. flight'["dereg"] = flight["dereg"] \ {v}
      BY <1>1, <1>2, <3>1 DEF LoopTypes
    <3>3. queue'["dereg"][u] = IF u \in {v} THEN queue["dereg"][u] + 1 ELSE queue["dereg"][u]
      BY <1>1, <1>2, <3>1, PushedAt
    <3> QED
      BY <1>3, <1>4, <1>5, <3>1, <3>2, <3>3
  <2> QED
    BY <1>11, <2>2, <2>3, <2>4, <2>5 DEF UeAttemptEnds
<1>12. CASE Execute
  <2>1. CASE DeregisterDone
    <3>1. loop["dereg"] = "returned"
      BY <2>1 DEF DeregisterDone
    <3>2. held["dereg"] = None /\ flight["dereg"] = {}
      BY <1>1, <1>2, <3>1 DEF LoopInv, IdleInv
    <3> QED
      BY <1>2, <1>3, <1>4, <2>1, <3>2
  <2>2. CASE \E g \in Gnbs : CloseTake(g) \/ CloseEnds(g)
    <3>1. UNCHANGED <<phase, held, queue, flight>>
      BY <2>2 DEF CloseTake, CloseEnds, loopVars
    <3> QED
      BY <1>6, <3>1
  <2> QED
    BY <1>12, <2>1, <2>2 DEF Execute, N2Done, Stopping, SkipUnfinished, DeregisterAll, Stopped
<1>13. CASE Stop \/ Abort \/ (\E g \in Gnbs : AssociationEnds(g) \/ Watcher(g)) \/ UNCHANGED vars
  <2>1. UNCHANGED <<phase, held, queue, flight>>
    BY <1>13 DEF Stop, Abort, AssociationEnds, Watcher, WatchCheck, WatchTake, WatchClose, loopVars, vars
  <2> QED
    BY <1>6, <2>1
<1> QED
  BY <1>9, <1>10, <1>11, <1>12, <1>13 DEF Next

LEMMA AbortStays == aborted /\ [Next]_vars => aborted'
<1> SUFFICES ASSUME aborted, [Next]_vars PROVE aborted'
  OBVIOUS
<1>1. CASE Execute
  BY <1>1 DEF Execute, N2Done, Stopping, SkipUnfinished, DeregisterAll, DeregisterDone, CloseTake, CloseEnds, Stopped,
              stopVars
<1>2. ASSUME NEW s \in Stages, Dispatcher(s) PROVE aborted'
  BY <1>2 DEF Dispatcher, Pop, LoopEnds, LoopReturns, BeginAttempt, BeginCycle, BeginDeregistration, SkipCycle,
              CpLoopStarts, Dispatch, stopVars
<1>3. ASSUME NEW g \in Gnbs, GnbAttemptEnds(g) \/ AssociationEnds(g) \/ Watcher(g) PROVE aborted'
  BY <1>3 DEF GnbAttemptEnds, N2Up, N2Fails, Retry, AssociationEnds, Watcher, WatchCheck, WatchTake, WatchClose,
              stopVars
<1>4. ASSUME NEW u \in Ues, UeAttemptEnds(u) PROVE aborted'
  <2>1. CASE RegAccepted(u) \/ RegFails(u) \/ Retry("reg", u) \/ PduAccepted(u) \/ PduFails(u) \/ Retry("pdu", u)
    BY <2>1 DEF RegAccepted, RegFails, PduAccepted, PduFails, Retry, stopVars
  <2>2. CASE CpRegisters(u) \/ CpHolds(u) \/ CpDeregisters(u)
    BY <2>2 DEF CpRegisters, CpHolds, CpDeregisters, stopVars
  <2>3. CASE DeregAccepted(u) \/ DeregAborted(u) \/ DeregFails(u) \/ DeregRetry(u)
    BY <2>3 DEF DeregAccepted, DeregAborted, DeregFails, DeregRetry, Deregistered, stopVars
  <2> QED
    BY <1>4, <2>1, <2>2, <2>3 DEF UeAttemptEnds
<1>5. CASE Stop \/ Abort \/ UNCHANGED vars
  BY <1>5 DEF Stop, Abort, vars, stopVars
<1> QED
  BY <1>1, <1>2, <1>3, <1>4, <1>5 DEF Next

LEMMA LinkStep == OneInv /\ ConnsInv /\ CleanInv /\ [Next]_vars => LinkInv'
<1> SUFFICES ASSUME OneInv, ConnsInv, CleanInv, [Next]_vars, NEW u \in Tp, link'[u], phase' \in Cleanup
             PROVE  \/ aborted' \/ GnbOf[u] \in MayLose
                    \/ phase' = "deregister" /\ (AtStage("dereg", u) > 0)'
  BY DEF LinkInv
<1>1. LoopInv /\ LoopTypes /\ AliveInv /\ UpInv /\ LinkInv
  BY DEF OneInv, LoopInv, CleanInv
<1>2. u \in Items /\ u \in Ues /\ GnbOf[u] \in Gnbs /\ "dereg" \in Stages /\ "reg" \in Stages
  BY PipelineOK, StageNames
<1>3. CASE phase \notin Cleanup
  <2>1. DeregisterAll
    BY <1>3, PhaseOrder DEF Onward
  <2> DEFINE todo == { v \in Ues : CanDeregister(v) }
  <2>2. link[u] /\ phase = "skipped"
    BY <2>1 DEF DeregisterAll, ueVars
  <2>3. CASE u \in todo
    <3>1. phase' = "deregister" /\ queue' = Pushed("dereg", todo) /\ UNCHANGED <<held, flight>>
      BY <2>1, <2>3 DEF DeregisterAll
    <3>2. queue["dereg"][u] \in Nat /\ queue'["dereg"][u] = queue["dereg"][u] + 1
      BY <1>1, <1>2, <2>3, <3>1, PushedAt DEF LoopTypes
    <3> QED
      BY <3>1, <3>2 DEF AtStage
  <2>4. CASE u \notin todo
    <3>1. ~alive[GnbOf[u]] \/ aborted
      BY <1>2, <2>2, <2>4 DEF CanDeregister
    <3>2. watch[GnbOf[u]] # "none"
      BY <1>1, <2>2 DEF UpInv
    <3>3. aborted \/ GnbOf[u] \in MayLose
      BY <1>1, <1>2, <2>2, <3>1, <3>2 DEF AliveInv
    <3>4. UNCHANGED aborted
      BY <2>1 DEF DeregisterAll, stopVars
    <3> QED
      BY <3>3, <3>4
  <2> QED
    BY <2>3, <2>4
<1>4. CASE phase \in Cleanup
  <2>1. ~RegAccepted(u)
    <3>1. flight["reg"] = {}
      BY <1>1, <1>2, <1>4 DEF LoopInv, PhaseInv, IdleInv, Cleanup
    <3> QED
      BY <3>1 DEF RegAccepted
  <2>2. link[u]
    BY <2>1, LinkMoves
  <2>3. aborted \/ GnbOf[u] \in MayLose \/ (phase = "deregister" /\ AtStage("dereg", u) > 0)
    BY <1>1, <1>4, <2>2 DEF LinkInv
  <2>4. aborted => aborted'
    BY AbortStays
  <2>5. ~Deregistered(u) /\ ~(DeregisterDone /\ queue["dereg"][u] > 0)
    BY <1>2 DEF Deregistered, DeregisterDone, CleanInv
  <2> QED
    BY <1>2, <2>3, <2>4, <2>5, DeregPlaces
<1> QED
  BY <1>3, <1>4

\* A step that reports no UE deregistered and registers none that is.
LEMMA CoreKeeps ==
    ASSUME CoreInv, phase \in Cleanup => phase' \in Cleanup,
           \A u \in Tp : uSt'[u] = "deregistered" => uSt[u] = "deregistered" /\ (u \in core' => u \in core)
    PROVE  CoreInv'
BY DEF CoreInv

\* One UE's new state.
LEMMA CoreOne ==
    ASSUME CoreInv, uSt \in [Ues -> UeStates], phase \in Cleanup => phase' \in Cleanup,
           NEW v \in Ues, NEW x, uSt' = [uSt EXCEPT ![v] = x], x # "deregistered" \/ v \notin Tp,
           core' \subseteq core \cup {v}
    PROVE  CoreInv'
<1>1. \A u \in Tp : uSt'[u] = IF u = v THEN x ELSE uSt[u]
  BY StageNames
<1> QED
  BY <1>1, CoreKeeps

LEMMA CoreAttempt ==
    ASSUME OneInv, LoadInv, CleanInv, phase \in Cleanup => phase' \in Cleanup, NEW u \in Ues, UeAttemptEnds(u)
    PROVE  CoreInv'
<1>1. LoopInv /\ LoopTypes /\ CycleInv /\ CoreInv /\ uSt \in [Ues -> UeStates]
  BY DEF OneInv, LoopInv, LoadInv, LoadTypes, CleanInv
<1>2. CASE RegAccepted(u)
  <2>1. uSt' = [uSt EXCEPT ![u] = "registered"] /\ core' = core \cup {u}
    BY <1>2 DEF RegAccepted
  <2> QED
    BY <1>1, <2>1, CoreOne
<1>3. CASE RegFails(u) \/ PduFails(u)
  <2>1. uSt' = [uSt EXCEPT ![u] = "failed"] /\ core' \subseteq core \cup {u}
    BY <1>3 DEF RegFails, PduFails
  <2> QED
    BY <1>1, <2>1, CoreOne
<1>4. CASE Retry("reg", u)
  <2>1. uSt' = [uSt EXCEPT ![u] = "pending"] /\ core' \subseteq core \cup {u}
    BY <1>4 DEF Retry
  <2> QED
    BY <1>1, <2>1, CoreOne
<1>5. CASE Retry("pdu", u)
  <2>1. uSt' = [uSt EXCEPT ![u] = "registered"] /\ core' \subseteq core \cup {u}
    BY <1>5 DEF Retry
  <2> QED
    BY <1>1, <2>1, CoreOne
<1>6. CASE PduAccepted(u)
  <2>1. uSt' = [uSt EXCEPT ![u] = "established"] /\ core' \subseteq core \cup {u}
    BY <1>6 DEF PduAccepted
  <2> QED
    BY <1>1, <2>1, CoreOne
<1>7. CASE CpRegisters(u) \/ CpHolds(u) \/ CpDeregisters(u)
  <2>1. u \in flight["cp"]
    BY <1>1, <1>7 DEF CycleInv, CpRegisters, CpHolds, CpDeregisters
  <2>2. u \notin Tp
    BY <1>1, <2>1, AttemptsKind, StageNames, PipelineOK DEF ItemsOf
  <2>3. /\ uSt' = uSt \/ \E x : uSt' = [uSt EXCEPT ![u] = x]
        /\ core' \subseteq core \cup {u}
    BY <1>7 DEF CpRegisters, CpHolds, CpDeregisters, Idle
  <2>4. CASE uSt' = uSt
    BY <1>1, <2>2, <2>3, <2>4, CoreKeeps
  <2>5. CASE \E x : uSt' = [uSt EXCEPT ![u] = x]
    <3>1. PICK x : uSt' = [uSt EXCEPT ![u] = x]
      BY <2>5
    <3> QED
      BY <1>1, <2>2, <2>3, <3>1, CoreOne
  <2> QED
    BY <2>3, <2>4, <2>5
<1>8. CASE DeregAccepted(u)
  <2>1. u \in flight["dereg"] /\ UNCHANGED phase /\ core' = core \ {u}
    BY <1>8 DEF DeregAccepted, Deregistered
  <2>2. loop["dereg"] \in {"loop", "wait"}
    BY <1>1, <2>1, AttemptsLoop, StageNames
  <2>3. phase' \in Cleanup
    BY <1>1, <2>1, <2>2 DEF LoopInv, LoopTypes, Phases, PhaseInv, Cleanup
  <2>4. \A v \in Ues : v # u => uSt'[v] = uSt[v]
    BY <1>1, <1>8 DEF DeregAccepted, CleanupState
  <2> QED
    BY <1>1, <2>1, <2>3, <2>4, StageNames DEF CoreInv
<1>9. CASE DeregAborted(u) \/ DeregFails(u)
  <2>1. /\ \/ uSt' = [uSt EXCEPT ![u] = IF @ = "failed" THEN @ ELSE "cancelled"]
           \/ uSt' = [uSt EXCEPT ![u] = IF @ = "failed" THEN @ ELSE "failed"]
        /\ core' \subseteq core
    BY <1>9 DEF DeregAborted, DeregFails, CleanupState
  <2>2. \E x : uSt' = [uSt EXCEPT ![u] = x] /\ x # "deregistered"
    BY <2>1
  <2> QED
    BY <1>1, <2>1, <2>2, CoreOne
<1>10. CASE DeregRetry(u)
  <2>1. uSt' = uSt /\ core' \subseteq core
    BY <1>10 DEF DeregRetry
  <2> QED
    BY <1>1, <2>1, CoreKeeps
<1> QED
  BY <1>2, <1>3, <1>4, <1>5, <1>6, <1>7, <1>8, <1>9, <1>10 DEF UeAttemptEnds

LEMMA CoreStep == OneInv /\ LoadInv /\ CleanInv /\ [Next]_vars => CoreInv'
<1> SUFFICES ASSUME OneInv, LoadInv, CleanInv, [Next]_vars PROVE CoreInv'
  OBVIOUS
<1>1. LoopInv /\ CoreInv /\ uSt \in [Ues -> UeStates]
  BY DEF OneInv, LoadInv, LoadTypes, CleanInv
<1>2. phase \in Cleanup => phase' \in Cleanup
  BY PhaseOrder DEF Onward
<1>3. ASSUME UNCHANGED <<uSt, core>> PROVE CoreInv'
  BY <1>1, <1>2, <1>3, CoreKeeps
<1>4. ASSUME NEW s \in Stages, Dispatcher(s) PROVE CoreInv'
  <2>1. UNCHANGED core
    BY <1>4 DEF Dispatcher, Pop, LoopEnds, LoopReturns, BeginAttempt, BeginCycle, BeginDeregistration, SkipCycle,
                CpLoopStarts, Dispatch, ueVars
  <2>2. CASE Pop(s) \/ LoopEnds(s) \/ LoopReturns(s) \/ CpLoopStarts
    BY <1>3, <2>2 DEF Pop, LoopEnds, LoopReturns, CpLoopStarts, ueVars
  <2>3. ASSUME NEW r \in Stages, loop[r] = "loop", held[r] # None, NEW x, x # "deregistered",
               uSt' = [uSt EXCEPT ![held[r]] = x]
        PROVE  CoreInv'
    <3>1. \A v \in Ues : uSt'[v] = uSt[v] \/ uSt'[v] = x
      BY <1>1, <2>3
    <3> QED
      BY <1>1, <1>2, <2>1, <2>3, <3>1, CoreKeeps, StageNames
  <2>4. CASE BeginAttempt(s)
    <3>1. UNCHANGED uSt \/ (loop[s] = "loop" /\ held[s] # None
                            /\ \E x \in {"registering", "establishing"} : uSt' = [uSt EXCEPT ![held[s]] = x])
      BY <2>4 DEF BeginAttempt, Dispatch
    <3> QED
      BY <1>3, <2>1, <2>3, <3>1
  <2>5. CASE BeginCycle
    <3>1. loop["cp"] = "loop" /\ held["cp"] # None /\ uSt' = [uSt EXCEPT ![held["cp"]] = "registering"]
      BY <2>5 DEF BeginCycle, Dispatch
    <3> QED
      BY <2>3, <3>1, StageNames
  <2>6. CASE SkipCycle
    <3>1. loop["cp"] = "loop" /\ held["cp"] # None /\ uSt' = [uSt EXCEPT ![held["cp"]] = "skipped"]
      BY <2>6 DEF SkipCycle
    <3> QED
      BY <2>3, <3>1, StageNames
  <2>7. CASE BeginDeregistration
    <3>1. /\ loop["dereg"] = "loop" /\ held["dereg"] # None
          /\ uSt' = [uSt EXCEPT ![held["dereg"]] = IF @ = "failed" THEN @ ELSE "deregistering"]
      BY <2>7 DEF BeginDeregistration, Dispatch, CleanupState
    <3>2. CASE uSt[held["dereg"]] = "failed"
      <4>1. uSt' = [uSt EXCEPT ![held["dereg"]] = "failed"]
        BY <3>1, <3>2
      <4> QED
        BY <2>3, <3>1, <4>1, StageNames
    <3>3. CASE uSt[held["dereg"]] # "failed"
      <4>1. uSt' = [uSt EXCEPT ![held["dereg"]] = "deregistering"]
        BY <3>1, <3>3
      <4> QED
        BY <2>3, <3>1, <4>1, StageNames
    <3> QED
      BY <3>2, <3>3
  <2> QED
    BY <1>4, <2>2, <2>4, <2>5, <2>6, <2>7 DEF Dispatcher
<1>5. ASSUME NEW g \in Gnbs, GnbAttemptEnds(g) PROVE CoreInv'
  <2>1. CASE N2Up(g) \/ Retry("n2", g)
    BY <1>3, <2>1 DEF N2Up, Retry, ueVars
  <2>2. CASE N2Fails(g)
    <3>1. UNCHANGED core /\ uSt' = [u \in Ues |-> IF GnbOf[u] = g THEN "skipped" ELSE uSt[u]]
      BY <2>2 DEF N2Fails
    <3>2. \A u \in Tp : uSt'[u] = "deregistered" => uSt[u] = "deregistered"
      BY <3>1, StageNames
    <3> QED
      BY <1>1, <1>2, <3>1, <3>2, CoreKeeps
  <2> QED
    BY <1>5, <2>1, <2>2 DEF GnbAttemptEnds
<1>6. CASE Execute
  <2>1. CASE SkipUnfinished
    <3>1. UNCHANGED core
      BY <2>1 DEF SkipUnfinished
    <3>2. \A u \in Tp : u \in Ues /\ u \notin Cp
      BY PipelineOK, StageNames
    <3>3. \A u \in Ues : u \notin Cp => uSt'[u] = "cancelled" \/ uSt'[u] = uSt[u]
      BY <1>1, <2>1 DEF SkipUnfinished
    <3> QED
      BY <1>1, <1>2, <3>1, <3>2, <3>3, CoreKeeps
  <2>2. CASE DeregisterDone
    <3>1. UNCHANGED core
      BY <2>2 DEF DeregisterDone
    <3>2. \A u \in Ues : uSt'[u] = "cancelled" \/ uSt'[u] = uSt[u]
      BY <1>1, <2>2 DEF DeregisterDone
    <3> QED
      BY <1>1, <1>2, <3>1, <3>2, CoreKeeps, StageNames
  <2>3. CASE N2Done \/ Stopping \/ DeregisterAll \/ Stopped
    BY <1>3, <2>3 DEF N2Done, Stopping, DeregisterAll, Stopped, ueVars
  <2>4. CASE \E g \in Gnbs : CloseTake(g) \/ CloseEnds(g)
    BY <1>3, <2>4 DEF CloseTake, CloseEnds, ueVars
  <2> QED
    BY <1>6, <2>1, <2>2, <2>3, <2>4 DEF Execute
<1>7. CASE Stop \/ Abort \/ (\E g \in Gnbs : AssociationEnds(g) \/ Watcher(g)) \/ UNCHANGED vars
  BY <1>3, <1>7 DEF Stop, Abort, AssociationEnds, Watcher, WatchCheck, WatchTake, WatchClose, ueVars, vars
<1> QED
  BY <1>2, <1>4, <1>5, <1>6, <1>7, CoreAttempt DEF Next

LEMMA CleanStep == OneInv /\ ConnsInv /\ LoadInv /\ CleanInv /\ [Next]_vars => CleanInv'
BY AliveStep, LinkMoves, UpStep, LinkStep, CoreStep DEF CleanInv

\* What cleanup leaves behind it: no UE that reached the core keeps its registration, unless
\* the cleanup was aborted or the core ended the gNB's association; and a UE reported
\* deregistered is out of the core.
THEOREM CleanedUpAlways == Spec => []CleanedUp
<1>1. Init => OneInv /\ ConnsInv /\ LoadInv /\ CleanInv
  BY OneInit, ConnsInit, LoadInit, CleanInit
<1>2. OneInv /\ ConnsInv /\ LoadInv /\ CleanInv /\ [Next]_vars => (OneInv /\ ConnsInv /\ LoadInv /\ CleanInv)'
  BY OneStep, ConnsStep, LoadStep, CleanStep
<1>3. CleanInv => CleanedUp
  BY DEF CleanInv, LinkInv, CoreInv, CleanedUp, Cleanup
<1> QED
  BY <1>1, <1>2, <1>3, PTL DEF Spec

-----------------------------------------------------------------------------
(* How items come to their stages, and leave them.                         *)

\* How an item comes to a stage it was not in.
Entered(s, i) ==
    \/ s = "reg" /\ i \in Tp /\ N2Up(GnbOf[i])
    \/ s = "pdu" /\ i \in Ues /\ RegAccepted(i)
    \/ s = "cp" /\ CpLoopStarts
    \/ s = "dereg" /\ DeregisterAll /\ i \in Ues /\ CanDeregister(i)

LEMMA Enters ==
    ASSUME OneInv, [Next]_vars, NEW s \in Stages, NEW i \in Items, AtStage(s, i) = 0, (AtStage(s, i) > 0)'
    PROVE  Entered(s, i)
<1>1. LoopInv /\ LoopTypes /\ LoopTypes' /\ (NoMore \/ Moves)
  BY LoopStep DEF OneInv, LoopInv
<1>2. AtStage(s, i) \in Nat /\ (AtStage(s, i) \in Nat)'
  <2>1. queue'[s][i] \in Nat
    BY <1>1 DEF LoopTypes
  <2> QED
    BY <1>1, <2>1, PlaceNat DEF AtStage
<1>3. ~NoMore
  BY <1>2 DEF NoMore
<1>4. ASSUME NEW t \in Stages, NEW S, queue' = Pushed(t, S), UNCHANGED held,
             \A r \in Stages : flight'[r] \subseteq flight[r]
      PROVE  s = t /\ i \in S
  <2> SUFFICES ASSUME ~(s = t /\ i \in S) PROVE FALSE
    OBVIOUS
  <2>1. queue'[s][i] = queue[s][i]
    BY <1>1, <1>4, PushedAt
  <2> QED
    BY <1>1, <1>2, <1>4, <2>1, NotAdded
<1>5. ASSUME UNCHANGED <<held, flight, queue>> PROVE FALSE
  BY <1>1, <1>2, <1>5, NotAdded
<1>6. ASSUME NEW g \in Gnbs, N2Up(g) PROVE Entered(s, i)
  <2>1. /\ queue' = Pushed("reg", UesOf(g) \cap Tp) /\ UNCHANGED held
        /\ flight' = [flight EXCEPT !["n2"] = @ \ {g}]
    BY <1>6 DEF N2Up, Leave
  <2>2. \A r \in Stages : flight'[r] \subseteq flight[r]
    BY <1>1, <2>1 DEF LoopTypes
  <2>3. s = "reg" /\ i \in UesOf(g) \cap Tp
    BY <1>4, <2>1, <2>2, StageNames
  <2> QED
    BY <1>6, <2>3 DEF UesOf, Entered
<1>7. ASSUME NEW v \in Ues, RegAccepted(v) PROVE Entered(s, i)
  <2>1. /\ queue' = Pushed("pdu", {v}) /\ UNCHANGED held
        /\ flight' = [flight EXCEPT !["reg"] = @ \ {v}]
    BY <1>7 DEF RegAccepted, Leave
  <2>2. \A r \in Stages : flight'[r] \subseteq flight[r]
    BY <1>1, <2>1 DEF LoopTypes
  <2>3. s = "pdu" /\ i \in {v}
    BY <1>4, <2>1, <2>2, StageNames
  <2> QED
    BY <1>7, <2>3 DEF Entered
<1>8. CASE CpLoopStarts
  <2>1. UNCHANGED <<held, flight>> /\ (queue' = queue \/ \E S : queue' = Pushed("cp", S))
    BY <1>8 DEF CpLoopStarts
  <2>2. s = "cp"
    BY <1>4, <1>5, <2>1, StageNames
  <2> QED
    BY <1>8, <2>2 DEF Entered
<1>9. CASE DeregisterAll
  <2> DEFINE todo == { v \in Ues : CanDeregister(v) }
  <2>1. UNCHANGED <<held, flight>> /\ (queue' = queue \/ queue' = Pushed("dereg", todo))
    BY <1>9 DEF DeregisterAll
  <2> HIDE DEF todo
  <2>2. s = "dereg" /\ i \in todo
    BY <1>4, <1>5, <2>1, StageNames
  <2> QED
    BY <1>9, <2>2 DEF Entered, todo
<1> QED
  BY <1>3, <1>1, <1>6, <1>7, <1>8, <1>9 DEF Moves

\* The attempt for i that has just ended was i's only place.
LEMMA Leaves ==
    ASSUME LoopInv, NEW s \in Stages, NEW i \in Items, i \in flight[s], Leave(s, i), UNCHANGED held,
           queue'[s][i] = queue[s][i]
    PROVE  (AtStage(s, i) = 0)'
<1>1. LoopTypes /\ AtStage(s, i) <= 1 /\ queue[s][i] \in Nat
  BY PlaceNat DEF LoopInv, OnceInv
<1>2. queue[s][i] = 0 /\ held[s] # i
  BY <1>1 DEF AtStage
<1>3. flight'[s] = flight[s] \ {i}
  BY <1>1 DEF Leave, LoopTypes
<1> QED
  BY <1>2, <1>3 DEF AtStage

\* The stages of a UE that has had its outcome are behind it.
DoneInv ==
    /\ regDone \in [Ues -> BOOLEAN] /\ pduDone \in [Ues -> BOOLEAN]
    /\ \A u \in Cp : regDone[u]
    /\ \A u \in Tp :
         /\ AtStage("reg", u) > 0 => ~regDone[u] /\ ~pduDone[u]
         /\ AtStage("pdu", u) > 0 => ~pduDone[u]
         /\ phase = "n2" /\ AtStage("n2", GnbOf[u]) > 0 => ~regDone[u] /\ ~pduDone[u]

LEMMA DoneInit == Init => DoneInv
<1> SUFFICES ASSUME Init PROVE DoneInv
  OBVIOUS
<1>1. regDone = [u \in Ues |-> u \in Cp] /\ pduDone = [u \in Ues |-> u \in Cp]
  BY DEF Init
<1>2. \A u \in Tp : u \notin Cp /\ u \in Ues
  BY PipelineOK, StageNames
<1>3. regDone \in [Ues -> BOOLEAN] /\ pduDone \in [Ues -> BOOLEAN]
  <2>1. [u \in Ues |-> u \in Cp] \in [Ues -> BOOLEAN]
    OBVIOUS
  <2> QED
    BY <1>1, <2>1
<1>5. \A u \in Cp : regDone[u]
  BY <1>1, StageNames
<1>4. \A u \in Tp : ~regDone[u] /\ ~pduDone[u]
  BY <1>1, <1>2
<1> QED
  BY <1>3, <1>4, <1>5 DEF DoneInv

\* The steps that give u its outcome.
GivesOutcome(u) ==
    \/ RegAccepted(u) \/ RegFails(u) \/ PduAccepted(u) \/ PduFails(u)
    \/ N2Fails(GnbOf[u]) \/ SkipUnfinished

LEMMA DoneMoves ==
    ASSUME DoneInv, [Next]_vars
    PROVE  /\ regDone' \in [Ues -> BOOLEAN] /\ pduDone' \in [Ues -> BOOLEAN]
           /\ \A u \in Cp : regDone'[u]
           /\ \A u \in Tp : GivesOutcome(u) \/ (regDone'[u] = regDone[u] /\ pduDone'[u] = pduDone[u])
<1> DEFINE Goal == /\ regDone' \in [Ues -> BOOLEAN] /\ pduDone' \in [Ues -> BOOLEAN]
                   /\ \A u \in Cp : regDone'[u]
                   /\ \A u \in Tp : GivesOutcome(u) \/ (regDone'[u] = regDone[u] /\ pduDone'[u] = pduDone[u])
<1>1. ASSUME UNCHANGED <<regDone, pduDone>> PROVE Goal
  BY <1>1 DEF DoneInv
<1>2. ASSUME NEW S, regDone' = regDone \/ regDone' = [u \in Ues |-> regDone[u] \/ u \in S],
             pduDone' = [u \in Ues |-> pduDone[u] \/ u \in S] \/ pduDone' = pduDone,
             \A u \in Tp : u \in S => GivesOutcome(u)
      PROVE  Goal
  <2>1. regDone' \in [Ues -> BOOLEAN] /\ pduDone' \in [Ues -> BOOLEAN]
    BY <1>2 DEF DoneInv
  <2>2. \A u \in Ues : (regDone[u] => regDone'[u])
                       /\ (u \notin S => regDone'[u] = regDone[u] /\ pduDone'[u] = pduDone[u])
    BY <1>2 DEF DoneInv
  <2>3. (\A u \in Cp : regDone'[u])
        /\ \A u \in Tp : GivesOutcome(u) \/ (regDone'[u] = regDone[u] /\ pduDone'[u] = pduDone[u])
    BY <1>2, <2>2, StageNames DEF DoneInv
  <2> QED
    BY <2>1, <2>3
<1>3. ASSUME NEW v \in Ues, UeAttemptEnds(v) PROVE Goal
  <2>1. CASE RegAccepted(v) \/ RegFails(v) \/ PduAccepted(v) \/ PduFails(v)
    <3>1. /\ regDone' = regDone \/ regDone' = [regDone EXCEPT ![v] = TRUE]
          /\ pduDone' = [u \in Ues |-> pduDone[u] \/ u \in {v}] \/ pduDone' = pduDone
      BY <2>1 DEF RegAccepted, RegFails, PduAccepted, PduFails, PduMarked
    <3>2. regDone' = regDone \/ regDone' = [u \in Ues |-> regDone[u] \/ u \in {v}]
      BY <3>1 DEF DoneInv
    <3>3. \A u \in Tp : u \in {v} => GivesOutcome(u)
      BY <2>1 DEF GivesOutcome
    <3> QED
      BY <1>2, <3>1, <3>2, <3>3
  <2>2. CASE Retry("reg", v) \/ Retry("pdu", v)
    BY <1>1, <2>2 DEF Retry
  <2>3. CASE CpRegisters(v) \/ CpHolds(v) \/ CpDeregisters(v)
    BY <1>1, <2>3 DEF CpRegisters, CpHolds, CpDeregisters
  <2>4. CASE DeregAccepted(v) \/ DeregAborted(v) \/ DeregFails(v) \/ DeregRetry(v)
    BY <1>1, <2>4 DEF DeregAccepted, DeregAborted, DeregFails, DeregRetry, Deregistered
  <2> QED
    BY <1>3, <2>1, <2>2, <2>3, <2>4 DEF UeAttemptEnds
<1>4. ASSUME NEW g \in Gnbs, GnbAttemptEnds(g) PROVE Goal
  <2>1. CASE N2Fails(g)
    <3> DEFINE S == UesOf(g) \cap Tp
    <3>1. /\ regDone' = [u \in Ues |-> regDone[u] \/ u \in S] /\ pduDone' = [u \in Ues |-> pduDone[u] \/ u \in S]
      BY <2>1 DEF N2Fails
    <3>2. \A u \in Tp : u \in S => GivesOutcome(u)
      BY <2>1 DEF GivesOutcome, UesOf
    <3> QED
      BY <1>2, <3>1, <3>2
  <2>2. CASE N2Up(g) \/ Retry("n2", g)
    BY <1>1, <2>2 DEF N2Up, Retry, ueVars
  <2> QED
    BY <1>4, <2>1, <2>2 DEF GnbAttemptEnds
<1>5. CASE Execute
  <2>1. CASE SkipUnfinished
    <3>1. regDone' = [u \in Ues |-> regDone[u] \/ u \in Ues]
          /\ \E S : pduDone' = [u \in Ues |-> pduDone[u] \/ u \in S]
      BY <2>1 DEF SkipUnfinished, PduMarked, DoneInv
    <3>2. regDone' \in [Ues -> BOOLEAN] /\ pduDone' \in [Ues -> BOOLEAN] /\ \A u \in Ues : regDone'[u]
      BY <3>1 DEF DoneInv
    <3> QED
      BY <2>1, <3>2, StageNames DEF GivesOutcome
  <2>2. CASE N2Done \/ Stopping \/ DeregisterAll \/ DeregisterDone \/ Stopped
    BY <1>1, <2>2 DEF N2Done, Stopping, DeregisterAll, DeregisterDone, Stopped, ueVars
  <2>3. CASE \E g \in Gnbs : CloseTake(g) \/ CloseEnds(g)
    BY <1>1, <2>3 DEF CloseTake, CloseEnds, ueVars
  <2> QED
    BY <1>5, <2>1, <2>2, <2>3 DEF Execute
<1>6. ASSUME NEW s \in Stages, Dispatcher(s) PROVE Goal
  BY <1>1, <1>6 DEF Dispatcher, Pop, LoopEnds, LoopReturns, BeginAttempt, BeginCycle, BeginDeregistration,
                    SkipCycle, CpLoopStarts, Dispatch, ueVars
<1>7. CASE Stop \/ Abort \/ (\E g \in Gnbs : AssociationEnds(g) \/ Watcher(g)) \/ UNCHANGED vars
  BY <1>1, <1>7 DEF Stop, Abort, AssociationEnds, Watcher, WatchCheck, WatchTake, WatchClose, ueVars, vars
<1>8. Goal
  BY <1>3, <1>4, <1>5, <1>6, <1>7 DEF Next
<1> QED
  BY <1>8 DEF Goal

LEMMA DoneStep == OneInv /\ DoneInv /\ [Next]_vars => DoneInv'
<1> SUFFICES ASSUME OneInv, DoneInv, [Next]_vars, NEW u \in Tp
             PROVE  /\ (AtStage("reg", u) > 0)' => ~regDone'[u] /\ ~pduDone'[u]
                    /\ (AtStage("pdu", u) > 0)' => ~pduDone'[u]
                    /\ phase' = "n2" /\ (AtStage("n2", GnbOf[u]) > 0)' => ~regDone'[u] /\ ~pduDone'[u]
  BY DoneMoves DEF DoneInv
<1>1. LoopInv /\ LoopTypes /\ LoopInv' /\ LoopTypes'
  BY LoopStep DEF OneInv, LoopInv
<1>2. /\ u \in Items /\ u \in Ues /\ GnbOf[u] \in Gnbs /\ GnbOf[u] \in Items
      /\ "n2" \in Stages /\ "reg" \in Stages /\ "pdu" \in Stages
  BY PipelineOK, StageNames
<1>3. \A s \in Stages, i \in Items : AtStage(s, i) \in Nat
  BY <1>1, PlaceNat
<1>4. (AtStage("n2", GnbOf[u]) > 0)' => AtStage("n2", GnbOf[u]) > 0
  <2> SUFFICES ASSUME (AtStage("n2", GnbOf[u]) > 0)', AtStage("n2", GnbOf[u]) = 0 PROVE FALSE
    BY <1>2, <1>3
  <2> QED
    BY <1>2, Enters DEF Entered
<1>5. phase' = "n2" => phase = "n2"
  BY PhaseOrder DEF Onward
<1>6. ASSUME NEW g \in Gnbs, g \in flight["n2"] PROVE phase = "n2" /\ AtStage("n2", g) > 0
  BY <1>1, <1>6, AttemptsLoop, AttemptsKind, StageNames DEF LoopInv, PhaseInv
<1>7. CASE regDone'[u] = regDone[u] /\ pduDone'[u] = pduDone[u]
  <2>1. (AtStage("reg", u) > 0)' => ~regDone'[u] /\ ~pduDone'[u]
    <3>1. CASE AtStage("reg", u) > 0
      BY <1>7, <3>1 DEF DoneInv
    <3>2. ASSUME AtStage("reg", u) = 0, (AtStage("reg", u) > 0)' PROVE ~regDone'[u] /\ ~pduDone'[u]
      <4>1. N2Up(GnbOf[u])
        BY <1>2, <3>2, Enters DEF Entered
      <4>2. phase = "n2" /\ AtStage("n2", GnbOf[u]) > 0
        BY <1>2, <1>6, <4>1 DEF N2Up
      <4> QED
        BY <1>7, <4>2 DEF DoneInv
    <3> QED
      BY <1>2, <1>3, <3>1, <3>2
  <2>2. (AtStage("pdu", u) > 0)' => ~pduDone'[u]
    <3>1. CASE AtStage("pdu", u) > 0
      BY <1>7, <3>1 DEF DoneInv
    <3>2. ASSUME AtStage("pdu", u) = 0, (AtStage("pdu", u) > 0)' PROVE ~pduDone'[u]
      <4>1. RegAccepted(u)
        BY <1>2, <3>2, Enters DEF Entered
      <4>2. AtStage("reg", u) > 0
        BY <1>1, <1>2, <4>1, AttemptsKind DEF RegAccepted
      <4> QED
        BY <1>7, <4>2 DEF DoneInv
    <3> QED
      BY <1>2, <1>3, <3>1, <3>2
  <2>3. phase' = "n2" /\ (AtStage("n2", GnbOf[u]) > 0)' => ~regDone'[u] /\ ~pduDone'[u]
    BY <1>4, <1>5, <1>7 DEF DoneInv
  <2> QED
    BY <2>1, <2>2, <2>3
<1>8. ASSUME NEW s \in {"reg", "pdu"}, u \in flight[s], Leave(s, u), UNCHANGED held, queue'[s][u] = queue[s][u]
      PROVE  /\ (AtStage(s, u) = 0)'
             /\ phase' = "n2" => ~(AtStage("n2", GnbOf[u]) > 0)'
             /\ \A t \in Stages : t # s => AtStage(t, u) = 0
  <2>1. s \in Stages /\ AtStage(s, u) > 0
    BY <1>1, <1>2, <1>8, AttemptsKind
  <2>2. (AtStage(s, u) = 0)'
    BY <1>1, <1>2, <1>8, <2>1, Leaves
  <2>3. phase = "n2" => ~(AtStage("n2", GnbOf[u]) > 0)
    BY <1>1, <1>2, <2>1 DEF LoopInv, WaitInv
  <2>4. \A t \in Stages : t # s => AtStage(t, u) = 0
    BY <1>1, <1>2, <2>1 DEF LoopInv, OnceInv
  <2> QED
    BY <1>4, <1>5, <2>2, <2>3, <2>4
<1>9. CASE RegAccepted(u)
  <2>1. /\ u \in flight["reg"] /\ Leave("reg", u) /\ UNCHANGED <<held, pduDone>> /\ queue' = Pushed("pdu", {u})
    BY <1>9 DEF RegAccepted
  <2>2. queue'["reg"][u] = queue["reg"][u]
    BY <1>1, <1>2, <2>1, PushedAt
  <2>3. (AtStage("reg", u) = 0)' /\ (phase' = "n2" => ~(AtStage("n2", GnbOf[u]) > 0)')
    BY <1>8, <2>1, <2>2
  <2>4. ~pduDone'[u]
    BY <1>1, <1>2, <2>1, AttemptsKind DEF DoneInv
  <2> QED
    BY <2>3, <2>4
<1>10. CASE RegFails(u) \/ PduAccepted(u) \/ PduFails(u)
  <2>1. /\ (u \in flight["reg"] /\ Leave("reg", u)) \/ (u \in flight["pdu"] /\ Leave("pdu", u))
        /\ UNCHANGED <<held, queue>>
    BY <1>10 DEF RegFails, PduAccepted, PduFails
  <2>2. PICK s \in {"reg", "pdu"} : u \in flight[s] /\ Leave(s, u)
    BY <2>1
  <2>3. /\ (AtStage(s, u) = 0)' /\ (phase' = "n2" => ~(AtStage("n2", GnbOf[u]) > 0)')
        /\ \A t \in Stages : t # s => AtStage(t, u) = 0
    BY <1>8, <2>1, <2>2
  <2>4. \A t \in {"reg", "pdu"} : t # s => (AtStage(t, u) = 0)'
    <3> SUFFICES ASSUME NEW t \in {"reg", "pdu"}, t # s PROVE (AtStage(t, u) = 0)'
      OBVIOUS
    <3>1. flight'[t] \subseteq flight[t]
      BY <1>1, <1>2, <2>2 DEF Leave, LoopTypes
    <3> QED
      BY <1>1, <1>2, <2>1, <2>3, <3>1, NotAdded
  <2>5. (AtStage("reg", u) = 0)' /\ (AtStage("pdu", u) = 0)'
    BY <2>2, <2>3, <2>4
  <2> QED
    BY <2>3, <2>5
<1>11. CASE N2Fails(GnbOf[u])
  <2>1. GnbOf[u] \in flight["n2"] /\ Leave("n2", GnbOf[u]) /\ UNCHANGED <<held, queue>>
    BY <1>11 DEF N2Fails
  <2>2. phase = "n2" /\ AtStage("n2", GnbOf[u]) > 0
    BY <1>2, <1>6, <2>1
  <2>3. \A s \in Stages : AtStage(s, u) = 0 /\ flight'[s] \subseteq flight[s]
    BY <1>1, <2>1, <2>2 DEF LoopInv, WaitInv, Leave, LoopTypes
  <2>4. (AtStage("reg", u) = 0)' /\ (AtStage("pdu", u) = 0)'
    BY <1>1, <1>2, <2>1, <2>3, NotAdded
  <2>5. (AtStage("n2", GnbOf[u]) = 0)'
    BY <1>1, <1>2, <2>1, Leaves
  <2> QED
    BY <2>4, <2>5
<1>12. CASE SkipUnfinished
  <2>1. phase' = "skipped"
    BY <1>12 DEF SkipUnfinished
  <2>2. \A s \in {"reg", "pdu"} : loop'[s] = "returned" /\ queue'[s][u] = 0
    BY <1>1, <1>2, <2>1 DEF LoopInv, PhaseInv
  <2>3. \A s \in {"reg", "pdu"} : held'[s] = None /\ flight'[s] = {}
    BY <1>1, <1>2, <2>2 DEF LoopInv, IdleInv
  <2>4. u # None
    BY <1>2, PipelineOK
  <2>5. (AtStage("reg", u) = 0)' /\ (AtStage("pdu", u) = 0)'
    BY <2>2, <2>3, <2>4 DEF AtStage
  <2> QED
    BY <2>1, <2>5
<1> QED
  BY <1>7, <1>9, <1>10, <1>11, <1>12, DoneMoves DEF GivesOutcome

\* A gNB is pending or connecting exactly until its outcome.
Waiting == {"pending", "connecting"}

GnbInv ==
    /\ gSt \in [Gnbs -> {"pending", "connecting", "up", "failed", "lost", "closed"}]
    /\ \A g \in Gnbs : watch[g] # "none" => gSt[g] \notin Waiting
    /\ \A g \in Gnbs : phase = "n2" /\ AtStage("n2", g) > 0 => gSt[g] \in Waiting

LEMMA GnbInit == Init => GnbInv
BY DEF Init, GnbInv, Waiting

\* While runN2's dispatcher holds or attempts a gNB, the run is in its first phase.
LEMMA N2Phase ==
    ASSUME LoopInv, GnbInv, NEW g \in Gnbs, g \in flight["n2"] \/ held["n2"] = g
    PROVE  phase = "n2" /\ AtStage("n2", g) > 0 /\ gSt[g] \in Waiting /\ watch[g] = "none"
<1>1. g \in Items /\ g # None /\ "n2" \in Stages
  BY PipelineOK, StageNames
<1>2. AtStage("n2", g) > 0 /\ loop["n2"] \in {"loop", "wait"}
  BY <1>1, AttemptsKind, AttemptsLoop
<1>3. phase = "n2"
  BY <1>2 DEF LoopInv, PhaseInv
<1> QED
  BY <1>2, <1>3 DEF GnbInv

\* The steps that change a gNB's state.
GnbSteps(g) ==
    \/ BeginAttempt("n2") /\ held["n2"] = g
    \/ Retry("n2", g) \/ N2Up(g) \/ N2Fails(g) \/ WatchClose(g) \/ CloseEnds(g)

LEMMA GnbMoves ==
    ASSUME OneInv, GnbInv, [Next]_vars
    PROVE  /\ gSt' \in [Gnbs -> {"pending", "connecting", "up", "failed", "lost", "closed"}]
           /\ \A g \in Gnbs : gSt'[g] = gSt[g] \/ GnbSteps(g)
<1> DEFINE Goal == /\ gSt' \in [Gnbs -> {"pending", "connecting", "up", "failed", "lost", "closed"}]
                   /\ \A g \in Gnbs : gSt'[g] = gSt[g] \/ GnbSteps(g)
<1>1. ASSUME UNCHANGED gSt PROVE Goal
  BY <1>1 DEF GnbInv
<1>2. ASSUME NEW g \in Gnbs, NEW x \in {"pending", "connecting", "up", "failed", "lost", "closed"},
             gSt' = [gSt EXCEPT ![g] = x], GnbSteps(g)
      PROVE  Goal
  BY <1>2 DEF GnbInv
<1>3. ASSUME NEW g \in Gnbs, GnbAttemptEnds(g) PROVE Goal
  <2>1. \E x \in {"pending", "up", "failed"} : gSt' = [gSt EXCEPT ![g] = x]
    BY <1>3 DEF GnbAttemptEnds, N2Up, N2Fails, Retry
  <2>2. GnbSteps(g)
    BY <1>3 DEF GnbAttemptEnds, GnbSteps
  <2> QED
    BY <1>2, <2>1, <2>2
<1>4. ASSUME NEW s \in Stages, Dispatcher(s) PROVE Goal
  <2>1. CASE BeginAttempt("n2")
    <3>1. held["n2"] \in Items /\ held["n2"] # None
      BY <2>1, StageNames DEF BeginAttempt, Dispatch, OneInv, LoopInv, LoopTypes
    <3>2. held["n2"] \in Gnbs
      BY <3>1, AttemptsKind, StageNames DEF ItemsOf, OneInv
    <3>3. gSt' = [gSt EXCEPT ![held["n2"]] = "connecting"]
      BY <2>1 DEF BeginAttempt
    <3> QED
      BY <1>2, <2>1, <3>2, <3>3 DEF GnbSteps
  <2>2. CASE BeginAttempt(s) /\ s # "n2"
    BY <1>1, <2>2 DEF BeginAttempt
  <2>3. CASE Pop(s) \/ LoopEnds(s) \/ LoopReturns(s) \/ CpLoopStarts \/ BeginCycle \/ SkipCycle \/ BeginDeregistration
    BY <1>1, <2>3 DEF Pop, LoopEnds, LoopReturns, BeginCycle, BeginDeregistration, SkipCycle, CpLoopStarts, gnbVars
  <2> QED
    BY <1>4, <2>1, <2>2, <2>3 DEF Dispatcher
<1>5. ASSUME NEW u \in Ues, UeAttemptEnds(u) PROVE Goal
  <2>1. CASE RegAccepted(u) \/ RegFails(u) \/ PduAccepted(u) \/ PduFails(u)
    BY <1>1, <2>1 DEF RegAccepted, RegFails, PduAccepted, PduFails, gnbVars
  <2>2. CASE Retry("reg", u) \/ Retry("pdu", u)
    BY <1>1, <2>2 DEF Retry
  <2>3. CASE CpRegisters(u) \/ CpHolds(u) \/ CpDeregisters(u)
    BY <1>1, <2>3 DEF CpRegisters, CpHolds, CpDeregisters, gnbVars
  <2>4. CASE DeregAccepted(u) \/ DeregAborted(u) \/ DeregFails(u) \/ DeregRetry(u)
    BY <1>1, <2>4 DEF DeregAccepted, DeregAborted, DeregFails, DeregRetry, Deregistered, gnbVars
  <2> QED
    BY <1>5, <2>1, <2>2, <2>3, <2>4 DEF UeAttemptEnds
<1>6. ASSUME NEW g \in Gnbs, CloseEnds(g) \/ WatchClose(g) PROVE Goal
  <2>1. \E x \in {"closed", "lost"} : gSt' = [gSt EXCEPT ![g] = x]
    BY <1>6 DEF CloseEnds, WatchClose
  <2>2. GnbSteps(g)
    BY <1>6 DEF GnbSteps
  <2> QED
    BY <1>2, <2>1, <2>2
<1>7. CASE Execute
  <2>1. CASE N2Done \/ Stopping \/ SkipUnfinished \/ DeregisterAll \/ DeregisterDone \/ Stopped
    BY <1>1, <2>1 DEF N2Done, Stopping, SkipUnfinished, DeregisterAll, DeregisterDone, Stopped, gnbVars
  <2>2. ASSUME NEW g \in Gnbs, CloseTake(g) PROVE Goal
    BY <1>1, <2>2 DEF CloseTake
  <2> QED
    BY <1>6, <1>7, <2>1, <2>2 DEF Execute
<1>8. CASE Stop \/ Abort \/ (\E g \in Gnbs : AssociationEnds(g) \/ WatchCheck(g) \/ WatchTake(g)) \/ UNCHANGED vars
  BY <1>1, <1>8 DEF Stop, Abort, AssociationEnds, WatchCheck, WatchTake, gnbVars, vars
<1>9. Goal
  BY <1>3, <1>4, <1>5, <1>6, <1>7, <1>8 DEF Next, Watcher
<1> QED
  BY <1>9 DEF Goal

\* A watcher is started by N2Up.
LEMMA WatchStarts ==
    ASSUME ConnsInv, [Next]_vars, NEW g \in Gnbs, watch'[g] # "none"
    PROVE  watch[g] # "none" \/ N2Up(g)
<1>1. ASSUME UNCHANGED watch PROVE watch[g] # "none"
  BY <1>1
<1>2. ASSUME NEW h \in Gnbs, GnbAttemptEnds(h) \/ AssociationEnds(h) \/ Watcher(h)
      PROVE  watch[g] # "none" \/ N2Up(g)
  <2>1. CASE N2Up(h)
    <3>1. watch' = [watch EXCEPT ![h] = "read"]
      BY <2>1 DEF N2Up
    <3> QED
      BY <2>1, <3>1 DEF ConnsInv
  <2>2. CASE N2Fails(h) \/ Retry("n2", h)
    BY <1>1, <2>2 DEF N2Fails, Retry
  <2>3. CASE AssociationEnds(h) \/ Watcher(h)
    <3>1. watch[h] # "none" /\ \E x : watch' = [watch EXCEPT ![h] = x]
      BY <2>3 DEF AssociationEnds, Watcher, WatchCheck, WatchTake, WatchClose
    <3> QED
      BY <3>1 DEF ConnsInv
  <2> QED
    BY <1>2, <2>1, <2>2, <2>3 DEF GnbAttemptEnds
<1>3. CASE Execute
  BY <1>1, <1>3 DEF Execute, N2Done, Stopping, SkipUnfinished, DeregisterAll, DeregisterDone, CloseTake, CloseEnds,
                    Stopped, gnbVars
<1>4. ASSUME NEW s \in Stages, Dispatcher(s) PROVE watch[g] # "none"
  BY <1>1, <1>4 DEF Dispatcher, Pop, LoopEnds, LoopReturns, BeginAttempt, BeginCycle, BeginDeregistration,
                    SkipCycle, CpLoopStarts, Dispatch, gnbVars
<1>5. ASSUME NEW u \in Ues, UeAttemptEnds(u) PROVE watch[g] # "none"
  <2>1. CASE RegAccepted(u) \/ RegFails(u) \/ Retry("reg", u) \/ PduAccepted(u) \/ PduFails(u) \/ Retry("pdu", u)
    BY <1>1, <2>1 DEF RegAccepted, RegFails, PduAccepted, PduFails, Retry, gnbVars
  <2>2. CASE CpRegisters(u) \/ CpHolds(u) \/ CpDeregisters(u)
    BY <1>1, <2>2 DEF CpRegisters, CpHolds, CpDeregisters, gnbVars
  <2>3. CASE DeregAccepted(u) \/ DeregAborted(u) \/ DeregFails(u) \/ DeregRetry(u)
    BY <1>1, <2>3 DEF DeregAccepted, DeregAborted, DeregFails, DeregRetry, Deregistered, gnbVars
  <2> QED
    BY <1>5, <2>1, <2>2, <2>3 DEF UeAttemptEnds
<1>6. CASE Stop \/ Abort \/ UNCHANGED vars
  BY <1>1, <1>6 DEF Stop, Abort, vars, gnbVars
<1> QED
  BY <1>2, <1>3, <1>4, <1>5, <1>6 DEF Next

LEMMA GnbStep == OneInv /\ ConnsInv /\ GnbInv /\ [Next]_vars => GnbInv'
<1> SUFFICES ASSUME OneInv, ConnsInv, GnbInv, [Next]_vars, NEW g \in Gnbs
             PROVE  /\ watch'[g] # "none" => gSt'[g] \notin Waiting
                    /\ phase' = "n2" /\ (AtStage("n2", g) > 0)' => gSt'[g] \in Waiting
  BY GnbMoves DEF GnbInv
<1>1. LoopInv /\ LoopTypes /\ g \in Items /\ "n2" \in Stages /\ AtStage("n2", g) \in Nat
  BY StageNames, PlaceNat DEF OneInv, LoopInv
<1>2. (AtStage("n2", g) > 0)' => AtStage("n2", g) > 0
  BY <1>1, Enters DEF Entered
<1>3. phase' = "n2" => phase = "n2"
  BY PhaseOrder DEF Onward
<1>4. watch'[g] # "none" => watch[g] # "none" \/ N2Up(g)
  BY WatchStarts
<1>5. CASE gSt'[g] = gSt[g] /\ ~N2Up(g)
  BY <1>2, <1>3, <1>4, <1>5 DEF GnbInv
<1>6. CASE N2Up(g)
  <2>1. /\ g \in flight["n2"] /\ Leave("n2", g) /\ UNCHANGED held /\ queue' = Pushed("reg", UesOf(g) \cap Tp)
        /\ gSt' = [gSt EXCEPT ![g] = "up"]
    BY <1>6 DEF N2Up
  <2>2. queue'["n2"][g] = queue["n2"][g]
    BY <1>1, <2>1, PushedAt, StageNames
  <2>3. (AtStage("n2", g) = 0)'
    BY <1>1, <2>1, <2>2, Leaves
  <2>4. gSt'[g] = "up"
    BY <2>1 DEF GnbInv
  <2> QED
    BY <2>3, <2>4 DEF Waiting
<1>7. CASE N2Fails(g)
  <2>1. g \in flight["n2"] /\ Leave("n2", g) /\ UNCHANGED <<held, queue>> /\ gSt' = [gSt EXCEPT ![g] = "failed"]
    BY <1>7 DEF N2Fails
  <2>2. (AtStage("n2", g) = 0)'
    BY <1>1, <2>1, Leaves
  <2>3. gSt'[g] = "failed"
    BY <2>1 DEF GnbInv
  <2> QED
    BY <2>2, <2>3 DEF Waiting
<1>8. CASE (BeginAttempt("n2") /\ held["n2"] = g) \/ Retry("n2", g)
  <2>1. \E x \in Waiting : gSt' = [gSt EXCEPT ![g] = x]
    BY <1>8 DEF BeginAttempt, Retry, Waiting
  <2>2. gSt'[g] \in Waiting
    BY <2>1 DEF GnbInv
  <2>3. watch[g] = "none" /\ UNCHANGED watch
    BY <1>1, <1>8, N2Phase DEF BeginAttempt, Dispatch, Retry
  <2> QED
    BY <2>2, <2>3
<1>9. CASE WatchClose(g) \/ CloseEnds(g)
  <2>1. \E x \in {"lost", "closed"} : gSt' = [gSt EXCEPT ![g] = x]
    BY <1>9 DEF WatchClose, CloseEnds
  <2>2. gSt'[g] \notin Waiting
    BY <2>1 DEF GnbInv, Waiting
  <2>3. phase = "n2" => watch[g] # "none"
    BY <1>9 DEF WatchClose, CloseEnds, ConnsInv
  <2> QED
    BY <1>2, <1>3, <2>2, <2>3 DEF GnbInv
<1> QED
  BY <1>5, <1>6, <1>7, <1>8, <1>9, GnbMoves DEF GnbSteps

-----------------------------------------------------------------------------
(* The cards.                                                              *)

\* The items a card counts, the stage that works on them, and those it works on now.
Whole(c)   == CASE c \in {"n2", "n2Release"} -> Gnbs [] c = "cpCleanup" -> Cp [] OTHER -> Tp
StageOf(c) == IF c = "cpCleanup" THEN "dereg" ELSE c
Working(c) == IF c = "n2Release" THEN { g \in Gnbs : rel[g] = "closing" } ELSE flight[StageOf(c)] \cap Whole(c)

Launch  == {"n2", "reg", "pdu"}
Release == {"dereg", "cpCleanup"}

\* The steps that change a card.
Touches(c) ==
    \/ c \in Launch /\ (BeginAttempt(c) \/ SkipUnfinished \/ \E i \in Items : i \in flight[c] /\ Retry(c, i))
    \/ c = "n2" /\ \E g \in Gnbs : N2Up(g)
    \/ c \in Launch /\ \E g \in Gnbs : N2Fails(g)
    \/ c = "reg" /\ \E u \in Ues : RegAccepted(u)
    \/ c \in {"reg", "pdu"} /\ \E u \in Ues : RegFails(u)
    \/ c = "pdu" /\ \E u \in Ues : PduAccepted(u) \/ PduFails(u)
    \/ c \in Release /\ (BeginDeregistration \/ DeregisterAll \/ DeregisterDone)
    \/ c \in Release /\ \E u \in Ues : Deregistered(u) \/ DeregRetry(u)
    \/ c = "n2Release" /\ \E g \in Gnbs : CloseTake(g) \/ CloseEnds(g)

CardFn == card = [c \in Cards |-> card[c]]

\* The cards outside C stand.
Stands(C) ==
    /\ CardFn'
    /\ \A c \in Cards \ C : card'[c] = card[c] /\ Working(c)' = Working(c)

LEMMA StandsAll == CardFn /\ UNCHANGED <<card, flight, rel>> => Stands({})
BY DEF CardFn, Stands, Working

\* An attempt of stage s begins or ends.
LEMMA StandsStage ==
    ASSUME CardFn, flight \in [Stages -> SUBSET Items], NEW s \in Stages, NEW S, NEW C,
           flight' = [flight EXCEPT ![s] = S], UNCHANGED rel,
           \A c \in Cards : StageOf(c) = s => c \in C,
           CardFn', \A c \in Cards \ C : card'[c] = card[c]
    PROVE  Stands(C)
<1>1. \A c \in Cards : c # "n2Release" => StageOf(c) \in Stages
  BY DEF Cards, StageOf, Stages
<1>2. \A c \in Cards : c # "n2Release" /\ StageOf(c) # s => flight'[StageOf(c)] = flight[StageOf(c)]
  BY <1>1
<1> QED
  BY <1>2 DEF Stands, Working

LEMMA CardOther ==
    ASSUME CardFn, [Next]_vars, OneInv
    PROVE  /\ CardFn'
           /\ \A c \in Cards : Touches(c) \/ (card'[c] = card[c] /\ Working(c)' = Working(c))
<1> DEFINE Touched == { c \in Cards : Touches(c) }
<1>1. ASSUME NEW C, C \subseteq Touched, Stands(C)
      PROVE  CardFn' /\ \A c \in Cards : Touches(c) \/ (card'[c] = card[c] /\ Working(c)' = Working(c))
  BY <1>1 DEF Stands
<1>2. ASSUME UNCHANGED <<card, flight, rel>> PROVE Stands({})
  BY <1>2, StandsAll
<1>3. flight \in [Stages -> SUBSET Items] /\ LoopInv
  BY DEF OneInv, LoopInv, LoopTypes
<1> DEFINE Goal == \E C : C \subseteq Touched /\ Stands(C)
<1>4. ASSUME UNCHANGED <<card, flight, rel>> PROVE Goal
  BY <1>2, <1>4
<1>5. /\ "n2" \in Cards /\ "reg" \in Cards /\ "pdu" \in Cards /\ "dereg" \in Cards /\ "cpCleanup" \in Cards
      /\ "n2Release" \in Cards
  BY DEF Cards
<1>6. ASSUME NEW s \in Launch, NEW S, flight' = [flight EXCEPT ![s] = S], UNCHANGED rel, NEW x,
             card' = [card EXCEPT ![s] = x], Touches(s)
      PROVE  Goal
  <2>1. CardFn' /\ \A c \in Cards \ {s} : card'[c] = card[c]
    BY <1>5, <1>6 DEF CardFn
  <2>2. \A c \in Cards : StageOf(c) = s => c \in {s}
    BY <1>6 DEF StageOf, Launch
  <2>3. Stands({s})
    BY <1>3, <1>6, <2>1, <2>2, StandsStage, StageNames DEF Launch
  <2>4. s \in Touched
    BY <1>5, <1>6 DEF Launch
  <2> QED
    BY <2>3, <2>4
<1>7. ASSUME NEW S, flight' = [flight EXCEPT !["cp"] = S] \/ UNCHANGED flight, UNCHANGED <<card, rel>> PROVE Goal
  <2>1. \A c \in Cards : StageOf(c) # "cp"
    BY DEF StageOf, Cards
  <2>2. CASE flight' = [flight EXCEPT !["cp"] = S]
    <3>1. Stands({})
      BY <1>3, <1>7, <2>1, <2>2, StandsStage, StageNames DEF CardFn
    <3> QED
      BY <3>1
  <2> QED
    BY <1>4, <1>7, <2>2
<1>8. ASSUME NEW S, flight' = [flight EXCEPT !["dereg"] = S] \/ UNCHANGED flight, UNCHANGED rel,
             CardFn', \A c \in Cards \ Release : card'[c] = card[c], Release \subseteq Touched
      PROVE  Goal
  <2>1. \A c \in Cards : StageOf(c) = "dereg" => c \in Release
    BY DEF StageOf, Release
  <2>2. Stands(Release)
    <3>1. CASE flight' = [flight EXCEPT !["dereg"] = S]
      BY <1>3, <1>8, <2>1, <3>1, StandsStage, StageNames
    <3>2. CASE UNCHANGED flight
      BY <1>8, <3>2 DEF Stands, Working
    <3> QED
      BY <1>8, <3>1, <3>2
  <2> QED
    BY <1>8, <2>2
<1>9. ASSUME NEW s \in Launch, NEW C, C \subseteq Launch, s \in C, NEW S, flight' = [flight EXCEPT ![s] = S],
             UNCHANGED rel, CardFn', \A c \in Cards \ C : card'[c] = card[c], C \subseteq Touched
      PROVE  Goal
  <2>1. \A c \in Cards : StageOf(c) = s => c \in C
    BY <1>9 DEF StageOf, Launch
  <2>2. Stands(C)
    BY <1>3, <1>9, <2>1, StandsStage, StageNames DEF Launch
  <2> QED
    BY <1>9, <2>2
<1> HIDE DEF Touched
<1>10. ASSUME NEW s \in Stages, Dispatcher(s) PROVE Goal
  <2>1. CASE BeginAttempt(s)
    <3>1. /\ s \in Launch /\ flight' = [flight EXCEPT ![s] = flight[s] \cup {held[s]}] /\ UNCHANGED rel
          /\ card' = [card EXCEPT ![s] = Begun(card[s])]
      BY <2>1 DEF BeginAttempt, Dispatch, Launch
    <3>2. Touches(s)
      BY <2>1, <3>1 DEF Touches
    <3> QED
      BY <1>6, <3>1, <3>2
  <2>2. CASE BeginCycle
    <3>1. flight' = [flight EXCEPT !["cp"] = flight["cp"] \cup {held["cp"]}] /\ UNCHANGED <<card, rel>>
      BY <2>2 DEF BeginCycle, Dispatch
    <3> QED
      BY <1>7, <3>1
  <2>3. CASE BeginDeregistration
    <3>1. /\ flight' = [flight EXCEPT !["dereg"] = flight["dereg"] \cup {held["dereg"]}] /\ UNCHANGED rel
          /\ card' = [card EXCEPT ![DeregCard(held["dereg"])] = Begun(card[DeregCard(held["dereg"])])]
      BY <2>3 DEF BeginDeregistration, Dispatch
    <3>2. Release \subseteq Touched
      BY <1>5, <2>3 DEF Touched, Touches, Release
    <3>3. CardFn' /\ \A c \in Cards \ Release : card'[c] = card[c]
      BY <3>1 DEF CardFn, DeregCard, Release
    <3> QED
      BY <1>8, <3>1, <3>2, <3>3
  <2>4. CASE Pop(s) \/ LoopEnds(s) \/ LoopReturns(s) \/ CpLoopStarts \/ SkipCycle
    BY <1>4, <2>4 DEF Pop, LoopEnds, LoopReturns, SkipCycle, CpLoopStarts, gnbVars
  <2> QED
    BY <1>10, <2>1, <2>2, <2>3, <2>4 DEF Dispatcher
<1>11. ASSUME NEW s \in Launch, NEW i \in Items, Retry(s, i) PROVE Goal
  <2>1. /\ i \in flight[s] /\ flight' = [flight EXCEPT ![s] = flight[s] \ {i}] /\ UNCHANGED rel
        /\ card' = [card EXCEPT ![s] = Retried(card[s])]
    BY <1>11 DEF Retry, Leave
  <2>2. Touches(s)
    BY <1>11, <2>1 DEF Touches
  <2> QED
    BY <1>6, <2>1, <2>2
<1>12. ASSUME NEW g \in Gnbs, GnbAttemptEnds(g) PROVE Goal
  <2>1. CASE N2Up(g)
    <3>1. /\ flight' = [flight EXCEPT !["n2"] = flight["n2"] \ {g}] /\ UNCHANGED rel
          /\ card' = [card EXCEPT !["n2"] = Finished(card["n2"])]
      BY <2>1 DEF N2Up, Leave
    <3>2. Touches("n2") /\ "n2" \in Launch
      BY <2>1 DEF Touches, Launch
    <3> QED
      BY <1>6, <3>1, <3>2
  <2>2. CASE N2Fails(g)
    <3>1. /\ flight' = [flight EXCEPT !["n2"] = flight["n2"] \ {g}] /\ UNCHANGED rel
          /\ CardFn' /\ \A c \in Cards \ Launch : card'[c] = card[c]
      BY <2>2 DEF N2Fails, Leave, CardFn, Launch
    <3>2. Launch \subseteq Touched /\ "n2" \in Launch
      BY <1>5, <2>2 DEF Touched, Touches, Launch
    <3> QED
      BY <1>9, <3>1, <3>2
  <2>3. CASE Retry("n2", g)
    BY <1>11, <2>3, StageNames DEF Launch
  <2> QED
    BY <1>12, <2>1, <2>2, <2>3 DEF GnbAttemptEnds
<1>13. ASSUME NEW u \in Ues, UeAttemptEnds(u) PROVE Goal
  <2>1. CASE RegAccepted(u)
    <3>1. /\ flight' = [flight EXCEPT !["reg"] = flight["reg"] \ {u}] /\ UNCHANGED rel
          /\ card' = [card EXCEPT !["reg"] = Finished(card["reg"])]
      BY <2>1 DEF RegAccepted, Leave, gnbVars
    <3>2. Touches("reg") /\ "reg" \in Launch
      BY <2>1 DEF Touches, Launch
    <3> QED
      BY <1>6, <3>1, <3>2
  <2>2. CASE RegFails(u)
    <3> DEFINE C == {"reg", "pdu"}
    <3>1. /\ flight' = [flight EXCEPT !["reg"] = flight["reg"] \ {u}] /\ UNCHANGED rel
          /\ CardFn' /\ \A c \in Cards \ C : card'[c] = card[c]
      BY <2>2 DEF RegFails, Leave, CardFn, gnbVars
    <3>2. C \subseteq Touched /\ C \subseteq Launch /\ "reg" \in C /\ "reg" \in Launch
      BY <1>5, <2>2 DEF Touched, Touches, Launch
    <3> HIDE DEF C
    <3> QED
      BY <1>9, <3>1, <3>2
  <2>3. CASE PduAccepted(u) \/ PduFails(u)
    <3>1. /\ flight' = [flight EXCEPT !["pdu"] = flight["pdu"] \ {u}] /\ UNCHANGED rel
          /\ card' = [card EXCEPT !["pdu"] = Finished(card["pdu"])]
      BY <2>3 DEF PduAccepted, PduFails, Leave, gnbVars
    <3>2. Touches("pdu") /\ "pdu" \in Launch
      BY <2>3 DEF Touches, Launch
    <3> QED
      BY <1>6, <3>1, <3>2
  <2>4. CASE Retry("reg", u) \/ Retry("pdu", u)
    BY <1>11, <2>4, StageNames DEF Launch
  <2>5. CASE CpRegisters(u) \/ CpHolds(u) \/ CpDeregisters(u)
    <3>1. /\ UNCHANGED <<card, rel>>
          /\ flight' = [flight EXCEPT !["cp"] = flight["cp"] \ {u}] \/ UNCHANGED flight
      BY <2>5 DEF CpRegisters, CpHolds, CpDeregisters, Idle, Leave, gnbVars
    <3> QED
      BY <1>7, <3>1
  <2>6. CASE Deregistered(u) \/ DeregRetry(u)
    <3>1. /\ flight' = [flight EXCEPT !["dereg"] = flight["dereg"] \ {u}] /\ UNCHANGED rel
          /\ \E x : card' = [card EXCEPT ![DeregCard(u)] = x]
      BY <2>6 DEF Deregistered, DeregRetry, Leave, gnbVars
    <3>2. Release \subseteq Touched
      BY <1>5, <2>6 DEF Touched, Touches, Release
    <3>3. CardFn' /\ \A c \in Cards \ Release : card'[c] = card[c]
      BY <3>1 DEF CardFn, DeregCard, Release
    <3> QED
      BY <1>8, <3>1, <3>2, <3>3
  <2> QED
    BY <1>13, <2>1, <2>2, <2>3, <2>4, <2>5, <2>6 DEF UeAttemptEnds, DeregAccepted, DeregAborted, DeregFails
<1>14. ASSUME Execute PROVE Goal
  <2>1. CASE SkipUnfinished
    <3>1. /\ UNCHANGED <<flight, rel>>
          /\ CardFn' /\ \A c \in Cards \ Launch : card'[c] = card[c]
      BY <2>1 DEF SkipUnfinished, CardFn, Launch, gnbVars
    <3>2. Launch \subseteq Touched
      BY <1>5, <2>1 DEF Touched, Touches, Launch
    <3>3. Stands(Launch)
      BY <3>1 DEF Stands, Working
    <3> QED
      BY <3>2, <3>3
  <2>2. CASE DeregisterAll \/ DeregisterDone
    <3>1. /\ UNCHANGED <<flight, rel>>
          /\ CardFn' /\ \A c \in Cards \ Release : card'[c] = card[c]
      BY <2>2 DEF DeregisterAll, DeregisterDone, CardFn, Release, gnbVars
    <3>2. Release \subseteq Touched
      BY <1>5, <2>2 DEF Touched, Touches, Release
    <3> QED
      BY <1>8, <3>1, <3>2
  <2>3. ASSUME NEW g \in Gnbs, CloseTake(g) \/ CloseEnds(g) PROVE Goal
    <3>1. /\ UNCHANGED flight
          /\ CardFn' /\ \A c \in Cards \ {"n2Release"} : card'[c] = card[c]
      BY <2>3 DEF CloseTake, CloseEnds, CardFn, loopVars
    <3>2. {"n2Release"} \subseteq Touched
      BY <1>5, <2>3 DEF Touched, Touches
    <3>3. Stands({"n2Release"})
      BY <3>1 DEF Stands, Working
    <3> QED
      BY <3>2, <3>3
  <2>4. CASE N2Done \/ Stopping \/ Stopped
    BY <1>4, <2>4 DEF N2Done, Stopping, Stopped, gnbVars, loopVars
  <2> QED
    BY <1>14, <2>1, <2>2, <2>3, <2>4 DEF Execute
<1>15. ASSUME Stop \/ Abort \/ (\E g \in Gnbs : AssociationEnds(g) \/ Watcher(g)) \/ UNCHANGED vars PROVE Goal
  BY <1>4, <1>15 DEF Stop, Abort, AssociationEnds, Watcher, WatchCheck, WatchTake, WatchClose, gnbVars, loopVars, vars
<1>16. Goal
  BY <1>10, <1>12, <1>13, <1>14, <1>15 DEF Next
<1> QED
  BY <1>1, <1>16

\* Whom a stage of the cleanup has still to deal with.
ToClean == CASE phase \in {"close", "stopped"} -> {}
             [] phase = "deregister" -> { u \in Ues : AtStage("dereg", u) > 0 }
             [] OTHER -> Ues

\* The items a card has neither finished nor skipped.
Uncounted(c) ==
    CASE c = "n2"        -> IF phase \in Late THEN {} ELSE { g \in Gnbs : gSt[g] \in Waiting }
      [] c = "reg"       -> { u \in Tp : ~regDone[u] }
      [] c = "pdu"       -> Unfinished
      [] c = "n2Release" -> { g \in Gnbs : rel[g] # "done" }
      [] OTHER           -> ToClean \cap Whole(c)

\* The numbers on card c are those of its items.
CardOk(c) ==
    /\ card[c] \in [inFlight : Int, finished : Nat, skipped : Nat]
    /\ card[c].inFlight = Cardinality(Working(c))
    /\ card[c].finished + card[c].skipped + Cardinality(Uncounted(c)) = Cardinality(Whole(c))

\* What a step may do to a card: nothing, begin, retry or finish an item's attempt, or skip
\* items.
CardMoves(c) ==
    \/ card'[c] = card[c] /\ Working(c)' = Working(c) /\ Uncounted(c)' = Uncounted(c)
    \/ \E i : /\ i \notin Working(c) /\ Working(c)' = Working(c) \cup {i}
              /\ Uncounted(c)' = Uncounted(c) /\ card'[c] = Begun(card[c])
    \/ \E i : /\ i \in Working(c) /\ Working(c)' = Working(c) \ {i}
              /\ Uncounted(c)' = Uncounted(c) /\ card'[c] = Retried(card[c])
    \/ \E i : /\ i \in Working(c) /\ Working(c)' = Working(c) \ {i}
              /\ i \in Uncounted(c) /\ Uncounted(c)' = Uncounted(c) \ {i} /\ card'[c] = Finished(card[c])
    \/ \E S : /\ S \subseteq Uncounted(c) /\ Uncounted(c)' = Uncounted(c) \ S
              /\ Working(c)' = Working(c) /\ card'[c] = Skipped(card[c], Cardinality(S))

LEMMA CardSets ==
    ASSUME NEW c \in Cards
    PROVE  /\ IsFiniteSet(Whole(c)) /\ Whole(c) \subseteq Items
           /\ IsFiniteSet(Working(c)) /\ IsFiniteSet(Uncounted(c))
           /\ Working(c) \subseteq Whole(c) /\ Uncounted(c) \subseteq Whole(c)
           /\ Cardinality(Working(c)) \in Nat /\ Cardinality(Uncounted(c)) \in Nat /\ Cardinality(Whole(c)) \in Nat
<1>1. Whole(c) \subseteq Items
  BY StageNames DEF Whole
<1>2. Working(c) \subseteq Whole(c)
  BY DEF Working, Whole
<1>3. Uncounted(c) \subseteq Whole(c)
  BY DEF Uncounted, Whole, Unfinished, Cards
<1>4. IsFiniteSet(Whole(c)) /\ IsFiniteSet(Working(c)) /\ IsFiniteSet(Uncounted(c))
  BY <1>1, <1>2, <1>3, PipelineOK, FS_Subset
<1> QED
  BY <1>1, <1>2, <1>3, <1>4, FS_CardinalityType

LEMMA CardKeeps ==
    ASSUME NEW c \in Cards, CardOk(c), CardMoves(c)
    PROVE  CardOk(c)'
<1>1. /\ card[c] \in [inFlight : Int, finished : Nat, skipped : Nat]
      /\ card[c].inFlight = Cardinality(Working(c))
      /\ card[c].finished + card[c].skipped + Cardinality(Uncounted(c)) = Cardinality(Whole(c))
  BY DEF CardOk
<1>2. /\ IsFiniteSet(Working(c)) /\ IsFiniteSet(Uncounted(c)) /\ Cardinality(Working(c)) \in Nat
      /\ Cardinality(Uncounted(c)) \in Nat /\ Cardinality(Whole(c)) \in Nat
  BY CardSets
<1>3. Whole(c)' = Whole(c)
  BY DEF Whole
<1>4. CASE card'[c] = card[c] /\ Working(c)' = Working(c) /\ Uncounted(c)' = Uncounted(c)
  BY <1>3, <1>4 DEF CardOk
<1>5. ASSUME NEW i, i \notin Working(c), Working(c)' = Working(c) \cup {i}, Uncounted(c)' = Uncounted(c),
             card'[c] = Begun(card[c])
      PROVE  CardOk(c)'
  <2>1. Cardinality(Working(c)') = Cardinality(Working(c)) + 1
    BY <1>2, <1>5, FS_AddElement
  <2>2. /\ card'[c] \in [inFlight : Int, finished : Nat, skipped : Nat]
        /\ card'[c].inFlight = card[c].inFlight + 1 /\ card'[c].finished = card[c].finished
        /\ card'[c].skipped = card[c].skipped
    BY <1>1, <1>5 DEF Begun
  <2> QED
    BY <1>1, <1>3, <1>5, <2>1, <2>2 DEF CardOk
<1>6. ASSUME NEW i, i \in Working(c), Working(c)' = Working(c) \ {i}, Uncounted(c)' = Uncounted(c),
             card'[c] = Retried(card[c])
      PROVE  CardOk(c)'
  <2>1. Cardinality(Working(c)') = Cardinality(Working(c)) - 1
    BY <1>2, <1>6, FS_RemoveElement
  <2>2. /\ card'[c] \in [inFlight : Int, finished : Nat, skipped : Nat]
        /\ card'[c].inFlight = card[c].inFlight - 1 /\ card'[c].finished = card[c].finished
        /\ card'[c].skipped = card[c].skipped
    BY <1>1, <1>6 DEF Retried
  <2> QED
    BY <1>1, <1>3, <1>6, <2>1, <2>2 DEF CardOk
<1>7. ASSUME NEW i, i \in Working(c), Working(c)' = Working(c) \ {i}, i \in Uncounted(c),
             Uncounted(c)' = Uncounted(c) \ {i}, card'[c] = Finished(card[c])
      PROVE  CardOk(c)'
  <2>1. /\ Cardinality(Working(c)') = Cardinality(Working(c)) - 1
        /\ Cardinality(Uncounted(c)') = Cardinality(Uncounted(c)) - 1
    BY <1>2, <1>7, FS_RemoveElement
  <2>2. /\ card'[c] \in [inFlight : Int, finished : Nat, skipped : Nat]
        /\ card'[c].inFlight = card[c].inFlight - 1 /\ card'[c].finished = card[c].finished + 1
        /\ card'[c].skipped = card[c].skipped
    <3> DEFINE d == [card[c] EXCEPT !.inFlight = card[c].inFlight - 1]
    <3>1. /\ d \in [inFlight : Int, finished : Nat, skipped : Nat] /\ d.inFlight = card[c].inFlight - 1
          /\ d.finished = card[c].finished /\ d.skipped = card[c].skipped
      BY <1>1
    <3>2. card'[c] = [d EXCEPT !.finished = card[c].finished + 1]
      BY <1>7 DEF Finished
    <3> HIDE DEF d
    <3> QED
      BY <3>1, <3>2
  <2> QED
    BY <1>1, <1>2, <1>3, <2>1, <2>2 DEF CardOk
<1>8. ASSUME NEW S, S \subseteq Uncounted(c), Uncounted(c)' = Uncounted(c) \ S, Working(c)' = Working(c),
             card'[c] = Skipped(card[c], Cardinality(S))
      PROVE  CardOk(c)'
  <2>1. IsFiniteSet(S) /\ Cardinality(S) \in Nat
    BY <1>2, <1>8, FS_Subset, FS_CardinalityType
  <2>2. Cardinality(Uncounted(c)') = Cardinality(Uncounted(c)) - Cardinality(S)
    <3>1. Uncounted(c) \cap S = S
      BY <1>8
    <3> QED
      BY <1>2, <1>8, <2>1, <3>1, FS_Difference
  <2>3. /\ card'[c] \in [inFlight : Int, finished : Nat, skipped : Nat]
        /\ card'[c].inFlight = card[c].inFlight /\ card'[c].finished = card[c].finished
        /\ card'[c].skipped = card[c].skipped + Cardinality(S)
    BY <1>1, <1>8, <2>1 DEF Skipped
  <2> QED
    BY <1>1, <1>2, <1>3, <1>8, <2>1, <2>2, <2>3 DEF CardOk
<1> QED
  BY <1>4, <1>5, <1>6, <1>7, <1>8 DEF CardMoves

LEMMA CardNames ==
    /\ "n2" \in Cards /\ "reg" \in Cards /\ "pdu" \in Cards /\ "dereg" \in Cards /\ "cpCleanup" \in Cards
    /\ "n2Release" \in Cards /\ Launch \subseteq Cards /\ Release \subseteq Cards
    /\ \A c \in Launch : c \in Stages /\ StageOf(c) = c /\ ItemsOf(c) = Whole(c) /\ c # "n2Release"
    /\ \A c \in Release : StageOf(c) = "dereg" /\ c # "n2Release"
BY DEF Cards, Launch, Release, Stages, StageOf, ItemsOf, Whole

LEMMA LateMoves == [Next]_vars => SkipUnfinished \/ (phase' \in Late <=> phase \in Late)
<1> SUFFICES ASSUME [Next]_vars PROVE SkipUnfinished \/ (phase' \in Late <=> phase \in Late)
  OBVIOUS
<1>1. UNCHANGED phase \/ PhaseSteps
  BY PhaseMoves
<1> QED
  BY <1>1 DEF PhaseSteps, N2Done, Stopping, DeregisterAll, DeregisterDone, Stopped, Late

\* The beginning of a launch attempt, on its card.
LEMMA BeginsOnCard ==
    ASSUME OneInv, CardFn, NEW c \in Launch, BeginAttempt(c)
    PROVE  /\ held[c] \in Whole(c) /\ held[c] \notin Working(c) /\ Working(c)' = Working(c) \cup {held[c]}
           /\ card'[c] = Begun(card[c]) /\ held[c] \in Items /\ UNCHANGED phase
<1>1. LoopInv /\ LoopTypes /\ c \in Stages /\ c \in Cards /\ StageOf(c) = c /\ ItemsOf(c) = Whole(c) /\ c # "n2Release"
  BY CardNames DEF OneInv, LoopInv
<1>2. /\ held[c] # None /\ flight' = [flight EXCEPT ![c] = flight[c] \cup {held[c]}]
      /\ card' = [card EXCEPT ![c] = Begun(card[c])] /\ UNCHANGED phase
  BY DEF BeginAttempt, Dispatch
<1>3. held[c] \in Items
  BY <1>1, <1>2 DEF LoopTypes
<1>4. held[c] \in Whole(c)
  BY <1>1, <1>3, AttemptsKind
<1>5. held[c] \notin flight[c]
  <2>1. AtStage(c, held[c]) <= 1 /\ queue[c][held[c]] \in Nat
    BY <1>1, <1>3, PlaceNat DEF LoopInv, OnceInv
  <2> QED
    BY <2>1 DEF AtStage
<1>6. flight'[c] = flight[c] \cup {held[c]}
  BY <1>1, <1>2 DEF LoopTypes
<1>7. Working(c)' = Working(c) \cup {held[c]}
  BY <1>1, <1>4, <1>6 DEF Working, Whole
<1>8. card'[c] = Begun(card[c])
  BY <1>1, <1>2 DEF CardFn
<1> QED
  BY <1>1, <1>2, <1>3, <1>4, <1>5, <1>7, <1>8 DEF Working

\* The end of an attempt, on its card.
LEMMA EndsOnCard ==
    ASSUME OneInv, NEW c \in Launch \cup Release, NEW i \in Whole(c), i \in flight[StageOf(c)], Leave(StageOf(c), i)
    PROVE  i \in Working(c) /\ Working(c)' = Working(c) \ {i}
<1>1. LoopTypes /\ StageOf(c) \in Stages /\ c # "n2Release"
  BY CardNames, StageNames DEF OneInv, LoopInv
<1>2. flight'[StageOf(c)] = flight[StageOf(c)] \ {i}
  BY <1>1 DEF Leave, LoopTypes
<1> QED
  BY <1>1, <1>2 DEF Working, Whole

LEMMA N2Card ==
    ASSUME OneInv, ConnsInv, GnbInv, CardFn, [Next]_vars
    PROVE  CardMoves("n2")
<1>1. LoopInv /\ LoopTypes /\ "n2" \in Launch /\ "n2" \in Cards /\ StageOf("n2") = "n2" /\ Whole("n2") = Gnbs
  BY CardNames DEF OneInv, LoopInv, Launch, Whole
<1>2. Uncounted("n2") = IF phase \in Late THEN {} ELSE { g \in Gnbs : gSt[g] \in Waiting }
  BY DEF Uncounted
<1>3. Uncounted("n2")' = IF phase' \in Late THEN {} ELSE { g \in Gnbs : gSt'[g] \in Waiting }
  BY DEF Uncounted
<1>4. ASSUME phase' \in Late <=> phase \in Late, \A g \in Gnbs : gSt'[g] \in Waiting <=> gSt[g] \in Waiting
      PROVE  Uncounted("n2")' = Uncounted("n2")
  BY <1>2, <1>3, <1>4
<1>5. \A g \in Gnbs : gSt'[g] = gSt[g] \/ GnbSteps(g)
  BY GnbMoves
<1>6. CASE SkipUnfinished
  <2> DEFINE S == { g \in Gnbs : gSt[g] \in {"pending", "connecting"} }
  <2>1. phase = "stopping" /\ phase' = "skipped" /\ UNCHANGED <<flight, rel>>
    BY <1>6 DEF SkipUnfinished, gnbVars
  <2>2. card'["n2"] = Skipped(card["n2"], Cardinality(S))
    BY <1>6, CardNames DEF SkipUnfinished, CardFn
  <2>3. S = Uncounted("n2") /\ Uncounted("n2")' = {}
    BY <1>2, <1>3, <2>1 DEF Late, Waiting
  <2>4. Working("n2")' = Working("n2")
    BY <2>1 DEF Working, Whole
  <2> HIDE DEF S
  <2> QED
    BY <2>2, <2>3, <2>4 DEF CardMoves
<1>7. CASE BeginAttempt("n2")
  <2>1. /\ held["n2"] \in Gnbs /\ held["n2"] \notin Working("n2")
        /\ Working("n2")' = Working("n2") \cup {held["n2"]} /\ card'["n2"] = Begun(card["n2"]) /\ UNCHANGED phase
    BY <1>1, <1>7, BeginsOnCard
  <2>2. gSt[held["n2"]] \in Waiting
    BY <1>1, <2>1, N2Phase
  <2>3. \A g \in Gnbs : gSt'[g] = IF g = held["n2"] THEN "connecting" ELSE gSt[g]
    BY <1>7 DEF BeginAttempt, GnbInv
  <2>4. Uncounted("n2")' = Uncounted("n2")
    BY <1>4, <2>1, <2>2, <2>3 DEF Waiting
  <2> QED
    BY <2>1, <2>4 DEF CardMoves
<1>8. ASSUME NEW i \in Items, i \in flight["n2"], Retry("n2", i) PROVE CardMoves("n2")
  <2>1. i \in Gnbs
    BY <1>1, <1>8, AttemptsKind, CardNames
  <2>2. /\ Leave("n2", i) /\ card' = [card EXCEPT !["n2"] = Retried(card["n2"])]
        /\ gSt' = [gSt EXCEPT ![i] = "pending"] /\ UNCHANGED phase
    BY <1>8 DEF Retry
  <2>3. i \in Working("n2") /\ Working("n2")' = Working("n2") \ {i}
    BY <1>1, <1>8, <2>1, <2>2, EndsOnCard
  <2>4. gSt[i] \in Waiting
    BY <1>1, <1>8, <2>1, N2Phase
  <2>5. \A g \in Gnbs : gSt'[g] = IF g = i THEN "pending" ELSE gSt[g]
    BY <2>2 DEF GnbInv
  <2>6. Uncounted("n2")' = Uncounted("n2")
    BY <1>4, <2>2, <2>4, <2>5 DEF Waiting
  <2>7. card'["n2"] = Retried(card["n2"])
    BY <1>1, <2>2 DEF CardFn
  <2> QED
    BY <2>3, <2>6, <2>7 DEF CardMoves
<1>9. ASSUME NEW g \in Gnbs, N2Up(g) \/ N2Fails(g) PROVE CardMoves("n2")
  <2>1. /\ g \in flight["n2"] /\ Leave("n2", g) /\ UNCHANGED phase
        /\ gSt' = [gSt EXCEPT ![g] = "up"] \/ gSt' = [gSt EXCEPT ![g] = "failed"]
    BY <1>9 DEF N2Up, N2Fails
  <2>2. card'["n2"] = Finished(card["n2"])
    BY <1>9, CardNames DEF N2Up, N2Fails, CardFn
  <2>3. g \in Working("n2") /\ Working("n2")' = Working("n2") \ {g}
    BY <1>1, <2>1, EndsOnCard
  <2>4. phase = "n2" /\ gSt[g] \in Waiting
    BY <1>1, <2>1, N2Phase
  <2>5. (\A h \in Gnbs : h # g => gSt'[h] = gSt[h]) /\ gSt'[g] \notin Waiting
    BY <2>1 DEF GnbInv, Waiting
  <2>6. g \in Uncounted("n2") /\ Uncounted("n2")' = Uncounted("n2") \ {g}
    BY <1>2, <1>3, <2>1, <2>4, <2>5 DEF Late
  <2> QED
    BY <2>2, <2>3, <2>6 DEF CardMoves
<1>10. CASE ~Touches("n2")
  <2>1. card'["n2"] = card["n2"] /\ Working("n2")' = Working("n2")
    BY <1>1, <1>10, CardOther
  <2>2. phase' \in Late <=> phase \in Late
    BY <1>1, <1>10, LateMoves DEF Touches
  <2>3. ASSUME NEW g \in Gnbs, phase \notin Late PROVE gSt'[g] \in Waiting <=> gSt[g] \in Waiting
    <3>1. CASE gSt'[g] = gSt[g]
      BY <3>1
    <3>2. CASE WatchClose(g)
      <4>1. watch[g] # "none" /\ gSt'[g] = "lost"
        BY <3>2 DEF WatchClose, GnbInv
      <4> QED
        BY <4>1 DEF GnbInv, Waiting
    <3>3. ~CloseEnds(g)
      BY <2>3 DEF CloseEnds, ConnsInv, Late
    <3>4. ~Retry("n2", g)
      BY <1>1, <1>10, StageNames DEF Touches, Retry
    <3> QED
      BY <1>1, <1>5, <1>10, <3>1, <3>2, <3>3, <3>4 DEF GnbSteps, Touches
  <2>4. Uncounted("n2")' = Uncounted("n2")
    BY <1>2, <1>3, <2>2, <2>3
  <2> QED
    BY <2>1, <2>4 DEF CardMoves
<1>11. "n2" \notin Release
  BY DEF Release
<1> QED
  BY <1>6, <1>7, <1>8, <1>9, <1>10, <1>11 DEF Touches

LEMMA Begins == \A c \in Launch : BeginAttempt(c) => UNCHANGED <<regDone, pduDone>>
BY DEF BeginAttempt, Dispatch

\* A retry of a launch attempt, on its card.
LEMMA RetriesOnCard ==
    ASSUME OneInv, CardFn, NEW c \in Launch, NEW i \in Items, i \in flight[c], Retry(c, i)
    PROVE  /\ i \in Working(c) /\ Working(c)' = Working(c) \ {i} /\ card'[c] = Retried(card[c])
           /\ UNCHANGED <<regDone, pduDone>>
<1>1. LoopInv /\ c \in Stages /\ c \in Cards /\ StageOf(c) = c /\ ItemsOf(c) = Whole(c)
  BY CardNames DEF OneInv
<1>2. Leave(c, i) /\ card' = [card EXCEPT ![c] = Retried(card[c])] /\ UNCHANGED <<regDone, pduDone>>
  BY DEF Retry
<1>3. i \in Whole(c)
  BY <1>1, AttemptsKind
<1>4. i \in Working(c) /\ Working(c)' = Working(c) \ {i}
  BY <1>1, <1>2, <1>3, EndsOnCard
<1> QED
  BY <1>1, <1>2, <1>4 DEF CardFn

\* runN2 gives up on a gNB: its UEs are skipped on both cards.
LEMMA FailsOnCards ==
    ASSUME OneInv, DoneInv, CardFn, NEW g \in Gnbs, N2Fails(g)
    PROVE  /\ CardMoves("reg")
           /\ CardMoves("pdu")
<1> DEFINE S == UesOf(g) \cap Tp
<1>1. LoopInv /\ LoopTypes /\ g \in Items /\ "n2" \in Stages /\ "reg" \in Stages /\ "pdu" \in Stages
  BY StageNames DEF OneInv, LoopInv
<1>2. /\ g \in flight["n2"] /\ flight' = [flight EXCEPT !["n2"] = flight["n2"] \ {g}]
      /\ regDone' = [u \in Ues |-> regDone[u] \/ u \in S] /\ pduDone' = [u \in Ues |-> pduDone[u] \/ u \in S]
  BY DEF N2Fails, Leave
<1>3. card' = [card EXCEPT !["n2"] = Finished(@), !["reg"] = Skipped(@, Cardinality(S)),
                           !["pdu"] = Skipped(@, Cardinality(S))]
  BY DEF N2Fails
<1>4. phase = "n2" /\ AtStage("n2", g) > 0
  <2>1. AtStage("n2", g) > 0 /\ loop["n2"] \in {"loop", "wait"}
    BY <1>1, <1>2, AttemptsKind, AttemptsLoop
  <2> QED
    BY <1>1, <2>1 DEF LoopInv, PhaseInv
<1>5. \A u \in S : u \in Tp /\ ~regDone[u] /\ ~pduDone[u]
  BY <1>4 DEF DoneInv, UesOf
<1> HIDE DEF S
<1>6. card'["reg"] = Skipped(card["reg"], Cardinality(S)) /\ card'["pdu"] = Skipped(card["pdu"], Cardinality(S))
  BY <1>3, CardNames DEF CardFn
<1>7. Working("reg")' = Working("reg") /\ Working("pdu")' = Working("pdu")
  <2>1. flight'["reg"] = flight["reg"] /\ flight'["pdu"] = flight["pdu"]
    BY <1>1, <1>2 DEF LoopTypes
  <2> QED
    BY <2>1 DEF Working, StageOf, Whole
<1>8. \A u \in Tp : (regDone'[u] <=> regDone[u] \/ u \in S) /\ (pduDone'[u] <=> pduDone[u] \/ u \in S)
  BY <1>2, StageNames DEF DoneInv
<1>9. S \subseteq Uncounted("reg") /\ Uncounted("reg")' = Uncounted("reg") \ S
  BY <1>5, <1>8 DEF Uncounted
<1>10. S \subseteq Uncounted("pdu") /\ Uncounted("pdu")' = Uncounted("pdu") \ S
  BY <1>5, <1>8 DEF Uncounted, Unfinished
<1>11. CardMoves("reg")
  BY <1>6, <1>7, <1>9 DEF CardMoves
<1>12. CardMoves("pdu")
  BY <1>6, <1>7, <1>10 DEF CardMoves
<1> QED
  BY <1>11, <1>12

LEMMA RegCard ==
    ASSUME OneInv, DoneInv, CardFn, [Next]_vars
    PROVE  CardMoves("reg")
<1>1. /\ LoopInv /\ "reg" \in Launch /\ "reg" \in Cards /\ "reg" \in Stages /\ StageOf("reg") = "reg"
      /\ Whole("reg") = Tp /\ ItemsOf("reg") = Tp
  BY CardNames, StageNames DEF OneInv, Launch, Whole, ItemsOf
<1>2. /\ Uncounted("reg") = { u \in Tp : ~regDone[u] }
      /\ Uncounted("reg")' = { u \in Tp : ~regDone'[u] }
  BY DEF Uncounted
<1>3. CASE SkipUnfinished
  <2> DEFINE S == { u \in Ues : ~regDone[u] }
  <2>1. UNCHANGED <<flight, rel>> /\ regDone' = [u \in Ues |-> TRUE]
    BY <1>3 DEF SkipUnfinished, gnbVars
  <2>2. card'["reg"] = Skipped(card["reg"], Cardinality(S))
    BY <1>3, CardNames DEF SkipUnfinished, CardFn
  <2>3. S = Uncounted("reg")
    BY <1>2 DEF DoneInv, Ues
  <2>4. Uncounted("reg")' = {}
    BY <1>2, <2>1, StageNames
  <2>5. Working("reg")' = Working("reg")
    BY <2>1 DEF Working, Whole
  <2> HIDE DEF S
  <2> QED
    BY <2>2, <2>3, <2>4, <2>5 DEF CardMoves
<1>4. CASE BeginAttempt("reg")
  <2>1. Uncounted("reg")' = Uncounted("reg")
    BY <1>1, <1>2, <1>4, Begins
  <2>2. /\ held["reg"] \notin Working("reg") /\ Working("reg")' = Working("reg") \cup {held["reg"]}
        /\ card'["reg"] = Begun(card["reg"])
    BY <1>1, <1>4, BeginsOnCard
  <2> QED
    BY <2>1, <2>2 DEF CardMoves
<1>5. ASSUME NEW i \in Items, i \in flight["reg"], Retry("reg", i) PROVE CardMoves("reg")
  <2>1. /\ i \in Working("reg") /\ Working("reg")' = Working("reg") \ {i} /\ card'["reg"] = Retried(card["reg"])
        /\ UNCHANGED regDone
    BY <1>1, <1>5, RetriesOnCard
  <2>2. Uncounted("reg")' = Uncounted("reg")
    BY <1>2, <2>1
  <2> QED
    BY <2>1, <2>2 DEF CardMoves
<1>6. ASSUME NEW u \in Ues, RegAccepted(u) \/ RegFails(u) PROVE CardMoves("reg")
  <2>1. u \in flight["reg"] /\ Leave("reg", u) /\ regDone' = [regDone EXCEPT ![u] = TRUE]
    BY <1>6 DEF RegAccepted, RegFails
  <2>2. card'["reg"] = Finished(card["reg"])
    BY <1>6, CardNames DEF RegAccepted, RegFails, CardFn
  <2>3. u \in Tp /\ AtStage("reg", u) > 0
    BY <1>1, <2>1, AttemptsKind, StageNames
  <2>4. u \in Working("reg") /\ Working("reg")' = Working("reg") \ {u}
    BY <1>1, <2>1, <2>3, EndsOnCard
  <2>5. ~regDone[u] /\ \A v \in Tp : regDone'[v] <=> regDone[v] \/ v = u
    BY <2>1, <2>3, StageNames DEF DoneInv
  <2>6. u \in Uncounted("reg") /\ Uncounted("reg")' = Uncounted("reg") \ {u}
    BY <1>2, <2>3, <2>5
  <2> QED
    BY <2>2, <2>4, <2>6 DEF CardMoves
<1>7. CASE ~Touches("reg")
  <2>1. card'["reg"] = card["reg"] /\ Working("reg")' = Working("reg")
    BY <1>1, <1>7, CardOther
  <2>2. ASSUME NEW u \in Tp PROVE regDone'[u] = regDone[u]
    <3>1. ~SkipUnfinished /\ ~N2Fails(GnbOf[u]) /\ ~RegAccepted(u) /\ ~RegFails(u)
      BY <1>1, <1>7, PipelineOK, StageNames DEF Touches
    <3>2. PduAccepted(u) \/ PduFails(u) => UNCHANGED regDone
      BY DEF PduAccepted, PduFails
    <3> QED
      BY <3>1, <3>2, DoneMoves DEF GivesOutcome
  <2>3. Uncounted("reg")' = Uncounted("reg")
    BY <1>2, <2>2
  <2> QED
    BY <2>1, <2>3 DEF CardMoves
<1>8. "reg" \notin Release
  BY DEF Release
<1> QED
  BY <1>3, <1>4, <1>5, <1>6, <1>7, <1>8, FailsOnCards DEF Touches

LEMMA PduCard ==
    ASSUME OneInv, DoneInv, CardFn, [Next]_vars
    PROVE  CardMoves("pdu")
<1>1. /\ LoopInv /\ LoopTypes /\ "pdu" \in Launch /\ "pdu" \in Cards /\ "pdu" \in Stages /\ StageOf("pdu") = "pdu"
      /\ Whole("pdu") = Tp /\ ItemsOf("pdu") = Tp
  BY CardNames, StageNames DEF OneInv, LoopInv, Launch, Whole, ItemsOf
<1>2. /\ Uncounted("pdu") = { u \in Tp : ~pduDone[u] }
      /\ Uncounted("pdu")' = { u \in Tp : ~pduDone'[u] }
  BY DEF Uncounted, Unfinished
<1>3. CASE SkipUnfinished
  <2> DEFINE S == { u \in Tp : ~pduDone[u] }
  <2>1. UNCHANGED <<flight, rel>> /\ pduDone' = [u \in Ues |-> pduDone[u] \/ u \in S]
    BY <1>3 DEF SkipUnfinished, PduMarked, gnbVars
  <2>2. card'["pdu"] = Skipped(card["pdu"], Cardinality(S))
    BY <1>3, CardNames DEF SkipUnfinished, CardFn
  <2>3. S = Uncounted("pdu")
    BY <1>2
  <2>4. Uncounted("pdu")' = {}
    BY <1>2, <2>1, StageNames DEF DoneInv
  <2>5. Working("pdu")' = Working("pdu")
    BY <2>1 DEF Working, Whole
  <2> HIDE DEF S
  <2> QED
    BY <2>2, <2>3, <2>4, <2>5 DEF CardMoves
<1>4. CASE BeginAttempt("pdu")
  <2>1. Uncounted("pdu")' = Uncounted("pdu")
    BY <1>1, <1>2, <1>4, Begins
  <2>2. /\ held["pdu"] \notin Working("pdu") /\ Working("pdu")' = Working("pdu") \cup {held["pdu"]}
        /\ card'["pdu"] = Begun(card["pdu"])
    BY <1>1, <1>4, BeginsOnCard
  <2> QED
    BY <2>1, <2>2 DEF CardMoves
<1>5. ASSUME NEW i \in Items, i \in flight["pdu"], Retry("pdu", i) PROVE CardMoves("pdu")
  <2>1. /\ i \in Working("pdu") /\ Working("pdu")' = Working("pdu") \ {i} /\ card'["pdu"] = Retried(card["pdu"])
        /\ UNCHANGED pduDone
    BY <1>1, <1>5, RetriesOnCard
  <2>2. Uncounted("pdu")' = Uncounted("pdu")
    BY <1>2, <2>1
  <2> QED
    BY <2>1, <2>2 DEF CardMoves
<1>6. ASSUME NEW u \in Ues, PduAccepted(u) \/ PduFails(u) PROVE CardMoves("pdu")
  <2>1. u \in flight["pdu"] /\ Leave("pdu", u) /\ pduDone' = [v \in Ues |-> pduDone[v] \/ v \in {u}]
    BY <1>6 DEF PduAccepted, PduFails, PduMarked
  <2>2. card'["pdu"] = Finished(card["pdu"])
    BY <1>6, CardNames DEF PduAccepted, PduFails, CardFn
  <2>3. u \in Tp /\ AtStage("pdu", u) > 0
    BY <1>1, <2>1, AttemptsKind, StageNames
  <2>4. u \in Working("pdu") /\ Working("pdu")' = Working("pdu") \ {u}
    BY <1>1, <2>1, <2>3, EndsOnCard
  <2>5. ~pduDone[u] /\ \A v \in Tp : pduDone'[v] <=> pduDone[v] \/ v = u
    BY <2>1, <2>3, StageNames DEF DoneInv
  <2>6. u \in Uncounted("pdu") /\ Uncounted("pdu")' = Uncounted("pdu") \ {u}
    BY <1>2, <2>3, <2>5
  <2> QED
    BY <2>2, <2>4, <2>6 DEF CardMoves
<1>7. ASSUME NEW u \in Ues, RegFails(u) PROVE CardMoves("pdu")
  <2>1. /\ u \in flight["reg"] /\ flight' = [flight EXCEPT !["reg"] = flight["reg"] \ {u}]
        /\ pduDone' = [v \in Ues |-> pduDone[v] \/ v \in {u}]
    BY <1>7 DEF RegFails, PduMarked, Leave
  <2>2. card'["pdu"] = Skipped(card["pdu"], Cardinality({u}))
    BY <1>7, CardNames, FS_Singleton DEF RegFails, CardFn
  <2>3. u \in Tp /\ AtStage("reg", u) > 0
    <3>1. "reg" \in Stages /\ ItemsOf("reg") = Tp
      BY StageNames DEF ItemsOf
    <3> QED
      BY <1>1, <2>1, <3>1, AttemptsKind, StageNames
  <2>4. Working("pdu")' = Working("pdu")
    <3>1. flight'["pdu"] = flight["pdu"]
      BY <1>1, <2>1 DEF LoopTypes
    <3> QED
      BY <3>1 DEF Working, StageOf, Whole
  <2>5. ~pduDone[u] /\ \A v \in Tp : pduDone'[v] <=> pduDone[v] \/ v = u
    BY <2>1, <2>3, StageNames DEF DoneInv
  <2>6. {u} \subseteq Uncounted("pdu") /\ Uncounted("pdu")' = Uncounted("pdu") \ {u}
    BY <1>2, <2>3, <2>5
  <2> QED
    BY <2>2, <2>4, <2>6 DEF CardMoves
<1>8. CASE ~Touches("pdu")
  <2>1. card'["pdu"] = card["pdu"] /\ Working("pdu")' = Working("pdu")
    BY <1>1, <1>8, CardOther
  <2>2. ASSUME NEW u \in Tp PROVE pduDone'[u] = pduDone[u]
    <3>1. ~SkipUnfinished /\ ~N2Fails(GnbOf[u]) /\ ~RegFails(u) /\ ~PduAccepted(u) /\ ~PduFails(u)
      BY <1>1, <1>8, PipelineOK, StageNames DEF Touches
    <3>2. RegAccepted(u) => UNCHANGED pduDone
      BY DEF RegAccepted
    <3> QED
      BY <3>1, <3>2, DoneMoves DEF GivesOutcome
  <2>3. Uncounted("pdu")' = Uncounted("pdu")
    BY <1>2, <2>2
  <2> QED
    BY <2>1, <2>3 DEF CardMoves
<1>9. "pdu" \notin Release
  BY DEF Release
<1> QED
  BY <1>3, <1>4, <1>5, <1>6, <1>7, <1>8, <1>9, FailsOnCards DEF Touches

-----------------------------------------------------------------------------
(* The cards of the cleanup.                                               *)

LEMMA ToCleanNow ==
    /\ phase \in {"close", "stopped"} => ToClean = {}
    /\ phase = "deregister" => ToClean = { u \in Ues : AtStage("dereg", u) > 0 }
    /\ phase \in {"n2", "running", "stopping", "skipped"} => ToClean = Ues
BY DEF ToClean

\* A UE that is deregistering, and the phase it does so in.
LEMMA DeregPhase ==
    ASSUME LoopInv, NEW u \in Items, u \in flight["dereg"] \/ held["dereg"] = u
    PROVE  u \in Ues /\ AtStage("dereg", u) > 0 /\ phase \in {"deregister", "close", "stopped"}
<1>1. "dereg" \in Stages /\ ItemsOf("dereg") = Ues
  BY StageNames DEF ItemsOf
<1>2. u \in Ues /\ AtStage("dereg", u) > 0
  BY <1>1, AttemptsKind
<1>3. flight["dereg"] # {} \/ held["dereg"] # None
  BY PipelineOK
<1>4. loop["dereg"] \in {"loop", "wait"}
  BY <1>1, <1>3, AttemptsLoop
<1> QED
  BY <1>2, <1>4 DEF LoopInv, PhaseInv, LoopTypes, Phases

LEMMA ToCleanMoves ==
    ASSUME OneInv, [Next]_vars
    PROVE  \/ DeregisterAll \/ DeregisterDone
           \/ \E u \in Ues : Deregistered(u)
           \/ ToClean' = ToClean
<1> SUFFICES ASSUME ~DeregisterAll, ~DeregisterDone, \A u \in Ues : ~Deregistered(u)
             PROVE  ToClean' = ToClean
  OBVIOUS
<1>1. LoopTypes /\ LoopTypes' /\ LoopInv
  BY LoopStep DEF OneInv, LoopInv
<1>2. UNCHANGED phase \/ N2Done \/ Stopping \/ SkipUnfinished \/ Stopped
  BY PhaseMoves DEF PhaseSteps
<1>3. \/ phase' = phase
      \/ phase \in {"n2", "running", "stopping", "skipped"} /\ phase' \in {"n2", "running", "stopping", "skipped"}
      \/ phase \in {"close", "stopped"} /\ phase' \in {"close", "stopped"}
  BY <1>2 DEF N2Done, Stopping, SkipUnfinished, Stopped
<1>4. CASE phase = "deregister" /\ phase' = "deregister"
  <2>1. ASSUME NEW u \in Ues PROVE AtStage("dereg", u) > 0 <=> (AtStage("dereg", u) > 0)'
    <3>1. AtStage("dereg", u) > 0 => (AtStage("dereg", u) > 0)'
      BY <1>4, DeregPlaces
    <3>2. AtStage("dereg", u) = 0 => ~(AtStage("dereg", u) > 0)'
      BY StageNames, Enters DEF Entered
    <3>3. AtStage("dereg", u) \in Nat
      BY <1>1, PlaceNat, StageNames
    <3> QED
      BY <3>1, <3>2, <3>3
  <2>2. ToClean = { u \in Ues : AtStage("dereg", u) > 0 } /\ ToClean' = { u \in Ues : (AtStage("dereg", u) > 0)' }
    BY <1>4 DEF ToClean
  <2> QED
    BY <2>1, <2>2
<1>5. CASE ~(phase = "deregister" /\ phase' = "deregister")
  BY <1>1, <1>3, <1>5 DEF ToClean, LoopTypes, Phases
<1> QED
  BY <1>4, <1>5

\* Its dispatcher has returned when cleanup goes on.
DeregOver == phase \in {"close", "stopped"} => loop["dereg"] \in {"off", "returned"}

LEMMA DeregOverInit == Init => DeregOver
BY DEF Init, DeregOver

LEMMA DeregOverStep == OneInv /\ DeregOver /\ [Next]_vars => DeregOver'
<1> SUFFICES ASSUME OneInv, DeregOver, [Next]_vars, phase' \in {"close", "stopped"}
             PROVE  loop'["dereg"] \in {"off", "returned"}
  BY DEF DeregOver
<1>1. LoopInv /\ LoopTypes /\ "dereg" \in Stages
  BY StageNames DEF OneInv, LoopInv
<1>2. CASE DeregisterDone
  BY <1>2 DEF DeregisterDone
<1>3. CASE DeregisterAll
  <2>1. phase = "skipped" /\ UNCHANGED loop
    BY <1>3 DEF DeregisterAll
  <2> QED
    BY <1>1, <2>1 DEF LoopInv, PhaseInv
<1>4. CASE ~DeregisterDone /\ ~DeregisterAll
  <2>1. phase \in {"close", "stopped"}
    BY <1>4, PhaseMoves DEF PhaseSteps, N2Done, Stopping, SkipUnfinished, Stopped
  <2>2. loop["dereg"] \in {"off", "returned"}
    BY <2>1 DEF DeregOver
  <2>3. ASSUME loop'["dereg"] = loop["dereg"] PROVE loop'["dereg"] \in {"off", "returned"}
    BY <2>2, <2>3
  <2>4. ASSUME NEW s \in Stages, Dispatcher(s) PROVE loop'["dereg"] \in {"off", "returned"}
    <3>1. CASE LoopEnds(s) \/ LoopReturns(s)
      <4>1. loop[s] \in {"loop", "wait"} /\ \E x : loop' = [loop EXCEPT ![s] = x]
        BY <3>1 DEF LoopEnds, LoopReturns
      <4>2. s # "dereg"
        BY <2>2, <4>1
      <4> QED
        BY <1>1, <2>3, <4>1, <4>2 DEF LoopTypes
    <3>2. CASE CpLoopStarts
      <4>1. \E x : loop' = [loop EXCEPT !["cp"] = x]
        BY <3>2 DEF CpLoopStarts
      <4> QED
        BY <1>1, <2>3, <4>1 DEF LoopTypes
    <3>3. CASE Pop(s) \/ BeginAttempt(s) \/ BeginCycle \/ SkipCycle \/ BeginDeregistration
      BY <2>3, <3>3 DEF Pop, BeginAttempt, BeginCycle, SkipCycle, BeginDeregistration, Dispatch
    <3> QED
      BY <2>4, <3>1, <3>2, <3>3 DEF Dispatcher
  <2>5. ASSUME NEW u \in Ues, UeAttemptEnds(u) PROVE loop' = loop
    <3>1. CASE RegAccepted(u) \/ RegFails(u) \/ Retry("reg", u) \/ PduAccepted(u) \/ PduFails(u) \/ Retry("pdu", u)
      BY <3>1 DEF RegAccepted, RegFails, PduAccepted, PduFails, Retry
    <3>2. CASE CpRegisters(u) \/ CpHolds(u) \/ CpDeregisters(u)
      BY <3>2 DEF CpRegisters, CpHolds, CpDeregisters
    <3>3. CASE DeregAccepted(u) \/ DeregAborted(u) \/ DeregFails(u) \/ DeregRetry(u)
      BY <3>3 DEF DeregAccepted, DeregAborted, DeregFails, DeregRetry, Deregistered
    <3> QED
      BY <2>5, <3>1, <3>2, <3>3 DEF UeAttemptEnds
  <2>6. CASE Execute
    <3>1. ~N2Done
      BY <2>1 DEF N2Done
    <3> QED
      BY <1>4, <2>3, <2>6, <3>1 DEF Execute, Stopping, SkipUnfinished, CloseTake, CloseEnds, Stopped, loopVars
  <2>7. CASE Stop \/ Abort \/ (\E g \in Gnbs : GnbAttemptEnds(g) \/ AssociationEnds(g) \/ Watcher(g)) \/ UNCHANGED vars
    BY <2>3, <2>7 DEF Stop, Abort, GnbAttemptEnds, N2Up, N2Fails, Retry, AssociationEnds, Watcher, WatchCheck, WatchTake,
                      WatchClose, loopVars, vars
  <2> QED
    BY <2>3, <2>4, <2>5, <2>6, <2>7 DEF Next
<1> QED
  BY <1>2, <1>3, <1>4

\* A UE is deregistering in that phase only.
LEMMA DeregNow ==
    ASSUME LoopInv, DeregOver, NEW u \in Items, u \in flight["dereg"] \/ held["dereg"] = u
    PROVE  u \in Ues /\ phase = "deregister" /\ AtStage("dereg", u) > 0 /\ u \in ToClean
<1>1. u \in Ues /\ AtStage("dereg", u) > 0 /\ phase \in {"deregister", "close", "stopped"}
  BY DeregPhase
<1>2. flight["dereg"] # {} \/ held["dereg"] # None
  BY PipelineOK
<1>3. loop["dereg"] \in {"loop", "wait"}
  BY <1>2, AttemptsLoop, StageNames
<1>4. phase = "deregister"
  BY <1>1, <1>3 DEF DeregOver
<1> QED
  BY <1>1, <1>4, ToCleanNow

\* The two cards of the deregistrations, and whose they are.
LEMMA DeregCards ==
    ASSUME NEW u \in Ues, NEW c \in Release
    PROVE  DeregCard(u) \in Cards /\ (c = DeregCard(u) <=> u \in Whole(c))
<1>1. u \in Cp <=> u \notin Tp
  BY PipelineOK DEF Ues
<1> QED
  BY <1>1 DEF DeregCard, Release, Cards, Whole

\* Whom deregisterAll queues are those still to be dealt with.
LEMMA DeregisterAllCleans ==
    ASSUME LoopInv, DeregisterAll
    PROVE  ToClean = Ues /\ ToClean' = { u \in Ues : CanDeregister(u) }
<1> DEFINE todo == { u \in Ues : CanDeregister(u) }
<1>1. LoopTypes /\ "dereg" \in Stages
  BY StageNames DEF LoopInv
<1>2. /\ phase = "skipped" /\ UNCHANGED <<held, flight>>
      /\ \/ todo = {} /\ phase' = "close"
         \/ phase' = "deregister" /\ queue' = Pushed("dereg", todo)
  BY DEF DeregisterAll
<1>3. todo \subseteq Ues
  OBVIOUS
<1> HIDE DEF todo
<1>4. ToClean = Ues
  BY <1>2, ToCleanNow
<1>5. ToClean' = todo
  <2>1. CASE todo = {} /\ phase' = "close"
    BY <2>1 DEF ToClean
  <2>2. CASE phase' = "deregister" /\ queue' = Pushed("dereg", todo)
    <3>1. loop["dereg"] = "off"
      BY <1>2 DEF LoopInv, PhaseInv
    <3>2. held["dereg"] = None /\ flight["dereg"] = {} /\ \A i \in Items : queue["dereg"][i] = 0
      BY <1>1, <3>1 DEF LoopInv, IdleInv
    <3>3. ASSUME NEW u \in Ues PROVE (AtStage("dereg", u) > 0)' <=> u \in todo
      <4>1. u \in Items /\ u # None
        BY PipelineOK, StageNames
      <4>2. queue'["dereg"][u] = IF u \in todo THEN 1 ELSE 0
        BY <1>1, <2>2, <3>2, <4>1, PushedAt
      <4> QED
        BY <1>2, <3>2, <4>1, <4>2 DEF AtStage
    <3>4. ToClean' = { u \in Ues : (AtStage("dereg", u) > 0)' }
      BY <2>2 DEF ToClean
    <3> QED
      BY <1>3, <3>3, <3>4
  <2> QED
    BY <1>2, <2>1, <2>2
<1> QED
  BY <1>4, <1>5 DEF todo

LEMMA DeregisterAllOnCard ==
    ASSUME OneInv, CardFn, NEW c \in Release, DeregisterAll
    PROVE  CardMoves(c)
<1> DEFINE todo == { u \in Ues : CanDeregister(u) }
<1>1. LoopInv /\ c \in Cards
  BY CardNames DEF OneInv
<1>2. UNCHANGED <<flight, rel>>
  BY DEF DeregisterAll, gnbVars
<1>3. card'[c] = Skipped(card[c], Cardinality(Whole(c) \ todo))
  <2>1. c = "dereg" => card'[c] = Skipped(card[c], Cardinality(Tp \ todo))
    BY CardNames DEF DeregisterAll, CardFn
  <2>2. c = "cpCleanup" => card'[c] = Skipped(card[c], Cardinality(Cp \ todo))
    BY CardNames DEF DeregisterAll, CardFn
  <2> QED
    BY <2>1, <2>2 DEF Whole, Release
<1>4. ToClean = Ues /\ ToClean' = todo
  BY <1>1, DeregisterAllCleans
<1> HIDE DEF todo
<1>7. Uncounted(c) = ToClean \cap Whole(c) /\ Uncounted(c)' = ToClean' \cap Whole(c)
  BY DEF Uncounted, Release, Whole
<1>8. Whole(c) \subseteq Ues
  BY DEF Whole, Release, Ues
<1> DEFINE S == Whole(c) \ todo
<1>9. S \subseteq Uncounted(c) /\ Uncounted(c)' = Uncounted(c) \ S
  BY <1>4, <1>7, <1>8
<1>10. Working(c)' = Working(c)
  BY <1>2 DEF Working, Whole
<1> HIDE DEF S
<1> QED
  BY <1>3, <1>9, <1>10 DEF CardMoves, S

LEMMA DeregisterDoneOnCard ==
    ASSUME OneInv, CardFn, NEW c \in Release, DeregisterDone
    PROVE  CardMoves(c)
<1> DEFINE drained == { u \in Ues : queue["dereg"][u] > 0 }
<1>1. LoopInv /\ LoopTypes /\ "dereg" \in Stages /\ c \in Cards
  BY StageNames, CardNames DEF OneInv, LoopInv
<1>2. phase = "deregister" /\ loop["dereg"] = "returned" /\ phase' = "close" /\ UNCHANGED <<flight, rel>>
  BY DEF DeregisterDone, gnbVars
<1>3. card'[c] = Skipped(card[c], Cardinality(drained \cap Whole(c)))
  <2>1. c = "dereg" => card'[c] = Skipped(card[c], Cardinality(drained \cap Tp))
    BY CardNames DEF DeregisterDone, CardFn
  <2>2. c = "cpCleanup" => card'[c] = Skipped(card[c], Cardinality(drained \cap Cp))
    BY CardNames DEF DeregisterDone, CardFn
  <2> QED
    BY <2>1, <2>2 DEF Whole, Release
<1>4. ToClean = drained
  <2>1. held["dereg"] = None /\ flight["dereg"] = {}
    BY <1>1, <1>2 DEF LoopInv, IdleInv
  <2>2. ASSUME NEW u \in Ues PROVE AtStage("dereg", u) > 0 <=> queue["dereg"][u] > 0
    <3>1. u # None /\ u \in Items /\ queue["dereg"][u] \in Nat
      BY <1>1, PipelineOK, StageNames DEF LoopTypes
    <3> QED
      BY <2>1, <3>1 DEF AtStage
  <2> QED
    BY <1>2, <2>2, ToCleanNow
<1> HIDE DEF drained
<1>5. ToClean' = {}
  BY <1>2 DEF ToClean
<1>6. Uncounted(c) = ToClean \cap Whole(c) /\ Uncounted(c)' = ToClean' \cap Whole(c)
  BY DEF Uncounted, Release, Whole
<1> DEFINE S == drained \cap Whole(c)
<1>7. S \subseteq Uncounted(c) /\ Uncounted(c)' = Uncounted(c) \ S
  BY <1>4, <1>5, <1>6
<1>8. Working(c)' = Working(c)
  BY <1>2 DEF Working, Whole
<1> HIDE DEF S
<1> QED
  BY <1>3, <1>7, <1>8 DEF CardMoves, S

\* A deregistration that ends for good takes the UE off the list.
LEMMA DeregisteredCleans ==
    ASSUME LoopInv, DeregOver, NEW u \in Ues, Deregistered(u)
    PROVE  /\ phase = "deregister" /\ u \in ToClean /\ ToClean' = ToClean \ {u}
           /\ u \in flight["dereg"] /\ flight'["dereg"] = flight["dereg"] \ {u}
<1>1. LoopTypes /\ "dereg" \in Stages
  BY StageNames DEF LoopInv
<1>2. u \in flight["dereg"] /\ Leave("dereg", u) /\ UNCHANGED <<phase, held, queue>>
  BY DEF Deregistered
<1>3. u \in Items /\ phase = "deregister" /\ u \in ToClean
  BY <1>1, <1>2, DeregNow, StageNames
<1>4. flight'["dereg"] = flight["dereg"] \ {u}
  BY <1>1, <1>2 DEF Leave, LoopTypes
<1>5. (AtStage("dereg", u) = 0)'
  BY <1>1, <1>2, <1>3, Leaves
<1>6. \A v \in Ues : v # u => (AtStage("dereg", v))' = AtStage("dereg", v)
  BY <1>2, <1>4 DEF AtStage
<1>7. ToClean = { v \in Ues : AtStage("dereg", v) > 0 } /\ ToClean' = { v \in Ues : (AtStage("dereg", v) > 0)' }
  BY <1>2, <1>3 DEF ToClean
<1> QED
  BY <1>2, <1>3, <1>4, <1>5, <1>6, <1>7

LEMMA ReleaseCard ==
    ASSUME OneInv, DeregOver, CardFn, [Next]_vars, NEW c \in Release
    PROVE  CardMoves(c)
<1>1. /\ LoopInv /\ LoopTypes /\ "dereg" \in Stages /\ c \in Cards /\ StageOf(c) = "dereg" /\ c # "n2Release"
      /\ c \notin Launch
  BY StageNames, CardNames DEF OneInv, LoopInv, Release, Launch
<1>2. Working(c) = flight["dereg"] \cap Whole(c) /\ Working(c)' = flight'["dereg"] \cap Whole(c)
  BY <1>1 DEF Working, Whole
<1>3. Uncounted(c) = ToClean \cap Whole(c) /\ Uncounted(c)' = ToClean' \cap Whole(c)
  BY DEF Uncounted, Release, Whole
<1>4. ASSUME NEW u \in Ues, NEW x, card' = [card EXCEPT ![DeregCard(u)] = x]
      PROVE  (u \in Whole(c) => card'[c] = x) /\ (u \notin Whole(c) => card'[c] = card[c])
  BY <1>1, <1>4, DeregCards DEF CardFn
<1>5. CASE BeginDeregistration
  <2> DEFINE u == held["dereg"]
  <2>1. /\ u # None /\ flight' = [flight EXCEPT !["dereg"] = flight["dereg"] \cup {u}] /\ UNCHANGED phase
        /\ card' = [card EXCEPT ![DeregCard(u)] = Begun(card[DeregCard(u)])]
    BY <1>5 DEF BeginDeregistration, Dispatch
  <2>2. u \in Items
    BY <1>1, <2>1 DEF LoopTypes
  <2>3. u \in Ues /\ phase = "deregister"
    <3>1. u \in Ues /\ phase \in {"deregister", "close", "stopped"}
      BY <1>1, <2>2, DeregPhase
    <3>2. loop["dereg"] = "loop"
      BY <1>5 DEF BeginDeregistration, Dispatch
    <3> QED
      BY <3>1, <3>2 DEF DeregOver
  <2>4. u \notin flight["dereg"]
    <3>1. AtStage("dereg", u) <= 1 /\ queue["dereg"][u] \in Nat
      BY <1>1, <2>2, PlaceNat DEF LoopInv, OnceInv
    <3> QED
      BY <3>1 DEF AtStage
  <2>5. ToClean' = ToClean
    <3>1. ~DeregisterAll /\ ~DeregisterDone
      BY <2>1, <2>3 DEF DeregisterAll, DeregisterDone
    <3>2. ASSUME NEW v \in Ues PROVE ~Deregistered(v)
      BY <1>1, <2>1, <2>4 DEF Deregistered, Leave, LoopTypes
    <3> QED
      BY <3>1, <3>2, ToCleanMoves
  <2>6. flight'["dereg"] = flight["dereg"] \cup {u}
    BY <1>1, <2>1 DEF LoopTypes
  <2> HIDE DEF u
  <2>7. CASE u \in Whole(c)
    <3>1. card'[c] = Begun(card[c])
      BY <1>4, <2>1, <2>3, <2>7, DeregCards
    <3> QED
      BY <1>2, <1>3, <2>4, <2>5, <2>6, <2>7, <3>1 DEF CardMoves
  <2>8. CASE u \notin Whole(c)
    <3>1. card'[c] = card[c]
      BY <1>4, <2>1, <2>3, <2>8
    <3> QED
      BY <1>2, <1>3, <2>5, <2>6, <2>8, <3>1 DEF CardMoves
  <2> QED
    BY <2>7, <2>8
<1>6. ASSUME NEW u \in Ues, Deregistered(u) PROVE CardMoves(c)
  <2>1. /\ u \in flight["dereg"] /\ Leave("dereg", u) /\ UNCHANGED <<phase, held, queue>>
        /\ card' = [card EXCEPT ![DeregCard(u)] = Finished(card[DeregCard(u)])]
    BY <1>6 DEF Deregistered
  <2>2. /\ u \in ToClean /\ ToClean' = ToClean \ {u}
        /\ flight'["dereg"] = flight["dereg"] \ {u}
    BY <1>1, <1>6, DeregisteredCleans
  <2>7. CASE u \in Whole(c)
    <3>1. card'[c] = Finished(card[c])
      BY <1>4, <2>1, <2>7, DeregCards
    <3>2. u \in Working(c) /\ Working(c)' = Working(c) \ {u}
      BY <1>2, <2>1, <2>2, <2>7
    <3>3. u \in Uncounted(c) /\ Uncounted(c)' = Uncounted(c) \ {u}
      BY <1>3, <2>2, <2>7
    <3> QED
      BY <3>1, <3>2, <3>3 DEF CardMoves
  <2>8. CASE u \notin Whole(c)
    <3>1. card'[c] = card[c]
      BY <1>4, <2>1, <2>8
    <3> QED
      BY <1>2, <1>3, <2>2, <2>8, <3>1 DEF CardMoves
  <2> QED
    BY <2>7, <2>8
<1>7. ASSUME NEW u \in Ues, DeregRetry(u) PROVE CardMoves(c)
  <2>1. /\ u \in flight["dereg"] /\ Leave("dereg", u) /\ UNCHANGED <<phase, left, held>> /\ queue' = Pushed("dereg", {u})
        /\ card' = [card EXCEPT ![DeregCard(u)] = Retried(card[DeregCard(u)])]
    BY <1>7 DEF DeregRetry
  <2>2. u \in Items /\ phase = "deregister"
    BY <1>1, <2>1, DeregNow, StageNames
  <2>3. flight'["dereg"] = flight["dereg"] \ {u}
    BY <1>1, <2>1 DEF Leave, LoopTypes
  <2>4. ToClean' = ToClean
    <3>1. ~DeregisterAll /\ ~DeregisterDone
      BY <2>1, <2>2 DEF DeregisterAll, DeregisterDone
    <3>2. queue'["dereg"][u] = queue["dereg"][u] + 1 /\ queue["dereg"][u] \in Nat
      BY <1>1, <2>1, <2>2, PushedAt DEF LoopTypes
    <3>3. ASSUME NEW v \in Ues PROVE ~Deregistered(v)
      BY <3>2 DEF Deregistered
    <3> QED
      BY <3>1, <3>3, ToCleanMoves
  <2>5. CASE u \in Whole(c)
    <3>1. card'[c] = Retried(card[c])
      BY <1>4, <2>1, <2>5, DeregCards
    <3> QED
      BY <1>2, <1>3, <2>1, <2>3, <2>4, <2>5, <3>1 DEF CardMoves
  <2>6. CASE u \notin Whole(c)
    <3>1. card'[c] = card[c]
      BY <1>4, <2>1, <2>6
    <3> QED
      BY <1>2, <1>3, <2>3, <2>4, <2>6, <3>1 DEF CardMoves
  <2> QED
    BY <2>5, <2>6
<1>8. CASE ~Touches(c)
  <2>1. card'[c] = card[c] /\ Working(c)' = Working(c)
    BY <1>1, <1>8, CardOther
  <2>2. ToClean' = ToClean
    BY <1>8, ToCleanMoves DEF Touches
  <2> QED
    BY <1>3, <2>1, <2>2 DEF CardMoves
<1>9. c # "n2" /\ c # "reg" /\ c # "pdu"
  BY DEF Release
<1> QED
  BY <1>1, <1>5, <1>6, <1>7, <1>8, <1>9, DeregisterAllOnCard, DeregisterDoneOnCard DEF Touches

\* Only closeConns moves rel.
LEMMA RelMoves == [Next]_vars => UNCHANGED rel \/ \E g \in Gnbs : CloseTake(g) \/ CloseEnds(g)
<1> SUFFICES ASSUME [Next]_vars PROVE UNCHANGED rel \/ \E g \in Gnbs : CloseTake(g) \/ CloseEnds(g)
  OBVIOUS
<1>1. CASE Execute
  BY <1>1 DEF Execute, N2Done, Stopping, SkipUnfinished, DeregisterAll, DeregisterDone, Stopped, gnbVars
<1>2. ASSUME NEW s \in Stages, Dispatcher(s) PROVE UNCHANGED rel
  BY <1>2 DEF Dispatcher, Pop, LoopEnds, LoopReturns, BeginAttempt, BeginCycle, BeginDeregistration, SkipCycle,
              CpLoopStarts, Dispatch, gnbVars
<1>3. ASSUME NEW g \in Gnbs, GnbAttemptEnds(g) \/ AssociationEnds(g) \/ Watcher(g) PROVE UNCHANGED rel
  BY <1>3 DEF GnbAttemptEnds, N2Up, N2Fails, Retry, AssociationEnds, Watcher, WatchCheck, WatchTake, WatchClose
<1>4. ASSUME NEW u \in Ues, UeAttemptEnds(u) PROVE UNCHANGED rel
  <2>1. CASE RegAccepted(u) \/ RegFails(u) \/ Retry("reg", u) \/ PduAccepted(u) \/ PduFails(u) \/ Retry("pdu", u)
    BY <2>1 DEF RegAccepted, RegFails, PduAccepted, PduFails, Retry, gnbVars
  <2>2. CASE CpRegisters(u) \/ CpHolds(u) \/ CpDeregisters(u)
    BY <2>2 DEF CpRegisters, CpHolds, CpDeregisters, gnbVars
  <2>3. CASE DeregAccepted(u) \/ DeregAborted(u) \/ DeregFails(u) \/ DeregRetry(u)
    BY <2>3 DEF DeregAccepted, DeregAborted, DeregFails, DeregRetry, Deregistered, gnbVars
  <2> QED
    BY <1>4, <2>1, <2>2, <2>3 DEF UeAttemptEnds
<1>5. CASE Stop \/ Abort \/ UNCHANGED vars
  BY <1>5 DEF Stop, Abort, vars, gnbVars
<1> QED
  BY <1>1, <1>2, <1>3, <1>4, <1>5 DEF Next

LEMMA ConnCard ==
    ASSUME OneInv, ConnsInv, CardFn, [Next]_vars
    PROVE  CardMoves("n2Release")
<1> DEFINE c == "n2Release"
<1>1. /\ c \in Cards /\ Whole(c) = Gnbs
      /\ Working(c) = { g \in Gnbs : rel[g] = "closing" } /\ Working(c)' = { g \in Gnbs : rel'[g] = "closing" }
      /\ Uncounted(c) = { g \in Gnbs : rel[g] # "done" } /\ Uncounted(c)' = { g \in Gnbs : rel'[g] # "done" }
  BY CardNames DEF Whole, Working, Uncounted
<1>2. ASSUME NEW g \in Gnbs, CloseTake(g) PROVE CardMoves(c)
  <2>1. /\ rel[g] = "todo" /\ rel' = [rel EXCEPT ![g] = IF conn[g] THEN "closing" ELSE "done"]
        /\ card' = [card EXCEPT ![c] = IF conn[g] THEN Begun(card[c]) ELSE Skipped(card[c], 1)]
    BY <1>2 DEF CloseTake
  <2>2. \A h \in Gnbs : rel'[h] = IF h # g THEN rel[h] ELSE IF conn[g] THEN "closing" ELSE "done"
    BY <2>1 DEF ConnsInv
  <2>3. CASE conn[g]
    <3>1. card'[c] = Begun(card[c])
      BY <1>1, <2>1, <2>3 DEF CardFn
    <3>2. g \notin Working(c) /\ Working(c)' = Working(c) \cup {g} /\ Uncounted(c)' = Uncounted(c)
      BY <1>1, <2>1, <2>2, <2>3
    <3> QED
      BY <3>1, <3>2 DEF CardMoves
  <2>4. CASE ~conn[g]
    <3>1. card'[c] = Skipped(card[c], Cardinality({g}))
      BY <1>1, <2>1, <2>4, FS_Singleton DEF CardFn
    <3>2. Working(c)' = Working(c) /\ {g} \subseteq Uncounted(c) /\ Uncounted(c)' = Uncounted(c) \ {g}
      BY <1>1, <2>1, <2>2, <2>4
    <3> QED
      BY <3>1, <3>2 DEF CardMoves
  <2> QED
    BY <2>3, <2>4
<1>3. ASSUME NEW g \in Gnbs, CloseEnds(g) PROVE CardMoves(c)
  <2>1. /\ rel[g] = "closing" /\ rel' = [rel EXCEPT ![g] = "done"]
        /\ card' = [card EXCEPT ![c] = Finished(card[c])]
    BY <1>3 DEF CloseEnds
  <2>2. \A h \in Gnbs : rel'[h] = IF h # g THEN rel[h] ELSE "done"
    BY <2>1 DEF ConnsInv
  <2>3. card'[c] = Finished(card[c])
    BY <1>1, <2>1 DEF CardFn
  <2>4. g \in Working(c) /\ Working(c)' = Working(c) \ {g} /\ g \in Uncounted(c) /\ Uncounted(c)' = Uncounted(c) \ {g}
    BY <1>1, <2>1, <2>2
  <2> QED
    BY <2>3, <2>4 DEF CardMoves
<1>4. CASE \A g \in Gnbs : ~CloseTake(g) /\ ~CloseEnds(g)
  <2>1. ~Touches(c)
    BY <1>4 DEF Touches, Launch, Release
  <2>2. card'[c] = card[c] /\ Working(c)' = Working(c)
    BY <1>1, <2>1, CardOther
  <2>3. Uncounted(c)' = Uncounted(c)
    BY <1>1, <1>4, RelMoves
  <2> QED
    BY <2>2, <2>3 DEF CardMoves
<1> QED
  BY <1>2, <1>3, <1>4

CountInv ==
    /\ DoneInv /\ GnbInv /\ DeregOver
    /\ CardFn /\ \A c \in Cards : CardOk(c)

LEMMA CountInit == Init => CountInv
<1> SUFFICES ASSUME Init PROVE CountInv
  OBVIOUS
<1>1. DoneInv /\ GnbInv /\ DeregOver
  BY DoneInit, GnbInit, DeregOverInit
<1>2. /\ phase = "n2" /\ flight = [s \in Stages |-> {}] /\ rel = [g \in Gnbs |-> "todo"]
      /\ gSt = [g \in Gnbs |-> "pending"]
      /\ regDone = [u \in Ues |-> u \in Cp] /\ pduDone = [u \in Ues |-> u \in Cp]
      /\ card = [c \in Cards |-> [inFlight |-> 0, finished |-> 0, skipped |-> 0]]
  BY DEF Init
<1>3. CardFn
  BY <1>2 DEF CardFn
<1>4. ASSUME NEW c \in Cards PROVE CardOk(c)
  <2>1. Working(c) = {}
    <3>1. \A s \in Stages : flight[s] = {}
      BY <1>2
    <3>2. c # "n2Release" => StageOf(c) \in Stages
      BY DEF Cards, StageOf, Stages
    <3> QED
      BY <1>2, <3>1, <3>2 DEF Working
  <2>2. Uncounted(c) = Whole(c)
    <3>1. \A u \in Tp : ~regDone[u] /\ ~pduDone[u]
      BY <1>2, PipelineOK, StageNames
    <3>2. c = "n2" => Uncounted(c) = Whole(c)
      BY <1>2 DEF Uncounted, Whole, Waiting, Late
    <3>3. c \in {"reg", "pdu"} => Uncounted(c) = Whole(c)
      BY <3>1 DEF Uncounted, Whole, Unfinished
    <3>4. c = "n2Release" => Uncounted(c) = Whole(c)
      BY <1>2 DEF Uncounted, Whole
    <3>5. c \in Release => Uncounted(c) = Whole(c)
      BY <1>2, ToCleanNow DEF Uncounted, Whole, Release, Ues
    <3> QED
      BY <3>2, <3>3, <3>4, <3>5 DEF Cards, Release
  <2>3. card[c] = [inFlight |-> 0, finished |-> 0, skipped |-> 0]
    BY <1>2
  <2>4. Cardinality(Whole(c)) \in Nat
    BY CardSets
  <2> QED
    BY <2>1, <2>2, <2>3, <2>4, FS_EmptySet DEF CardOk
<1> QED
  BY <1>1, <1>3, <1>4 DEF CountInv

LEMMA CountStep == OneInv /\ ConnsInv /\ CountInv /\ [Next]_vars => CountInv'
<1> SUFFICES ASSUME OneInv, ConnsInv, CountInv, [Next]_vars PROVE CountInv'
  OBVIOUS
<1>1. DoneInv /\ GnbInv /\ DeregOver /\ CardFn
  BY DEF CountInv
<1>2. DoneInv' /\ GnbInv' /\ DeregOver'
  BY <1>1, DoneStep, GnbStep, DeregOverStep
<1>3. CardFn'
  BY <1>1, CardOther
<1>4. CardMoves("n2")
  BY <1>1, N2Card
<1>5. CardMoves("reg")
  BY <1>1, RegCard
<1>6. CardMoves("pdu")
  BY <1>1, PduCard
<1>7. \A c \in Release : CardMoves(c)
  BY <1>1, ReleaseCard
<1>8. CardMoves("n2Release")
  BY <1>1, ConnCard
<1>9. \A c \in Cards : CardMoves(c)
  BY <1>4, <1>5, <1>6, <1>7, <1>8 DEF Cards, Release
<1>10. \A c \in Cards : CardOk(c)'
  BY <1>9, CardKeeps DEF CountInv
<1> QED
  BY <1>2, <1>3, <1>10 DEF CountInv

\* What the cards then show.
LEMMA CountsShown == OneInv /\ CountInv => CountedOnce
<1> SUFFICES ASSUME OneInv, CountInv PROVE CountedOnce
  OBVIOUS
<1>1. LoopInv /\ LoopTypes
  BY DEF OneInv, LoopInv
<1>2. \A c \in Cards : /\ card[c] \in [inFlight : Int, finished : Nat, skipped : Nat]
                       /\ card[c].inFlight = Cardinality(Working(c))
                       /\ card[c].finished + card[c].skipped + Cardinality(Uncounted(c)) = Cardinality(Whole(c))
  BY DEF CountInv, CardOk
<1>3. \A c \in Cards : card[c].finished + card[c].skipped <= Expected[c]
  <2> SUFFICES ASSUME NEW c \in Cards PROVE card[c].finished + card[c].skipped <= Expected[c]
    OBVIOUS
  <2>1. Expected[c] = Cardinality(Whole(c))
    BY DEF Expected, Whole, Cards
  <2>2. Cardinality(Uncounted(c)) \in Nat /\ Cardinality(Whole(c)) \in Nat
    BY CardSets
  <2>3. card[c].finished \in Nat /\ card[c].skipped \in Nat
    BY <1>2
  <2> QED
    BY <1>2, <2>1, <2>2, <2>3
<1>4. \A s \in Launch : card[s].inFlight = Cardinality(flight[s])
  <2> SUFFICES ASSUME NEW s \in Launch PROVE card[s].inFlight = Cardinality(flight[s])
    OBVIOUS
  <2>1. s \in Cards /\ s \in Stages /\ StageOf(s) = s /\ ItemsOf(s) = Whole(s) /\ s # "n2Release"
    BY CardNames
  <2>2. flight[s] \subseteq Whole(s)
    BY <1>1, <2>1, AttemptsKind DEF LoopTypes
  <2>3. Working(s) = flight[s]
    BY <2>1, <2>2 DEF Working
  <2> QED
    BY <1>2, <2>1, <2>3
<1>5. card["dereg"].inFlight + card["cpCleanup"].inFlight = Cardinality(flight["dereg"])
  <2>1. "dereg" \in Cards /\ "cpCleanup" \in Cards /\ "dereg" \in Stages /\ ItemsOf("dereg") = Ues
    BY CardNames, StageNames DEF ItemsOf
  <2>2. flight["dereg"] \subseteq Ues
    BY <1>1, <2>1, AttemptsKind DEF LoopTypes
  <2>3. Working("dereg") = flight["dereg"] \cap Tp /\ Working("cpCleanup") = flight["dereg"] \cap Cp
    BY DEF Working, Whole, StageOf
  <2>4. /\ flight["dereg"] = Working("dereg") \cup Working("cpCleanup")
        /\ Working("dereg") \cap Working("cpCleanup") = {}
    BY <2>2, <2>3, PipelineOK DEF Ues
  <2>5. /\ IsFiniteSet(Working("dereg")) /\ IsFiniteSet(Working("cpCleanup"))
        /\ Cardinality(Working("dereg")) \in Nat /\ Cardinality(Working("cpCleanup")) \in Nat
    BY <2>1, CardSets
  <2>6. Cardinality(flight["dereg"]) = Cardinality(Working("dereg")) + Cardinality(Working("cpCleanup"))
    BY <2>4, <2>5, FS_Union, FS_EmptySet
  <2> QED
    BY <1>2, <2>1, <2>6
<1> QED
  BY <1>3, <1>4, <1>5 DEF CountedOnce, Launch

\* The counts on the run's cards are those of its items, whatever the order in which
\* attempts end, are retried or skipped: nothing is counted twice, and the in-flight
\* number is that of the attempts running.
THEOREM CountedOnceAlways == Spec => []CountedOnce
<1>1. Init => OneInv /\ ConnsInv /\ CountInv
  BY OneInit, ConnsInit, CountInit
<1>2. OneInv /\ ConnsInv /\ CountInv /\ [Next]_vars => (OneInv /\ ConnsInv /\ CountInv)'
  BY OneStep, ConnsStep, CountStep
<1>3. OneInv /\ CountInv => CountedOnce
  BY CountsShown
<1> QED
  BY <1>1, <1>2, <1>3, PTL DEF Spec

-----------------------------------------------------------------------------
(* How a run ends.                                                         *)

Final == {"established", "failed", "skipped", "cancelled", "deregistered"}

\* The control-plane UEs that are registered in a cycle.
OnAir == { u \in Ues : step[u] \in {"hold", "deregister"} }

\* The UE has its last state, or is still to be deregistered.
Settled(u) == uSt[u] \in Final \/ (uSt[u] = "deregistering" /\ phase = "deregister" /\ AtStage("dereg", u) > 0)

EndInv ==
    /\ registered = Cardinality(OnAir)
    /\ phase \notin Late => \A u \in Ues : uSt[u] = "deregistering" => step[u] = "deregister"
    /\ phase \in Late => \A u \in Ues : regDone[u] /\ Settled(u)

LEMMA OnAirFinite == IsFiniteSet(OnAir) /\ Cardinality(OnAir) \in Nat
<1>1. OnAir \subseteq Items
  BY StageNames DEF OnAir
<1> QED
  BY <1>1, PipelineOK, FS_Subset, FS_CardinalityType

LEMMA EndInit == Init => EndInv
<1> SUFFICES ASSUME Init PROVE EndInv
  OBVIOUS
<1>1. OnAir = {}
  BY DEF Init, OnAir
<1>2. phase = "n2" /\ registered = 0 /\ \A u \in Ues : uSt[u] = "pending"
  BY DEF Init
<1> QED
  BY <1>1, <1>2, FS_EmptySet DEF EndInv, Late

\* Once the dispatchers have returned nothing is attempted but deregistrations.
LEMMA LateQuiet ==
    ASSUME OneInv, phase \in Late \/ (phase = "stopping" /\ loop["cp"] = "returned")
    PROVE  /\ \A u \in Ues : step[u] = "idle"
           /\ phase \in Late => \A s \in {"n2", "reg", "pdu", "cp"} : loop[s] = "returned" /\ flight[s] = {}
           /\ OnAir = {}
<1>1. LoopInv /\ CycleInv /\ IdleInv /\ PhaseInv
  BY DEF OneInv, LoopInv
<1>2. phase \in Late => \A s \in {"n2", "reg", "pdu", "cp"} : loop[s] = "returned"
  BY <1>1 DEF PhaseInv, Late
<1>3. phase \in Late => \A s \in {"n2", "reg", "pdu", "cp"} : loop[s] = "returned" /\ flight[s] = {}
  BY <1>1, <1>2, StageNames DEF IdleInv
<1>4. loop["cp"] = "returned"
  BY <1>2
<1>5. flight["cp"] = {}
  BY <1>1, <1>4, StageNames DEF IdleInv
<1>6. \A u \in Ues : step[u] = "idle"
  BY <1>1, <1>5 DEF CycleInv
<1> QED
  BY <1>3, <1>6 DEF OnAir

\* The steps that change a UE's state, its cycle or who is deregistering.
UeSteps ==
    \/ \E s \in {"n2", "reg", "pdu"} : BeginAttempt(s)
    \/ BeginCycle \/ SkipCycle \/ BeginDeregistration
    \/ \E g \in Gnbs : N2Fails(g)
    \/ \E u \in Ues : UeAttemptEnds(u)
    \/ SkipUnfinished \/ DeregisterDone

UeStays == UNCHANGED <<uSt, step, registered>> /\ flight'["dereg"] = flight["dereg"]

LEMMA UeMoves == LoopTypes /\ [Next]_vars => UeSteps \/ UeStays
<1> SUFFICES ASSUME LoopTypes, [Next]_vars PROVE UeSteps \/ UeStays
  OBVIOUS
<1>1. ASSUME NEW s \in Stages, Dispatcher(s) PROVE UeSteps \/ UeStays
  <2>1. CASE Pop(s) \/ LoopEnds(s) \/ LoopReturns(s) \/ CpLoopStarts
    BY <2>1 DEF Pop, LoopEnds, LoopReturns, CpLoopStarts, ueVars, UeStays
  <2>2. CASE BeginAttempt(s)
    BY <2>2 DEF BeginAttempt, UeSteps
  <2> QED
    BY <1>1, <2>1, <2>2 DEF Dispatcher, UeSteps
<1>2. ASSUME NEW g \in Gnbs, GnbAttemptEnds(g) PROVE UeSteps \/ UeStays
  <2>1. CASE N2Up(g) \/ Retry("n2", g)
    <3>1. UNCHANGED <<uSt, step, registered>> /\ flight' = [flight EXCEPT !["n2"] = @ \ {g}]
      BY <2>1 DEF N2Up, Retry, Leave, ueVars
    <3> QED
      BY <3>1, StageNames DEF LoopTypes, UeStays
  <2> QED
    BY <1>2, <2>1 DEF GnbAttemptEnds, UeSteps
<1>3. CASE Execute
  <2>1. CASE N2Done \/ Stopping \/ DeregisterAll \/ Stopped \/ (\E g \in Gnbs : CloseTake(g) \/ CloseEnds(g))
    BY <2>1 DEF N2Done, Stopping, DeregisterAll, Stopped, CloseTake, CloseEnds, ueVars, loopVars, UeStays
  <2> QED
    BY <1>3, <2>1 DEF Execute, UeSteps
<1>4. CASE Stop \/ Abort \/ (\E g \in Gnbs : AssociationEnds(g) \/ Watcher(g)) \/ UNCHANGED vars
  BY <1>4 DEF Stop, Abort, AssociationEnds, Watcher, WatchCheck, WatchTake, WatchClose, ueVars, loopVars, vars, UeStays
<1> QED
  BY <1>1, <1>2, <1>3, <1>4 DEF Next, UeSteps

\* The number registered is that of the UEs in their hold time or deregistering.
LEMMA RegisteredStep ==
    ASSUME OneInv, EndInv, [Next]_vars
    PROVE  registered' = Cardinality(OnAir')
<1>1. LoopTypes /\ CycleInv /\ registered = Cardinality(OnAir) /\ registered \in Nat
  BY OnAirFinite DEF OneInv, LoopInv, EndInv
<1>2. ASSUME UNCHANGED <<step, registered>> PROVE registered' = Cardinality(OnAir')
  BY <1>1, <1>2 DEF OnAir
<1>3. ASSUME NEW u \in Ues, u \notin OnAir, OnAir' = OnAir \cup {u}, registered' = registered + 1
      PROVE  registered' = Cardinality(OnAir')
  BY <1>1, <1>3, OnAirFinite, FS_AddElement
<1>4. ASSUME NEW u \in Ues, u \in OnAir, OnAir' = OnAir \ {u}, registered' = registered - 1
      PROVE  registered' = Cardinality(OnAir')
  BY <1>1, <1>4, OnAirFinite, FS_RemoveElement
<1>5. ASSUME NEW u \in Ues, NEW x, step' = [step EXCEPT ![u] = x]
      PROVE  OnAir' = IF x \in {"hold", "deregister"} THEN OnAir \cup {u} ELSE OnAir \ {u}
  <2>1. \A v \in Ues : step'[v] = IF v = u THEN x ELSE step[v]
    BY <1>1, <1>5 DEF CycleInv
  <2> QED
    BY <2>1 DEF OnAir
<1>6. CASE BeginCycle
  <2>1. held["cp"] # None /\ held["cp"] \notin flight["cp"] /\ held["cp"] \in Ues
    <3>1. held["cp"] # None
      BY <1>6 DEF BeginCycle, Dispatch
    <3>2. held["cp"] \in Items
      BY <1>1, <3>1, StageNames DEF LoopTypes
    <3>3. held["cp"] \in Cp
      BY <3>2, AttemptsKind, StageNames DEF OneInv, ItemsOf
    <3>4. AtStage("cp", held["cp"]) <= 1 /\ queue["cp"][held["cp"]] \in Nat
      BY <1>1, <3>2, PlaceNat, StageNames DEF OneInv, LoopInv, OnceInv
    <3> QED
      BY <3>1, <3>3, <3>4, StageNames DEF AtStage
  <2>2. step[held["cp"]] = "idle"
    BY <1>1, <2>1 DEF CycleInv
  <2>3. step' = [step EXCEPT ![held["cp"]] = "register"] /\ UNCHANGED registered
    BY <1>6 DEF BeginCycle, Dispatch
  <2>4. OnAir' = OnAir \ {held["cp"]}
    BY <1>5, <2>1, <2>3
  <2>5. held["cp"] \notin OnAir
    BY <2>2 DEF OnAir
  <2> QED
    BY <1>1, <2>3, <2>4, <2>5
<1>7. ASSUME NEW u \in Ues, UeAttemptEnds(u) PROVE registered' = Cardinality(OnAir')
  <2>1. CASE RegAccepted(u) \/ RegFails(u) \/ Retry("reg", u) \/ PduAccepted(u) \/ PduFails(u) \/ Retry("pdu", u)
    BY <1>2, <2>1 DEF RegAccepted, RegFails, PduAccepted, PduFails, Retry
  <2>2. CASE CpRegisters(u)
    <3>1. CASE step' = [step EXCEPT ![u] = "hold"] /\ registered' = registered + 1
      <4>1. u \notin OnAir
        BY <2>2 DEF CpRegisters, OnAir
      <4> QED
        BY <1>3, <1>5, <3>1, <4>1
    <3>2. CASE step' = [step EXCEPT ![u] = "idle"] /\ registered' = registered
      <4>1. u \notin OnAir
        BY <2>2 DEF CpRegisters, OnAir
      <4>2. OnAir' = OnAir \ {u}
        BY <1>5, <3>2
      <4> QED
        BY <1>1, <3>2, <4>1, <4>2
    <3> QED
      BY <2>2, <3>1, <3>2 DEF CpRegisters, Idle
  <2>3. CASE CpHolds(u)
    <3>1. u \in OnAir
      BY <2>3 DEF CpHolds, OnAir
    <3>2. CASE step' = [step EXCEPT ![u] = "idle"] /\ registered' = registered - 1
      BY <1>4, <1>5, <3>1, <3>2
    <3>3. CASE step' = [step EXCEPT ![u] = "deregister"] /\ registered' = registered
      <4>1. OnAir' = OnAir \cup {u}
        BY <1>5, <3>3
      <4> QED
        BY <1>1, <3>1, <3>3, <4>1
    <3> QED
      BY <2>3, <3>2, <3>3 DEF CpHolds
  <2>4. CASE CpDeregisters(u)
    <3>1. u \in OnAir /\ step' = [step EXCEPT ![u] = "idle"] /\ registered' = registered - 1
      BY <2>4 DEF CpDeregisters, Idle, OnAir
    <3> QED
      BY <1>4, <1>5, <3>1
  <2>5. CASE DeregAccepted(u) \/ DeregAborted(u) \/ DeregFails(u) \/ DeregRetry(u)
    BY <1>2, <2>5 DEF DeregAccepted, DeregAborted, DeregFails, DeregRetry, Deregistered
  <2> QED
    BY <1>7, <2>1, <2>2, <2>3, <2>4, <2>5 DEF UeAttemptEnds
<1>8. CASE UeStays
  BY <1>2, <1>8 DEF UeStays
<1>9. CASE (\E s \in {"n2", "reg", "pdu"} : BeginAttempt(s)) \/ SkipCycle \/ BeginDeregistration
           \/ (\E g \in Gnbs : N2Fails(g)) \/ SkipUnfinished \/ DeregisterDone
  BY <1>2, <1>9 DEF BeginAttempt, BeginDeregistration, Dispatch, SkipCycle, N2Fails, SkipUnfinished, DeregisterDone
<1> QED
  BY <1>1, <1>6, <1>7, <1>8, <1>9, UeMoves DEF UeSteps

\* Before the cleanup only a cycle deregisters.
LEMMA EarlyStep ==
    ASSUME OneInv, LoadInv, EndInv, [Next]_vars, phase \notin Late, phase' \notin Late
    PROVE  \A u \in Ues : uSt'[u] = "deregistering" => step'[u] = "deregister"
<1> DEFINE Goal == \A u \in Ues : uSt'[u] = "deregistering" => step'[u] = "deregister"
<1>1. /\ LoopInv /\ LoopTypes /\ CycleInv /\ LoadTypes
      /\ \A u \in Ues : uSt[u] = "deregistering" => step[u] = "deregister"
  BY DEF OneInv, LoopInv, LoadInv, EndInv
<1>2. ASSUME UNCHANGED <<uSt, step>> PROVE Goal
  BY <1>1, <1>2
<1>3. ASSUME NEW v \in Ues, NEW x, x # "deregistering", uSt' = [uSt EXCEPT ![v] = x],
             step' = step \/ \E y : step' = [step EXCEPT ![v] = y]
      PROVE  Goal
  <2>1. \A u \in Ues : uSt'[u] = IF u = v THEN x ELSE uSt[u]
    BY <1>1, <1>3 DEF LoadTypes
  <2>2. \A u \in Ues : u # v => step'[u] = step[u]
    BY <1>1, <1>3 DEF CycleInv
  <2> QED
    BY <1>1, <1>3, <2>1, <2>2
<1>4. ASSUME NEW s \in {"n2", "reg", "pdu"}, BeginAttempt(s) PROVE Goal
  <2>1. CASE s = "n2"
    BY <1>2, <1>4, <2>1 DEF BeginAttempt
  <2>2. CASE s # "n2"
    <3>1. held[s] # None /\ UNCHANGED step
          /\ \E x \in {"registering", "establishing"} : uSt' = [uSt EXCEPT ![held[s]] = x]
      BY <1>4, <2>2 DEF BeginAttempt, Dispatch
    <3>2. s \in Stages /\ held[s] \in Items
      BY <1>1, <3>1, StageNames DEF LoopTypes
    <3>3. held[s] \in Ues
      BY <1>1, <2>2, <3>2, AttemptsKind, StageNames DEF ItemsOf
    <3> QED
      BY <1>3, <3>1, <3>3
  <2> QED
    BY <2>1, <2>2
<1>5. CASE BeginCycle \/ SkipCycle
  <2>1. held["cp"] # None
        /\ (\E x \in {"registering", "skipped"} : uSt' = [uSt EXCEPT ![held["cp"]] = x])
        /\ (step' = step \/ \E y : step' = [step EXCEPT ![held["cp"]] = y])
    BY <1>5 DEF BeginCycle, SkipCycle, Dispatch
  <2>2. "cp" \in Stages /\ held["cp"] \in Items
    BY <1>1, <2>1, StageNames DEF LoopTypes
  <2>3. held["cp"] \in Ues
    BY <1>1, <2>2, AttemptsKind, StageNames DEF ItemsOf
  <2> QED
    BY <1>3, <2>1, <2>3
<1>6. ASSUME NEW u \in Ues, u \in flight["dereg"] \/ held["dereg"] = u PROVE FALSE
  BY <1>1, <1>6, DeregPhase, StageNames DEF Late
<1>7. ~BeginDeregistration
  <2> SUFFICES ASSUME BeginDeregistration PROVE FALSE
    OBVIOUS
  <2>1. held["dereg"] # None
    BY DEF BeginDeregistration, Dispatch
  <2>2. "dereg" \in Stages /\ held["dereg"] \in Items
    BY <1>1, <2>1, StageNames DEF LoopTypes
  <2>3. held["dereg"] \in Ues
    BY <1>1, <2>2, DeregPhase
  <2> QED
    BY <1>6, <2>3
<1>8. ASSUME NEW g \in Gnbs, N2Fails(g) PROVE Goal
  <2>1. /\ UNCHANGED step
        /\ uSt' = [u \in Ues |-> IF GnbOf[u] = g THEN "skipped" ELSE uSt[u]]
    BY <1>8 DEF N2Fails
  <2>2. \A u \in Ues : uSt'[u] = uSt[u] \/ uSt'[u] = "skipped"
    BY <2>1
  <2> QED
    BY <1>1, <2>1, <2>2
<1>9. ASSUME NEW u \in Ues, UeAttemptEnds(u) PROVE Goal
  <2>1. CASE RegAccepted(u) \/ RegFails(u) \/ Retry("reg", u) \/ PduAccepted(u) \/ PduFails(u) \/ Retry("pdu", u)
    <3>1. UNCHANGED step
          /\ \E x \in {"registered", "failed", "pending", "established"} : uSt' = [uSt EXCEPT ![u] = x]
      BY <2>1 DEF RegAccepted, RegFails, PduAccepted, PduFails, Retry
    <3> QED
      BY <1>3, <3>1
  <2>2. CASE CpRegisters(u) \/ CpDeregisters(u)
    <3>1. (\E x \in {"registered", "pending"} : uSt' = [uSt EXCEPT ![u] = x]) /\ \E y : step' = [step EXCEPT ![u] = y]
      BY <2>2 DEF CpRegisters, CpDeregisters, Idle
    <3> QED
      BY <1>3, <3>1
  <2>3. CASE CpHolds(u)
    <3>1. step[u] = "hold" /\ uSt[u] # "deregistering"
      BY <1>1, <2>3 DEF CpHolds
    <3>2. CASE step' = [step EXCEPT ![u] = "idle"] /\ UNCHANGED uSt
      BY <1>1, <3>1, <3>2 DEF CycleInv
    <3>3. CASE step' = [step EXCEPT ![u] = "deregister"] /\ uSt' = [uSt EXCEPT ![u] = "deregistering"]
      BY <1>1, <3>3 DEF CycleInv, LoadTypes
    <3> QED
      BY <2>3, <3>2, <3>3 DEF CpHolds
  <2>4. CASE DeregAccepted(u) \/ DeregAborted(u) \/ DeregFails(u) \/ DeregRetry(u)
    <3>1. u \in flight["dereg"]
      BY <2>4 DEF DeregAccepted, DeregAborted, DeregFails, DeregRetry, Deregistered
    <3> QED
      BY <1>6, <3>1
  <2> QED
    BY <1>9, <2>1, <2>2, <2>3, <2>4 DEF UeAttemptEnds
<1>10. ~SkipUnfinished /\ ~DeregisterDone
  BY DEF SkipUnfinished, DeregisterDone, Late
<1>11. CASE UeStays
  BY <1>2, <1>11 DEF UeStays
<1>12. Goal
  BY <1>1, <1>4, <1>5, <1>7, <1>8, <1>9, <1>10, <1>11, UeMoves DEF UeSteps
<1> QED
  BY <1>12 DEF Goal

\* skipUnfinished leaves no state that promises something.
LEMMA SkipSettles ==
    ASSUME OneInv, LoadInv, EndInv, SkipUnfinished
    PROVE  \A u \in Ues : regDone'[u] /\ Settled(u)'
<1>1. phase = "stopping" /\ loop["cp"] = "returned" /\ regDone' = [u \in Ues |-> TRUE]
  BY DEF SkipUnfinished
<1>2. \A u \in Ues : step[u] = "idle"
  BY <1>1, LateQuiet
<1>3. \A u \in Ues : uSt[u] # "deregistering"
  BY <1>1, <1>2 DEF EndInv, Late
<1>4. uSt' = [u \in Ues |->
                IF u \in Cp /\ uSt[u] = "pending" /\ cycled[u] THEN "deregistered"
                ELSE IF uSt[u] \in {"pending", "registering", "registered", "establishing"} THEN "cancelled"
                ELSE uSt[u]]
  BY DEF SkipUnfinished
<1>5. \A u \in Ues : uSt[u] \in UeStates
  BY DEF LoadInv, LoadTypes
<1>6. \A u \in Ues : uSt'[u] \in Final
  BY <1>3, <1>4, <1>5 DEF UeStates, Final
<1> QED
  BY <1>1, <1>6 DEF Settled

LEMMA SettledKeeps ==
    ASSUME OneInv, [Next]_vars, phase \in Late, NEW u \in Ues, Settled(u), uSt'[u] = uSt[u], ~Deregistered(u)
    PROVE  Settled(u)'
<1>1. CASE uSt[u] \in Final
  BY <1>1 DEF Settled
<1>2. CASE phase = "deregister" /\ uSt[u] = "deregistering" /\ AtStage("dereg", u) > 0
  <2>1. CASE DeregisterDone /\ queue["dereg"][u] > 0
    <3>1. uSt' = [v \in Ues |-> IF v \in { w \in Ues : queue["dereg"][w] > 0 } /\ uSt[v] # "failed"
                                  THEN "cancelled" ELSE uSt[v]]
      BY <2>1 DEF DeregisterDone
    <3>2. uSt'[u] = "cancelled"
      BY <1>2, <2>1, <3>1
    <3> QED
      BY <3>2 DEF Settled, Final
  <2>2. CASE phase' = "deregister" /\ (AtStage("dereg", u) > 0)'
    BY <1>2, <2>2 DEF Settled
  <2> QED
    BY <1>2, <2>1, <2>2, DeregPlaces
<1> QED
  BY <1>1, <1>2 DEF Settled

LEMMA LateStep ==
    ASSUME OneInv, LoadInv, DeregOver, EndInv, [Next]_vars, phase \in Late
    PROVE  \A u \in Ues : Settled(u)'
<1> DEFINE Goal == \A u \in Ues : Settled(u)'
<1>1. /\ LoopInv /\ LoopTypes /\ CycleInv /\ LoadTypes /\ \A u \in Ues : Settled(u)
      /\ "dereg" \in Stages
  BY StageNames DEF OneInv, LoopInv, LoadInv, EndInv
<1>2. /\ \A s \in {"n2", "reg", "pdu", "cp"} : loop[s] = "returned" /\ flight[s] = {}
      /\ \A u \in Ues : step[u] = "idle"
  BY LateQuiet
<1>3. ASSUME UeStays PROVE Goal
  <2>1. ASSUME NEW u \in Ues PROVE ~Deregistered(u)
    BY <1>1, <1>3 DEF UeStays, Deregistered, Leave, LoopTypes
  <2> QED
    BY <1>1, <1>3, <2>1, SettledKeeps DEF UeStays
<1>4. (\A s \in {"n2", "reg", "pdu"} : ~BeginAttempt(s)) /\ ~BeginCycle /\ ~SkipCycle
  BY <1>2 DEF BeginAttempt, BeginCycle, SkipCycle, Dispatch
<1>5. \A g \in Gnbs : ~N2Fails(g)
  BY <1>2 DEF N2Fails
<1>6. ~SkipUnfinished
  BY DEF SkipUnfinished, Late
<1>7. CASE BeginDeregistration
  <2>0. PICK u : u = held["dereg"]
    OBVIOUS
  <2>1. /\ u # None /\ loop["dereg"] = "loop" /\ UNCHANGED <<phase, queue>>
        /\ flight' = [flight EXCEPT !["dereg"] = flight["dereg"] \cup {u}]
        /\ uSt' = [uSt EXCEPT ![u] = IF uSt[u] = "failed" THEN "failed" ELSE "deregistering"]
    BY <1>7, <2>0 DEF BeginDeregistration, Dispatch, CleanupState
  <2>2. u \in Items
    BY <1>1, <2>0, <2>1 DEF LoopTypes
  <2>3. u \in Ues /\ phase \in {"deregister", "close", "stopped"}
    BY <1>1, <2>0, <2>2, DeregPhase
  <2>4. phase = "deregister"
    BY <2>1, <2>3 DEF DeregOver
  <2>5. flight'["dereg"] = flight["dereg"] \cup {u}
    BY <1>1, <2>1 DEF LoopTypes
  <2>6. (AtStage("dereg", u) > 0)'
    <3>1. queue'["dereg"][u] \in Nat
      BY <1>1, <2>1, <2>2 DEF LoopTypes
    <3> QED
      BY <2>5, <3>1 DEF AtStage
  <2>7. \A v \in Ues : uSt'[v] = IF v # u THEN uSt[v] ELSE IF uSt[u] = "failed" THEN "failed" ELSE "deregistering"
    BY <1>1, <2>1 DEF LoadTypes
  <2>8. ASSUME NEW v \in Ues PROVE Settled(v)'
    <3>1. CASE v = u
      BY <2>1, <2>3, <2>4, <2>6, <2>7, <3>1 DEF Settled, Final
    <3>2. CASE v # u
      <4>1. ~Deregistered(v)
        BY <1>1, <2>5 DEF Deregistered, Leave, LoopTypes
      <4>2. uSt'[v] = uSt[v]
        BY <2>7, <3>2
      <4> QED
        BY <1>1, <4>1, <4>2, SettledKeeps
    <3> QED
      BY <3>1, <3>2
  <2> QED
    BY <2>8
<1>8. ASSUME NEW u \in Ues, UeAttemptEnds(u) PROVE Goal
  <2>1. CASE RegAccepted(u) \/ RegFails(u) \/ Retry("reg", u) \/ PduAccepted(u) \/ PduFails(u) \/ Retry("pdu", u)
    BY <1>2, <2>1 DEF RegAccepted, RegFails, PduAccepted, PduFails, Retry
  <2>2. CASE CpRegisters(u) \/ CpHolds(u) \/ CpDeregisters(u)
    BY <1>2, <2>2 DEF CpRegisters, CpHolds, CpDeregisters
  <2>3. CASE DeregAccepted(u) \/ DeregAborted(u) \/ DeregFails(u)
    <3>1. /\ u \in flight["dereg"] /\ Leave("dereg", u)
          /\ \E st \in {"deregistered", "cancelled", "failed"} :
                uSt' = [uSt EXCEPT ![u] = IF uSt[u] = "failed" THEN "failed" ELSE st]
      BY <2>3 DEF DeregAccepted, DeregAborted, DeregFails, Deregistered, CleanupState
    <3>2. flight'["dereg"] = flight["dereg"] \ {u}
      BY <1>1, <3>1 DEF Leave, LoopTypes
    <3>3. uSt'[u] \in {"deregistered", "cancelled", "failed"} /\ \A v \in Ues : v # u => uSt'[v] = uSt[v]
      BY <1>1, <3>1 DEF LoadTypes
    <3>4. ASSUME NEW v \in Ues, v # u PROVE ~Deregistered(v)
      BY <1>1, <3>2, <3>4 DEF Deregistered, Leave, LoopTypes
    <3>5. Settled(u)'
      BY <3>3 DEF Settled, Final
    <3> QED
      BY <1>1, <3>3, <3>4, <3>5, SettledKeeps
  <2>4. CASE DeregRetry(u)
    <3>1. UNCHANGED <<uSt, left>> /\ queue' = Pushed("dereg", {u})
      BY <2>4 DEF DeregRetry
    <3>2. queue'["dereg"][u] = queue["dereg"][u] + 1 /\ queue["dereg"][u] \in Nat
      BY <1>1, <3>1, PushedAt, StageNames DEF LoopTypes
    <3>3. ASSUME NEW v \in Ues PROVE ~Deregistered(v)
      BY <3>2 DEF Deregistered
    <3> QED
      BY <1>1, <3>1, <3>3, SettledKeeps
  <2> QED
    BY <1>8, <2>1, <2>2, <2>3, <2>4 DEF UeAttemptEnds
<1>9. CASE DeregisterDone
  <2>1. /\ phase = "deregister" /\ loop["dereg"] = "returned" /\ UNCHANGED flight
        /\ uSt' = [v \in Ues |-> IF v \in { w \in Ues : queue["dereg"][w] > 0 } /\ uSt[v] # "failed"
                                  THEN "cancelled" ELSE uSt[v]]
    BY <1>9 DEF DeregisterDone
  <2>2. ASSUME NEW u \in Ues PROVE Settled(u)'
    <3>1. CASE uSt'[u] = "cancelled"
      BY <3>1 DEF Settled, Final
    <3>2. CASE uSt'[u] = uSt[u]
      <4>1. ~Deregistered(u)
        BY <1>1, <2>1 DEF Deregistered, Leave, LoopTypes
      <4> QED
        BY <1>1, <3>2, <4>1, SettledKeeps
    <3> QED
      BY <2>1, <3>1, <3>2
  <2> QED
    BY <2>2
<1>10. Goal
  BY <1>1, <1>3, <1>4, <1>5, <1>6, <1>7, <1>8, <1>9, UeMoves DEF UeSteps
<1> QED
  BY <1>10 DEF Goal

LEMMA EndStep == OneInv /\ LoadInv /\ CountInv /\ EndInv /\ [Next]_vars => EndInv'
<1> SUFFICES ASSUME OneInv, LoadInv, CountInv, EndInv, [Next]_vars PROVE EndInv'
  OBVIOUS
<1>1. DoneInv /\ DeregOver
  BY DEF CountInv
<1>2. registered' = Cardinality(OnAir')
  BY RegisteredStep
<1>3. CASE SkipUnfinished
  <2>1. phase' \in Late
    BY <1>3 DEF SkipUnfinished, Late
  <2> QED
    BY <1>2, <1>3, <2>1, SkipSettles DEF EndInv
<1>4. CASE ~SkipUnfinished /\ phase \notin Late
  <2>1. phase' \notin Late
    BY <1>4, LateMoves
  <2> QED
    BY <1>2, <1>4, <2>1, EarlyStep DEF EndInv
<1>5. CASE ~SkipUnfinished /\ phase \in Late
  <2>1. phase' \in Late
    BY <1>5, LateMoves
  <2>2. \A u \in Ues : Settled(u)'
    BY <1>1, <1>5, LateStep
  <2>3. \A s \in {"n2", "reg", "pdu", "cp"} : flight[s] = {}
    BY <1>5, LateQuiet
  <2>4. ASSUME NEW u \in Tp PROVE regDone'[u]
    <3>1. ~GivesOutcome(u)
      BY <1>5, <2>3 DEF GivesOutcome, RegAccepted, RegFails, PduAccepted, PduFails, N2Fails
    <3>2. regDone[u]
      BY <1>5, StageNames DEF EndInv
    <3> QED
      BY <1>1, <3>1, <3>2, DoneMoves
  <2>5. \A u \in Cp : regDone'[u]
    BY <1>1, DoneMoves
  <2> QED
    BY <1>2, <2>1, <2>2, <2>4, <2>5 DEF EndInv, Ues
<1> QED
  BY <1>3, <1>4, <1>5

LEMMA EndShown == OneInv /\ ConnsInv /\ LoadInv /\ CountInv /\ EndInv => DoneWhenStopped
<1> SUFFICES ASSUME OneInv, ConnsInv, LoadInv, CountInv, EndInv, phase = "stopped"
             PROVE  /\ \A c \in Cards : card[c].finished + card[c].skipped = Expected[c] /\ card[c].inFlight = 0
                    /\ \A u \in Ues : uSt[u] \in {"established", "failed", "skipped", "cancelled", "deregistered"}
                    /\ registered = 0
  BY DEF DoneWhenStopped
<1>1. phase \in Late /\ LoopInv
  BY DEF Late, OneInv
<1>2. registered = 0
  BY <1>1, LateQuiet, FS_EmptySet DEF EndInv
<1>3. \A u \in Ues : regDone[u] /\ uSt[u] \in Final
  BY <1>1 DEF EndInv, Settled
<1>4. ASSUME NEW c \in Cards
      PROVE  card[c].finished + card[c].skipped = Expected[c] /\ card[c].inFlight = 0
  <2>1. Uncounted(c) = {}
    <3>1. c = "n2" => Uncounted(c) = {}
      BY <1>1 DEF Uncounted
    <3>2. c = "reg" => Uncounted(c) = {}
      BY <1>3, StageNames DEF Uncounted
    <3>3. c = "pdu" => Uncounted(c) = {}
      <4>1. Cardinality(Unfinished) = 0
        BY <1>1 DEF LoadInv
      <4> QED
        BY <4>1, UnfinishedFinite, FS_EmptySet DEF Uncounted
    <3>4. c = "n2Release" => Uncounted(c) = {}
      BY DEF Uncounted, ConnsInv
    <3>5. c \in Release => Uncounted(c) = {}
      BY ToCleanNow DEF Uncounted, Release
    <3> QED
      BY <3>1, <3>2, <3>3, <3>4, <3>5 DEF Cards, Release
  <2>2. Working(c) = {}
    <3>1. \A s \in Launch : flight[s] = {}
      BY <1>1, LateQuiet DEF Launch
    <3>2. flight["dereg"] = {}
      <4>1. loop["dereg"] \in {"off", "returned"}
        BY DEF CountInv, DeregOver
      <4> QED
        BY <1>1, <4>1, StageNames DEF LoopInv, IdleInv
    <3>3. c = "n2Release" => Working(c) = {}
      BY DEF Working, ConnsInv
    <3>4. c # "n2Release" => StageOf(c) \in Launch \cup {"dereg"}
      BY DEF Cards, StageOf, Launch
    <3> QED
      BY <3>1, <3>2, <3>3, <3>4 DEF Working
  <2>3. /\ card[c] \in [inFlight : Int, finished : Nat, skipped : Nat]
        /\ card[c].inFlight = Cardinality(Working(c))
        /\ card[c].finished + card[c].skipped + Cardinality(Uncounted(c)) = Cardinality(Whole(c))
    BY DEF CountInv, CardOk
  <2>4. Expected[c] = Cardinality(Whole(c))
    BY DEF Expected, Whole, Cards
  <2> QED
    BY <2>1, <2>2, <2>3, <2>4, FS_EmptySet
<1> QED
  BY <1>2, <1>3, <1>4 DEF Final

\* A stopped run owes nothing: every card has all its items finished or skipped and none in
\* flight, every UE has its last state, and no control-plane UE is counted as registered.
THEOREM DoneWhenStoppedAlways == Spec => []DoneWhenStopped
<1> DEFINE I == OneInv /\ ConnsInv /\ LoadInv /\ CountInv /\ EndInv
<1>1. Init => I
  BY OneInit, ConnsInit, LoadInit, CountInit, EndInit
<1>2. I /\ [Next]_vars => I'
  BY OneStep, ConnsStep, LoadStep, CountStep, EndStep
<1>3. I => DoneWhenStopped
  BY EndShown
<1> QED
  BY <1>1, <1>2, <1>3, PTL DEF Spec

-----------------------------------------------------------------------------
(* The types of a run.                                                     *)

\* gNBs that n2Round.left counts.
Awaited == { g \in Gnbs : gSt[g] \in Waiting }

\* What is left to do is counted down to zero, never below.
LeftInv ==
    /\ left.n2 \in Nat /\ left.dereg \in Nat
    /\ phase = "n2" => left.n2 = Cardinality(Awaited)
    /\ phase = "deregister" => left.dereg = Cardinality(ToClean)

LEMMA LeftFinite ==
    /\ IsFiniteSet(Awaited) /\ Cardinality(Awaited) \in Nat
    /\ IsFiniteSet(ToClean) /\ Cardinality(ToClean) \in Nat
<1>1. Awaited \subseteq Items /\ ToClean \subseteq Items
  BY StageNames DEF Awaited, ToClean
<1> QED
  BY <1>1, PipelineOK, FS_Subset, FS_CardinalityType

LEMMA LeftInit == Init => LeftInv
<1> SUFFICES ASSUME Init PROVE LeftInv
  OBVIOUS
<1>1. phase = "n2" /\ left = [n2 |-> Cardinality(Gnbs), tp |-> Cardinality(Tp), dereg |-> 0]
  BY DEF Init
<1>2. Awaited = Gnbs
  BY DEF Init, Awaited, Waiting
<1> QED
  BY <1>1, <1>2, LeftFinite DEF LeftInv

LEMMA LeftMoves ==
    ASSUME LoadTypes, [Next]_vars
    PROVE  /\ left'.n2 = left.n2 \/ \E g \in Gnbs : N2Up(g) \/ N2Fails(g)
           /\ left'.dereg = left.dereg \/ DeregisterAll \/ \E u \in Ues : Deregistered(u)
<1> DEFINE Goal == /\ left'.n2 = left.n2 \/ \E g \in Gnbs : N2Up(g) \/ N2Fails(g)
                   /\ left'.dereg = left.dereg \/ DeregisterAll \/ \E u \in Ues : Deregistered(u)
<1>1. ASSUME UNCHANGED left PROVE Goal
  BY <1>1
<1>2. ASSUME NEW S, PduMarked(S) PROVE Goal
  BY <1>2 DEF PduMarked, LoadTypes
<1>3. ASSUME NEW s \in Stages, Dispatcher(s) PROVE UNCHANGED left
  BY <1>3 DEF Dispatcher, Pop, LoopEnds, LoopReturns, BeginAttempt, BeginCycle, BeginDeregistration, SkipCycle,
              CpLoopStarts, Dispatch
<1>4. ASSUME NEW g \in Gnbs, GnbAttemptEnds(g) PROVE Goal
  <2>1. CASE Retry("n2", g)
    BY <1>1, <2>1 DEF Retry
  <2>2. CASE N2Up(g) \/ N2Fails(g)
    <3>1. left'.dereg = left.dereg
      BY <2>2 DEF N2Up, N2Fails, LoadTypes
    <3> QED
      BY <2>2, <3>1
  <2> QED
    BY <1>4, <2>1, <2>2 DEF GnbAttemptEnds
<1>5. ASSUME NEW u \in Ues, UeAttemptEnds(u) PROVE Goal
  <2>1. CASE RegAccepted(u) \/ Retry("reg", u) \/ Retry("pdu", u) \/ DeregRetry(u)
    BY <1>1, <2>1 DEF RegAccepted, Retry, DeregRetry
  <2>2. CASE RegFails(u) \/ PduAccepted(u) \/ PduFails(u)
    BY <1>2, <2>2 DEF RegFails, PduAccepted, PduFails
  <2>3. CASE CpRegisters(u) \/ CpHolds(u) \/ CpDeregisters(u)
    BY <1>1, <2>3 DEF CpRegisters, CpHolds, CpDeregisters
  <2>4. CASE DeregAccepted(u) \/ DeregAborted(u) \/ DeregFails(u)
    <3>1. Deregistered(u)
      BY <2>4 DEF DeregAccepted, DeregAborted, DeregFails
    <3>2. left'.n2 = left.n2
      BY <3>1 DEF Deregistered, LoadTypes
    <3> QED
      BY <3>1, <3>2
  <2> QED
    BY <1>5, <2>1, <2>2, <2>3, <2>4 DEF UeAttemptEnds
<1>6. CASE Execute
  <2>1. CASE N2Done \/ Stopping \/ DeregisterDone \/ Stopped \/ \E g \in Gnbs : CloseTake(g) \/ CloseEnds(g)
    BY <1>1, <2>1 DEF N2Done, Stopping, DeregisterDone, Stopped, CloseTake, CloseEnds, loopVars
  <2>2. CASE SkipUnfinished
    BY <1>2, <2>2 DEF SkipUnfinished
  <2>3. CASE DeregisterAll
    <3>1. left'.n2 = left.n2
      BY <2>3 DEF DeregisterAll, LoadTypes
    <3> QED
      BY <2>3, <3>1
  <2> QED
    BY <1>6, <2>1, <2>2, <2>3 DEF Execute
<1>7. CASE Stop \/ Abort \/ (\E g \in Gnbs : AssociationEnds(g) \/ Watcher(g)) \/ UNCHANGED vars
  BY <1>1, <1>7 DEF Stop, Abort, AssociationEnds, Watcher, WatchCheck, WatchTake, WatchClose, loopVars, vars
<1>8. Goal
  BY <1>1, <1>3, <1>4, <1>5, <1>6, <1>7 DEF Next
<1> QED
  BY <1>8 DEF Goal

\* A gNB's outcome, and nothing else, takes it off the count.
LEMMA AwaitedMoves ==
    ASSUME OneInv, ConnsInv, GnbInv, [Next]_vars, phase = "n2"
    PROVE  \/ Awaited' = Awaited /\ ~\E g \in Gnbs : N2Up(g) \/ N2Fails(g)
           \/ \E g \in Gnbs : (N2Up(g) \/ N2Fails(g)) /\ g \in Awaited /\ Awaited' = Awaited \ {g}
<1>1. /\ gSt' \in [Gnbs -> {"pending", "connecting", "up", "failed", "lost", "closed"}]
      /\ \A g \in Gnbs : gSt'[g] = gSt[g] \/ GnbSteps(g)
  BY GnbMoves
<1>2. LoopInv /\ LoopTypes
  BY DEF OneInv, LoopInv
<1>3. ASSUME NEW g \in Gnbs, N2Up(g) \/ N2Fails(g)
      PROVE  g \in Awaited /\ Awaited' = Awaited \ {g}
  <2>1. /\ g \in flight["n2"]
        /\ gSt' = [gSt EXCEPT ![g] = "up"] \/ gSt' = [gSt EXCEPT ![g] = "failed"]
    BY <1>3 DEF N2Up, N2Fails
  <2>2. gSt[g] \in Waiting
    BY <1>2, <2>1, N2Phase
  <2>3. (\A h \in Gnbs : h # g => gSt'[h] = gSt[h]) /\ gSt'[g] \notin Waiting
    BY <2>1 DEF GnbInv, Waiting
  <2> QED
    BY <2>2, <2>3 DEF Awaited
<1>4. ASSUME NEW g \in Gnbs, ~N2Up(g), ~N2Fails(g) PROVE gSt'[g] \in Waiting <=> gSt[g] \in Waiting
  <2>1. CASE gSt'[g] = gSt[g]
    BY <2>1
  <2>2. CASE BeginAttempt("n2") /\ held["n2"] = g
    <3>1. gSt'[g] = "connecting"
      BY <2>2 DEF BeginAttempt, GnbInv
    <3> QED
      BY <1>2, <2>2, <3>1, N2Phase DEF Waiting
  <2>3. CASE Retry("n2", g)
    <3>1. g \in flight["n2"] /\ gSt'[g] = "pending"
      BY <2>3 DEF Retry, GnbInv
    <3> QED
      BY <1>2, <3>1, N2Phase DEF Waiting
  <2>4. CASE WatchClose(g)
    <3>1. watch[g] # "none" /\ gSt'[g] = "lost"
      BY <2>4 DEF WatchClose, GnbInv
    <3> QED
      BY <3>1 DEF GnbInv, Waiting
  <2>5. ~CloseEnds(g)
    BY DEF CloseEnds, ConnsInv
  <2> QED
    BY <1>1, <1>4, <2>1, <2>2, <2>3, <2>4, <2>5 DEF GnbSteps
<1>5. CASE \E g \in Gnbs : N2Up(g) \/ N2Fails(g)
  BY <1>3, <1>5
<1>6. CASE ~\E g \in Gnbs : N2Up(g) \/ N2Fails(g)
  BY <1>4, <1>6 DEF Awaited
<1> QED
  BY <1>5, <1>6

LEMMA LeftStep ==
    ASSUME OneInv, ConnsInv, LoadInv, CountInv, LeftInv, [Next]_vars
    PROVE  LeftInv'
<1>1. LoopInv /\ LoopTypes /\ LoopTypes' /\ LoadTypes /\ GnbInv /\ DeregOver
  BY LoopStep DEF OneInv, LoopInv, LoadInv, CountInv
<1>2. Onward
  BY PhaseOrder
<1>3. left'.n2 \in Nat /\ (phase' = "n2" => left'.n2 = Cardinality(Awaited'))
  <2>1. ASSUME NEW g \in Gnbs, N2Up(g) \/ N2Fails(g)
        PROVE  left'.n2 \in Nat /\ left'.n2 = Cardinality(Awaited')
    <3>1. g \in flight["n2"] /\ left'.n2 = left.n2 - 1
      BY <1>1, <2>1 DEF N2Up, N2Fails, LoadTypes
    <3>2. phase = "n2"
      BY <1>1, <3>1, N2Phase
    <3>3. ASSUME NEW h \in Gnbs, h \in Awaited, Awaited' = Awaited \ {h}
          PROVE  left'.n2 \in Nat /\ left'.n2 = Cardinality(Awaited')
      <4>1. Cardinality(Awaited') = Cardinality(Awaited) - 1 /\ Cardinality(Awaited) # 0
        BY <3>3, LeftFinite, FS_RemoveElement, FS_EmptySet
      <4> QED
        BY <3>1, <3>2, <4>1, LeftFinite DEF LeftInv
    <3> QED
      BY <1>1, <2>1, <3>2, <3>3, AwaitedMoves
  <2>2. CASE ~\E g \in Gnbs : N2Up(g) \/ N2Fails(g)
    <3>1. left'.n2 = left.n2
      BY <1>1, <2>2, LeftMoves
    <3>2. phase' = "n2" => Awaited' = Awaited /\ phase = "n2"
      BY <1>1, <1>2, <2>2, AwaitedMoves DEF Onward
    <3> QED
      BY <3>1, <3>2 DEF LeftInv
  <2> QED
    BY <2>1, <2>2
<1>4. left'.dereg \in Nat /\ (phase' = "deregister" => left'.dereg = Cardinality(ToClean'))
  <2>1. CASE DeregisterAll
    <3>1. /\ ToClean' = { u \in Ues : CanDeregister(u) }
          /\ \/ phase' = "close" /\ UNCHANGED left
             \/ phase' = "deregister" /\ left' = [left EXCEPT !.dereg = Cardinality({ u \in Ues : CanDeregister(u) })]
      BY <1>1, <2>1, DeregisterAllCleans DEF DeregisterAll
    <3>2. Cardinality({ u \in Ues : CanDeregister(u) }) \in Nat
      <4>1. { u \in Ues : CanDeregister(u) } \subseteq Items
        BY StageNames
      <4> QED
        BY <4>1, PipelineOK, FS_Subset, FS_CardinalityType
    <3> QED
      BY <1>1, <3>1, <3>2 DEF LeftInv, LoadTypes
  <2>2. ASSUME NEW u \in Ues, Deregistered(u)
        PROVE  left'.dereg \in Nat /\ left'.dereg = Cardinality(ToClean')
    <3>1. phase = "deregister" /\ u \in ToClean /\ ToClean' = ToClean \ {u}
      BY <1>1, <2>2, DeregisteredCleans
    <3>2. left'.dereg = left.dereg - 1
      BY <1>1, <2>2 DEF Deregistered, LoadTypes
    <3>3. Cardinality(ToClean \ {u}) = Cardinality(ToClean) - 1 /\ Cardinality(ToClean) # 0
      BY <3>1, LeftFinite, FS_RemoveElement, FS_EmptySet
    <3> QED
      BY <3>1, <3>2, <3>3, LeftFinite DEF LeftInv
  <2>3. CASE ~DeregisterAll /\ ~\E u \in Ues : Deregistered(u)
    <3>1. left'.dereg = left.dereg
      BY <1>1, <2>3, LeftMoves
    <3>2. ASSUME phase' = "deregister" PROVE ToClean' = ToClean /\ phase = "deregister"
      <4>1. phase \in Cleanup /\ phase \notin {"close", "stopped"}
        BY <1>2, <2>3, <3>2 DEF Onward, Cleanup
      <4>2. ~DeregisterDone
        BY <3>2 DEF DeregisterDone
      <4> QED
        BY <2>3, <4>1, <4>2, ToCleanMoves DEF Cleanup
    <3> QED
      BY <3>1, <3>2 DEF LeftInv
  <2> QED
    BY <2>1, <2>2, <2>3
<1> QED
  BY <1>3, <1>4 DEF LeftInv

\* What no other invariant speaks of.
RestTypes ==
    /\ ctxDone \in BOOLEAN /\ aborted \in BOOLEAN
    /\ tries \in [Stages -> [Items -> Nat]]
    /\ cycled \in [Ues -> BOOLEAN]
    /\ core \in SUBSET Ues

LEMMA RestInit == Init => RestTypes
<1> SUFFICES ASSUME Init PROVE RestTypes
  OBVIOUS
<1>1. tries = [s \in Stages |-> [i \in Items |-> 0]]
  BY DEF Init
<1>2. cycled = [u \in Ues |-> FALSE] /\ core = {} /\ ctxDone = FALSE /\ aborted = FALSE
  BY DEF Init
<1> QED
  BY <1>1, <1>2 DEF RestTypes

LEMMA RestStep == LoopTypes /\ RestTypes /\ [Next]_vars => RestTypes'
<1> SUFFICES ASSUME LoopTypes, RestTypes, [Next]_vars PROVE RestTypes'
  OBVIOUS
<1>1. ASSUME UNCHANGED <<ctxDone, aborted, tries, cycled, core>> PROVE RestTypes'
  BY <1>1 DEF RestTypes
<1>2. ASSUME NEW u \in Ues, UNCHANGED <<ctxDone, aborted, tries, cycled>>, core' \in {core, core \cup {u}, core \ {u}}
      PROVE  RestTypes'
  BY <1>2 DEF RestTypes
<1>3. ASSUME NEW s \in Stages, Dispatcher(s) PROVE RestTypes'
  <2>1. ASSUME NEW t \in Stages, Dispatch(t), tries' = [tries EXCEPT ![t][held[t]] = @ + 1] PROVE RestTypes'
    <3>1. held[t] \in Items /\ UNCHANGED <<ctxDone, aborted, cycled, core>>
      BY <2>1 DEF Dispatch, LoopTypes, stopVars
    <3>2. tries' \in [Stages -> [Items -> Nat]]
      BY <2>1, <3>1 DEF RestTypes
    <3> QED
      BY <3>1, <3>2 DEF RestTypes
  <2>2. CASE BeginAttempt(s)
    BY <2>1, <2>2 DEF BeginAttempt
  <2>3. CASE BeginDeregistration
    BY <2>1, <2>3, StageNames DEF BeginDeregistration
  <2>4. CASE Pop(s) \/ LoopEnds(s) \/ LoopReturns(s) \/ CpLoopStarts \/ BeginCycle \/ SkipCycle
    BY <1>1, <2>4 DEF Pop, LoopEnds, LoopReturns, CpLoopStarts, BeginCycle, SkipCycle, Dispatch, stopVars, ueVars
  <2> QED
    BY <1>3, <2>2, <2>3, <2>4 DEF Dispatcher
<1>4. ASSUME NEW g \in Gnbs, GnbAttemptEnds(g) PROVE RestTypes'
  BY <1>1, <1>4 DEF GnbAttemptEnds, N2Up, N2Fails, Retry, stopVars, ueVars
<1>5. ASSUME NEW u \in Ues, UeAttemptEnds(u) PROVE RestTypes'
  <2>1. CASE RegAccepted(u) \/ RegFails(u) \/ Retry("reg", u) \/ Retry("pdu", u) \/ CpRegisters(u) \/ CpHolds(u)
    BY <1>2, <2>1 DEF RegAccepted, RegFails, Retry, CpRegisters, CpHolds, stopVars
  <2>2. CASE PduAccepted(u) \/ PduFails(u)
    BY <1>1, <2>2 DEF PduAccepted, PduFails, stopVars
  <2>3. CASE CpDeregisters(u)
    BY <2>3 DEF CpDeregisters, RestTypes, stopVars
  <2>4. CASE DeregAccepted(u) \/ DeregAborted(u) \/ DeregFails(u) \/ DeregRetry(u)
    BY <1>2, <2>4 DEF DeregAccepted, DeregAborted, DeregFails, DeregRetry, Deregistered, stopVars
  <2> QED
    BY <1>5, <2>1, <2>2, <2>3, <2>4 DEF UeAttemptEnds
<1>6. CASE Execute
  BY <1>1, <1>6 DEF Execute, N2Done, Stopping, SkipUnfinished, DeregisterAll, DeregisterDone, Stopped, CloseTake,
                    CloseEnds, stopVars, loopVars, ueVars
<1>7. CASE Stop \/ Abort
  BY <1>7 DEF Stop, Abort, RestTypes, loopVars, ueVars
<1>8. CASE (\E g \in Gnbs : AssociationEnds(g) \/ Watcher(g)) \/ UNCHANGED vars
  BY <1>1, <1>8 DEF AssociationEnds, Watcher, WatchCheck, WatchTake, WatchClose, loopVars, ueVars, stopVars, vars
<1> QED
  BY <1>3, <1>4, <1>5, <1>6, <1>7, <1>8 DEF Next

\* All that a run's invariants need of each other.
RunInv == OneInv /\ ConnsInv /\ LoadInv /\ FailInv /\ CleanInv /\ CountInv /\ EndInv /\ LeftInv /\ RestTypes

LEMMA RunTypes == RunInv => TypeOK
<1> SUFFICES ASSUME RunInv PROVE TypeOK
  OBVIOUS
<1>1. LoopTypes /\ RestTypes /\ LoadTypes /\ ConnsInv /\ CycleInv
  BY DEF RunInv, OneInv, LoopInv, LoadInv
<1>2. left \in [n2 : Nat, tp : Nat, dereg : Nat]
  <2>1. left.tp \in Nat
    BY UnfinishedFinite DEF RunInv, LoadInv
  <2> QED
    BY <1>1, <2>1 DEF RunInv, LeftInv, LoadTypes
<1>3. card \in [Cards -> Card]
  <2>1. ASSUME NEW c \in Cards PROVE card[c] \in Card
    <3>1. card[c] \in [inFlight : Int, finished : Nat, skipped : Nat] /\ card[c].inFlight = Cardinality(Working(c))
      BY DEF RunInv, CountInv, CardOk
    <3> QED
      BY <3>1, CardSets DEF Card
  <2> QED
    BY <2>1 DEF RunInv, CountInv, CardFn
<1>4. gSt \in [Gnbs -> {"pending", "connecting", "up", "failed", "lost", "closed"}]
  BY DEF RunInv, CountInv, GnbInv
<1>5. alive \in [Gnbs -> BOOLEAN] /\ link \in [Ues -> BOOLEAN]
  BY DEF RunInv, CleanInv
<1>6. regDone \in [Ues -> BOOLEAN]
  BY DEF RunInv, CountInv, DoneInv
<1>7. registered \in Nat
  BY OnAirFinite DEF RunInv, EndInv
<1>8. failures \in SUBSET (Ues \X {"registration", "pdu", "deregistration"})
  BY DEF RunInv, FailInv
<1>9. LoopTypes /\ Phases = {"n2", "running", "stopping", "skipped", "deregister", "close", "stopped"}
  BY <1>1 DEF Phases
<1> QED
  BY <1>1, <1>2, <1>3, <1>4, <1>5, <1>6, <1>7, <1>8, <1>9 DEF TypeOK, LoopTypes, RestTypes, LoadTypes, ConnsInv,
     CycleInv

\* Every counter is a natural number, in particular n2Round.left, tpLeft and deregisterAll's
\* left, which are only ever counted down.
THEOREM RunsAreTyped == Spec => []TypeOK
<1>1. Init => RunInv
  BY OneInit, ConnsInit, LoadInit, FailInit, CleanInit, CountInit, EndInit, LeftInit, RestInit DEF RunInv
<1>2. RunInv /\ [Next]_vars => RunInv'
  <2> SUFFICES ASSUME RunInv, [Next]_vars PROVE RunInv'
    OBVIOUS
  <2>1. OneInv' /\ ConnsInv' /\ LoadInv' /\ FailInv' /\ CountInv'
    BY OneStep, ConnsStep, LoadStep, FailStep, CountStep DEF RunInv
  <2>2. CleanInv'
    BY CleanStep DEF RunInv
  <2>3. EndInv' /\ LeftInv'
    BY EndStep, LeftStep DEF RunInv
  <2>4. LoopTypes
    BY DEF RunInv, OneInv, LoopInv
  <2>5. RestTypes'
    BY <2>4, RestStep DEF RunInv
  <2> QED
    BY <2>1, <2>2, <2>3, <2>5 DEF RunInv
<1>3. RunInv => TypeOK
  BY RunTypes
<1> QED
  BY <1>1, <1>2, <1>3, PTL DEF Spec

-----------------------------------------------------------------------------
(* The instance of the runs made of the module's own constants, whatever   *)
(* they are.                                                               *)

LEMMA CyclesAreRuns == CyclesSpec => Spec /\ [](instance = "cycles")
<1>1. ASSUME instance = "cycles", [MCNext]_mcVars
      PROVE  (instance = "cycles")' /\ [Next]_vars
  <2>1. CASE MCNext
    BY <1>1, <2>1 DEF MCNext
  <2>2. CASE UNCHANGED mcVars
    BY <1>1, <2>2 DEF mcVars
  <2> QED
    BY <1>1, <2>1, <2>2
<1> QED
  BY <1>1, PTL DEF CyclesSpec, Spec

\* No gNB or UE is queued twice or attempted twice, and no card counts one twice, whatever
\* retries and hand-overs a Stop cuts through (ueRun's comment on nas and link).
THEOREM OnePlaceEachAlways == CyclesSpec => []OnePlaceEach
<1>1. instance = "cycles" /\ TypeOK /\ OnePlace /\ CountedOnce => OnePlaceEach
  BY DEF OnePlaceEach
<1> QED
  BY <1>1, CyclesAreRuns, RunsAreTyped, OnePlaceAlways, CountedOnceAlways, PTL

\* A stopped run leaves nothing behind (deregisterAll, closeConns and watchAssociation).
THEOREM NothingLeftAlways == CyclesSpec => []NothingLeft
<1>1. instance = "cycles" /\ CleanedUp /\ FailedAreListed /\ ConnsClosed => NothingLeft
  BY DEF NothingLeft
<1> QED
  BY <1>1, CyclesAreRuns, CleanedUpAlways, FailedAreListedAlways, ConnsClosedAlways, PTL

\* A stopped run owes nothing: each stage is Done and each UE has its last state
\* (skipUnfinished).
THEOREM AllDoneWhenStoppedAlways == CyclesSpec => []AllDoneWhenStopped
<1>1. instance = "cycles" /\ DoneWhenStopped => AllDoneWhenStopped
  BY DEF AllDoneWhenStopped
<1> QED
  BY <1>1, CyclesAreRuns, DoneWhenStoppedAlways, PTL

\* The control-plane test starts once every throughput UE has its final PDU outcome
\* (tpLeft and tpDone).
THEOREM CyclesAfterLoadAlways == CyclesSpec => []CyclesAfterLoad
<1>1. LoadBeforeCycles => CyclesAfterLoad
  BY DEF CyclesAfterLoad
<1> QED
  BY <1>1, CyclesAreRuns, LoadBeforeCyclesAlways, PTL

=============================================================================
