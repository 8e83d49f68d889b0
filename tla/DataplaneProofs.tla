-------------------------- MODULE DataplaneProofs --------------------------
(***************************************************************************)
(* Theorems about Dataplane, for any UEs, shards and readers.              *)
(***************************************************************************)
EXTENDS MCDataplane, SumTheorems, FiniteSetTheorems, TLAPS

\* A worker that is between its load and its compare-and-swap holds a packet newer than
\* what it loaded.
CasHolds ==
    \A r \in Readers :
        reader[r].pc = "cas" => /\ reader[r].pkt \in Packet
                                /\ reader[r].pkt.seq > reader[r].prev

\* The types the other invariants rest on: all but those of counters and samples.
Types == UeTypes /\ TrafficTypes /\ CasHolds

LEMMA InitTypes == Init => Types
<1> SUFFICES ASSUME Init PROVE Types
  OBVIOUS
<1>1. UeTypes
  BY DEF Init, UeTypes, ActivationSteps, Shards
<1>2. sender \in [Senders -> SenderState]
  BY DEF Init, SenderState
<1>3. reader \in [Readers -> ReaderState]
  <2>1. [pc |-> "read", batch |-> {}, pkt |-> None, prev |-> -1] \in ReaderState
    BY DEF ReaderState
  <2> QED  BY <2>1 DEF Init
<1>4. CasHolds
  BY DEF Init, CasHolds
<1>5. /\ [d \in Dirs |-> [u \in Ues |-> 0]] \in [Dirs -> [Ues -> Nat]]
      /\ [d \in Dirs |-> [u \in Ues |-> -1]] \in [Dirs -> [Ues -> Int]]
      /\ [d \in Dirs |-> [u \in Ues |-> {}]] \in [Dirs -> [Ues -> SUBSET Nat]]
  OBVIOUS
<1>6. TrafficTypes
  BY <1>2, <1>3, <1>5 DEF Init, TrafficTypes
<1> QED  BY <1>1, <1>4, <1>6 DEF Types

-----------------------------------------------------------------------------
(* A step keeps the types.                                                 *)

\* Writing a well-typed record of one worker.
LEMMA ShardWritten ==
  ASSUME UeTypes, NEW s \in Senders, NEW x \in Shards, shard' = [shard EXCEPT ![s] = x]
  PROVE  shard' \in [Senders -> Shards]
  BY DEF UeTypes

LEMMA SenderWritten ==
  ASSUME TrafficTypes, NEW s \in Senders, NEW x \in SenderState,
         sender' = [sender EXCEPT ![s] = x]
  PROVE  sender' \in [Senders -> SenderState]
  BY DEF TrafficTypes

LEMMA ReaderWritten ==
  ASSUME TrafficTypes, CasHolds, NEW r \in Readers, NEW x \in ReaderState,
         reader' = [reader EXCEPT ![r] = x],
         x.pc = "cas" => x.pkt \in Packet /\ x.pkt.seq > x.prev
  PROVE  reader' \in [Readers -> ReaderState] /\ CasHolds'
  BY DEF TrafficTypes, CasHolds

LEMMA LastWritten ==
  ASSUME TrafficTypes, NEW d \in Dirs, NEW u \in Ues, NEW q \in Int
  PROVE  [last EXCEPT ![d][u] = q] \in [Dirs -> [Ues -> Int]]
  BY DEF TrafficTypes

LEMMA SeenWritten ==
  ASSUME TrafficTypes, NEW d \in Dirs, NEW u \in Ues, NEW q \in Nat
  PROVE  [seen EXCEPT ![d][u] = @ \cup {q}] \in [Dirs -> [Ues -> SUBSET Nat]]
<1>1. [seen[d] EXCEPT ![u] = @ \cup {q}] \in [Ues -> SUBSET Nat]
  BY DEF TrafficTypes
<1> QED  BY <1>1 DEF TrafficTypes

\* A reader that tries again, is done with a packet, or drops it.
LEMMA TriesAgain ==
  ASSUME NEW x \in ReaderState, NEW l \in Int
  PROVE  LET y == [x EXCEPT !.prev = l]
         IN  y \in ReaderState /\ y.pkt = x.pkt /\ y.prev = l
  BY DEF ReaderState

LEMMA IsDone ==
  ASSUME NEW x \in ReaderState, NEW p
  PROVE  LET y == [x EXCEPT !.pc = "handle", !.pkt = None, !.prev = -1, !.batch = @ \ {p}]
         IN  y \in ReaderState /\ y.pc = "handle"
<1>1. x.batch \ {p} \in SUBSET Packet /\ -1 \in Int /\ None \in Packet \cup {None}
  BY DEF ReaderState
<1> QED  BY <1>1 DEF ReaderState

LEMMA Drops ==
  ASSUME NEW x \in ReaderState, NEW p
  PROVE  LET y == [x EXCEPT !.batch = @ \ {p}]
         IN  y \in ReaderState /\ y.pc = x.pc
<1>1. x.batch \ {p} \in SUBSET Packet
  BY DEF ReaderState
<1> QED  BY <1>1 DEF ReaderState

\* The steps of a UE leave the traffic alone.
LEMMA UeKeepsTypes ==
  ASSUME Types, NEW u \in Ues, AddUe(u) \/ Activates(u)
  PROVE  Types'
<1> USE DataplaneOK
<1>1. TrafficTypes' /\ CasHolds'
  BY DEF Types, TrafficTypes, CasHolds, trafficVars, AddUe, Activates, ActivateCheck,
         StoreFlow, ShardAdd, ShardBump
<1>2. activation' \in [Ues -> ActivationSteps]
  BY DEF Types, UeTypes, ActivationSteps, AddUe, Activates, ActivateCheck, StoreFlow,
         ShardAdd, ShardBump, AdvanceActivation, ActivationOrder
<1>3. flows' \in SUBSET Ues
  BY DEF Types, UeTypes, AddUe, Activates, ActivateCheck, StoreFlow, ShardAdd, ShardBump
<1>4. ASSUME NEW d \in Dirs, ShardAdd(u, d) PROVE shard' \in [Senders -> Shards]
  <2> DEFINE s == ShardOf(d)[u]
             x == [shard[s] EXCEPT !.flows = @ \cup {u}]
  <2>1. s \in Senders
    BY DEF ShardOf, Senders
  <2>2. x \in Shards
    BY <2>1 DEF Types, UeTypes, Shards
  <2>3. shard' = [shard EXCEPT ![s] = x]
    BY <1>4 DEF ShardAdd
  <2> QED  BY <2>1, <2>2, <2>3, ShardWritten DEF Types
<1>5. ASSUME NEW d \in Dirs, ShardBump(u, d) PROVE shard' \in [Senders -> Shards]
  <2> DEFINE s == ShardOf(d)[u]
             x == [shard[s] EXCEPT !.version = @ + 1]
  <2>1. s \in Senders
    BY DEF ShardOf, Senders
  <2>2. x \in Shards
    BY <2>1 DEF Types, UeTypes, Shards
  <2>3. shard' = [shard EXCEPT ![s] = x]
    BY <1>5 DEF ShardBump
  <2> QED  BY <2>1, <2>2, <2>3, ShardWritten DEF Types
<1>6. shard' = shard \/ \E d \in Dirs : ShardAdd(u, d) \/ ShardBump(u, d)
  BY DEF AddUe, Activates, ActivateCheck, StoreFlow
<1> QED  BY <1>1, <1>2, <1>3, <1>4, <1>5, <1>6 DEF Types, UeTypes

LEMMA SenderKeepsTypes ==
  ASSUME Types, NEW s \in Senders, SenderSteps(s) \/ SenderLeaves(s)
  PROVE  Types'
<1> USE DEF Types
<1>0. /\ sender[s] \in SenderState /\ shard[s] \in Shards
      /\ sender = [sender EXCEPT ![s] = sender[s]]
  BY DEF TrafficTypes, UeTypes
<1>1. UeTypes' /\ UNCHANGED <<reader, last, seen>> /\ CasHolds'
  BY DEF UeTypes, ueVars, CasHolds, SenderSteps, SenderLeaves, Tick, Load, SenderPublishes,
         Add, Flush
<1>2. CASE Tick(s) \/ Load(s) \/ SenderPublishes(s) \/ SenderLeaves(s)
  <2>1. UNCHANGED <<nextSeq, net>>
    BY <1>2 DEF Tick, Load, SenderPublishes, SenderLeaves
  <2>2. PICK x \in SenderState : sender' = [sender EXCEPT ![s] = x]
    <3>1. CASE Tick(s)
      <4>1. /\ [sender[s] EXCEPT !.pc = "load", !.version = shard[s].version] \in SenderState
            /\ [sender[s] EXCEPT !.pc = "fill"] \in SenderState
        BY <1>0 DEF SenderState, Shards
      <4> QED  BY <3>1, <4>1 DEF Tick
    <3>2. CASE Load(s)
      <4>1. [sender[s] EXCEPT !.pc = "fill", !.flows = shard[s].flows] \in SenderState
        BY <1>0 DEF SenderState, Shards
      <4> QED  BY <3>2, <4>1 DEF Load
    <3>3. CASE SenderPublishes(s)
      <4>1. PICK pc \in {"fill", "tick"} :
                sender' = [sender EXCEPT ![s].pc = pc, ![s].batch = {}]
        BY <3>3 DEF SenderPublishes
      <4>2. [sender[s] EXCEPT !.pc = pc, !.batch = {}] \in SenderState
        BY <1>0 DEF SenderState
      <4> QED  BY <4>1, <4>2
    <3>4. CASE SenderLeaves(s)
      <4>1. [sender[s] EXCEPT !.pc = "gone"] \in SenderState
        BY <1>0 DEF SenderState
      <4> QED  BY <3>4, <4>1 DEF SenderLeaves
    <3> QED  BY <1>2, <3>1, <3>2, <3>3, <3>4
  <2> QED  BY <1>1, <2>1, <2>2, SenderWritten DEF TrafficTypes
<1>3. ASSUME NEW u \in Ues, Add(s, u) PROVE Types'
  <2> DEFINE p == [dir |-> DirOf(s), ue |-> u, seq |-> nextSeq[DirOf(s)][u]]
             x == [sender[s] EXCEPT !.batch = @ \cup {p}]
  <2>1. DirOf(s) \in Dirs
    BY DEF DirOf, Dirs
  <2>2. p \in Packet
    BY <2>1 DEF Packet, TrafficTypes
  <2>3. x \in SenderState
    BY <1>0, <2>2 DEF SenderState
  <2>4. sender' = [sender EXCEPT ![s] = x]
    BY <1>3 DEF Add
  <2>5. sender' \in [Senders -> SenderState]
    BY <2>3, <2>4, SenderWritten
  <2>6. nextSeq' \in [Dirs -> [Ues -> Nat]] /\ UNCHANGED net
    BY <1>3, <2>1 DEF Add, TrafficTypes
  <2> QED  BY <1>1, <2>5, <2>6 DEF TrafficTypes
<1>4. ASSUME NEW sent \in SUBSET sender[s].batch, Flush(s, sent) PROVE Types'
  <2> DEFINE pc == IF sender[s].batch = {} THEN "tick" ELSE "publish"
             x == [sender[s] EXCEPT !.pc = pc]
  <2>1. x \in SenderState /\ sent \in SUBSET Packet
    BY <1>0 DEF SenderState
  <2>2. sender' = [sender EXCEPT ![s] = x]
    BY <1>4 DEF Flush
  <2>3. net' \in SUBSET Packet /\ UNCHANGED nextSeq
    BY <1>4, <2>1 DEF Flush, TrafficTypes
  <2> QED  BY <1>1, <2>1, <2>2, <2>3, SenderWritten DEF TrafficTypes
<1> QED  BY <1>2, <1>3, <1>4 DEF SenderSteps

LEMMA ReaderKeepsTypes ==
  ASSUME Types, NEW r \in Readers, ReaderSteps(r) \/ Reads(r)
  PROVE  Types'
<1> USE DEF Types
<1>0. /\ reader[r] \in ReaderState
      /\ reader = [reader EXCEPT ![r] = reader[r]]
      /\ reader[r].pc = "cas" => reader[r].pkt \in Packet /\ reader[r].pkt.seq > reader[r].prev
      /\ reader[r].batch \in SUBSET Packet
  BY DEF TrafficTypes, ReaderState, CasHolds
<1>1. UeTypes' /\ UNCHANGED <<sender, nextSeq>>
  BY DEF UeTypes, ueVars, ReaderSteps, Reads, Read, ReaderLeaves, ReaderPublishes,
         CompareAndSwap, Receive
<1>2. CASE Reads(r) \/ ReaderLeaves(r) \/ ReaderPublishes(r)
  <2>1. UNCHANGED <<last, seen>> /\ net' \in SUBSET Packet
    BY <1>2 DEF Reads, Read, ReaderLeaves, ReaderPublishes, TrafficTypes
  <2>2. PICK x \in ReaderState : reader' = [reader EXCEPT ![r] = x] /\ x.pc # "cas"
    <3>1. CASE Reads(r)
      <4>1. PICK batch \in SUBSET net : Read(r, batch)
        BY <3>1 DEF Reads
      <4> DEFINE x == [reader[r] EXCEPT !.pc = "handle", !.batch = batch]
      <4>2. batch \in SUBSET Packet
        BY <4>1 DEF TrafficTypes
      <4>3. x \in ReaderState /\ x.pc = "handle"
        BY <1>0, <4>2 DEF ReaderState
      <4>4. reader' = [reader EXCEPT ![r] = x]
        BY <4>1 DEF Read
      <4> QED  BY <4>3, <4>4
    <3>2. CASE ReaderLeaves(r)
      <4>1. [reader[r] EXCEPT !.pc = "gone"] \in ReaderState
        BY <1>0 DEF ReaderState
      <4> QED  BY <3>2, <4>1, <1>0 DEF ReaderLeaves, ReaderState
    <3>3. CASE ReaderPublishes(r)
      <4>1. [reader[r] EXCEPT !.pc = "read"] \in ReaderState
        BY <1>0 DEF ReaderState
      <4> QED  BY <3>3, <4>1, <1>0 DEF ReaderPublishes, ReaderState
    <3> QED  BY <1>2, <3>1, <3>2, <3>3
  <2> QED  BY <1>1, <2>1, <2>2, ReaderWritten DEF TrafficTypes
<1>3. CASE CompareAndSwap(r)
  <2> DEFINE p == reader[r].pkt
             rest == [reader[r] EXCEPT !.pc = "handle", !.pkt = None, !.prev = -1,
                                       !.batch = @ \ {p}]
             again == [reader[r] EXCEPT !.prev = last[p.dir][p.ue]]
  <2>1. p \in Packet /\ p.dir \in Dirs /\ p.ue \in Ues /\ p.seq \in Nat
    BY <1>0, <1>3 DEF CompareAndSwap, Packet
  <2>2. rest \in ReaderState /\ rest.pc # "cas"
    BY <1>0, IsDone
  <2>3. /\ again \in ReaderState
        /\ again.pkt = p /\ again.prev = last[p.dir][p.ue]
    <3>1. last[p.dir][p.ue] \in Int
      BY <2>1 DEF TrafficTypes
    <3> QED  BY <1>0, <3>1, TriesAgain
  <2>4. \/ reader' = [reader EXCEPT ![r] = rest]
        \/ reader' = [reader EXCEPT ![r] = again] /\ p.seq > last[p.dir][p.ue]
    BY <1>3 DEF CompareAndSwap
  <2>5. reader' \in [Readers -> ReaderState] /\ CasHolds'
    <3>1. CASE reader' = [reader EXCEPT ![r] = rest]
      BY <2>2, <3>1, ReaderWritten
    <3>2. CASE reader' = [reader EXCEPT ![r] = again] /\ p.seq > last[p.dir][p.ue]
      BY <2>1, <2>3, <3>2, ReaderWritten
    <3> QED  BY <2>4, <3>1, <3>2
  <2>6. last' \in [Dirs -> [Ues -> Int]] /\ UNCHANGED net
    <3>1. [last EXCEPT ![p.dir][p.ue] = p.seq] \in [Dirs -> [Ues -> Int]]
      BY <2>1, LastWritten
    <3> QED  BY <1>3, <3>1 DEF CompareAndSwap, TrafficTypes
  <2>7. seen' \in [Dirs -> [Ues -> SUBSET Nat]]
    <3>1. [seen EXCEPT ![p.dir][p.ue] = @ \cup {p.seq}] \in [Dirs -> [Ues -> SUBSET Nat]]
      BY <2>1, SeenWritten
    <3> QED  BY <1>3, <3>1 DEF CompareAndSwap, Handled, TrafficTypes
  <2> QED  BY <1>1, <2>5, <2>6, <2>7 DEF TrafficTypes
<1>4. ASSUME NEW p \in reader[r].batch, Receive(r, p) PROVE Types'
  <2> DEFINE drop == [reader[r] EXCEPT !.batch = @ \ {p}]
             cas  == [reader[r] EXCEPT !.pc = "cas", !.pkt = p, !.prev = last[p.dir][p.ue]]
  <2>1. p \in Packet /\ p.dir \in Dirs /\ p.ue \in Ues /\ p.seq \in Nat
    BY <1>0 DEF Packet
  <2>2. drop \in ReaderState /\ drop.pc = reader[r].pc
    BY <1>0, Drops
  <2>3. cas \in ReaderState /\ cas.pkt = p /\ cas.prev = last[p.dir][p.ue]
    <3>1. last[p.dir][p.ue] \in Int
      BY <2>1 DEF TrafficTypes
    <3>2. reader[r] \in ReaderState /\ p \in Packet
      BY <1>0, <2>1
    <3> QED  BY <3>1, <3>2 DEF ReaderState
  <2>4. \/ reader' = [reader EXCEPT ![r] = drop]
        \/ reader' = [reader EXCEPT ![r] = cas] /\ p.seq > last[p.dir][p.ue]
    BY <1>4 DEF Receive, Unknown, Misrouted, Late, Newer
  <2>5. reader[r].pc = "handle"
    BY <1>4 DEF Receive
  <2>6. reader' \in [Readers -> ReaderState] /\ CasHolds'
    <3>1. CASE reader' = [reader EXCEPT ![r] = drop]
      BY <2>2, <2>5, <3>1, ReaderWritten
    <3>2. CASE reader' = [reader EXCEPT ![r] = cas] /\ p.seq > last[p.dir][p.ue]
      BY <2>1, <2>3, <3>2, ReaderWritten
    <3> QED  BY <2>4, <3>1, <3>2
  <2>7. seen' \in [Dirs -> [Ues -> SUBSET Nat]] /\ UNCHANGED <<last, net>>
    <3>1. [seen EXCEPT ![p.dir][p.ue] = @ \cup {p.seq}] \in [Dirs -> [Ues -> SUBSET Nat]]
      BY <2>1, SeenWritten
    <3> QED  BY <1>4, <3>1 DEF Receive, Unknown, Misrouted, Late, Newer, Handled, TrafficTypes
  <2> QED  BY <1>1, <2>6, <2>7 DEF TrafficTypes
<1> QED  BY <1>2, <1>3, <1>4 DEF ReaderSteps

\* Stop and the sampler leave UEs and traffic alone.
LEMMA OthersKeepTraffic ==
  ASSUME SamplerSteps \/ SamplerTicks \/ StopBegins \/ StopSteps \/ UNCHANGED vars
  PROVE  UNCHANGED <<ueVars, trafficVars>>
  BY DEF SamplerSteps, SamplerStarts, SamplerTicks, SamplerCommits, SamplerLeaves, TakeRead,
         TakeCommit, StopBegins, StopSteps, StopCancels, SendersGone, CloseSockets,
         ReadersGone, SamplerGone, StopReads, StopCommits, vars

\* The types of what activate, the workers, the sampler and Stop keep; a reader at its
\* compare-and-swap holds a packet newer than the number it loaded.
THEOREM TypesAlways == Spec => []Types
<1>1. Types /\ [Next]_vars => Types'
  <2> SUFFICES ASSUME Types, [Next]_vars PROVE Types'
    OBVIOUS
  <2>1. CASE UNCHANGED <<ueVars, trafficVars>>
    BY <2>1 DEF Types, UeTypes, TrafficTypes, CasHolds, ueVars, trafficVars
  <2> QED  BY <2>1, UeKeepsTypes, SenderKeepsTypes, ReaderKeepsTypes, OthersKeepTraffic DEF Next
<1> QED  BY InitTypes, <1>1, PTL DEF Spec

-----------------------------------------------------------------------------
(* The compare-and-swap loop.                                              *)

\* A packet of flow (d, u) with number q has been handled, and last is now l.
LEMMA OneHandled ==
  ASSUME TrafficTypes, NewestSeen, NEW d \in Dirs, NEW u \in Ues, NEW q \in Nat,
         seen' = [seen EXCEPT ![d][u] = @ \cup {q}],
         \/ last' = last /\ q <= last[d][u]
         \/ last' = [last EXCEPT ![d][u] = q] /\ q > last[d][u]
  PROVE  NewestSeen'
<1> SUFFICES ASSUME NEW e \in Dirs, NEW v \in Ues
             PROVE  /\ \A n \in seen'[e][v] : n <= last'[e][v]
                    /\ last'[e][v] = -1 \/ last'[e][v] \in seen'[e][v]
  BY DEF NewestSeen
<1>1. /\ \A n \in seen[e][v] : n <= last[e][v]
      /\ last[e][v] = -1 \/ last[e][v] \in seen[e][v]
      /\ last[e][v] \in Int /\ seen[e][v] \in SUBSET Nat
  BY DEF NewestSeen, TrafficTypes
<1>2. CASE e = d /\ v = u
  <2>1. seen'[e][v] = seen[e][v] \cup {q}
    BY <1>2 DEF TrafficTypes
  <2>2. \/ last'[e][v] = last[e][v] /\ q <= last[e][v]
        \/ last'[e][v] = q /\ q > last[e][v]
    BY <1>2 DEF TrafficTypes
  <2> QED  BY <1>1, <2>1, <2>2
<1>3. CASE ~(e = d /\ v = u)
  <2>1. seen'[e][v] = seen[e][v] /\ last'[e][v] = last[e][v]
    BY <1>3 DEF TrafficTypes
  <2> QED  BY <1>1, <2>1
<1> QED  BY <1>2, <1>3

\* However many readers handle packets of one flow at once, the last sequence number of
\* the flow is the newest of those handled: the loop in receive never lets it go back.
THEOREM NewestSeenAlways == Spec => []NewestSeen
<1>1. Init => NewestSeen
  BY DEF Init, NewestSeen
<1>2. Types /\ NewestSeen /\ [Next]_vars => NewestSeen'
  <2> SUFFICES ASSUME Types, NewestSeen, [Next]_vars PROVE NewestSeen'
    OBVIOUS
  <2> USE DEF Types
  <2>1. CASE UNCHANGED <<last, seen>>
    BY <2>1 DEF NewestSeen
  <2>2. ASSUME NEW r \in Readers, CompareAndSwap(r) PROVE NewestSeen'
    <3> DEFINE p == reader[r].pkt
    <3>1. /\ p.dir \in Dirs /\ p.ue \in Ues /\ p.seq \in Nat
          /\ p.seq > reader[r].prev
      BY <2>2 DEF CompareAndSwap, CasHolds, Packet
    <3>2. \/ UNCHANGED <<last, seen>>
          \/ /\ seen' = [seen EXCEPT ![p.dir][p.ue] = @ \cup {p.seq}]
             /\ \/ last' = last /\ p.seq <= last[p.dir][p.ue]
                \/ last' = [last EXCEPT ![p.dir][p.ue] = p.seq] /\ p.seq > last[p.dir][p.ue]
      BY <2>2, <3>1 DEF CompareAndSwap, Handled
    <3> HIDE DEF p
    <3> QED  BY <2>1, <3>1, <3>2, OneHandled
  <2>3. ASSUME NEW r \in Readers, NEW p \in reader[r].batch, Receive(r, p)
        PROVE  NewestSeen'
    <3>1. p.dir \in Dirs /\ p.ue \in Ues /\ p.seq \in Nat
      BY DEF TrafficTypes, ReaderState, Packet
    <3>2. \/ UNCHANGED <<last, seen>>
          \/ /\ seen' = [seen EXCEPT ![p.dir][p.ue] = @ \cup {p.seq}]
             /\ last' = last /\ p.seq <= last[p.dir][p.ue]
      BY <2>3 DEF Receive, Unknown, Misrouted, Late, Newer, Handled
    <3> QED  BY <2>1, <3>1, <3>2, OneHandled
  <2>4. ASSUME NEW u \in Ues, AddUe(u) \/ Activates(u) PROVE UNCHANGED <<last, seen>>
    BY <2>4 DEF AddUe, Activates, ActivateCheck, StoreFlow, ShardAdd, ShardBump, trafficVars
  <2>5. ASSUME NEW s \in Senders, SenderSteps(s) \/ SenderLeaves(s)
        PROVE  UNCHANGED <<last, seen>>
    BY <2>5 DEF SenderSteps, SenderLeaves, Tick, Load, SenderPublishes, Add, Flush
  <2>6. ASSUME NEW r \in Readers, Reads(r) \/ ReaderLeaves(r) \/ ReaderPublishes(r)
        PROVE  UNCHANGED <<last, seen>>
    BY <2>6 DEF Reads, Read, ReaderLeaves, ReaderPublishes
  <2>7. CASE UNCHANGED <<ueVars, trafficVars>>
    BY <2>1, <2>7 DEF trafficVars
  <2> QED  BY <2>1, <2>2, <2>3, <2>4, <2>5, <2>6, <2>7, OthersKeepTraffic
           DEF Next, ReaderSteps
<1> QED  BY <1>1, <1>2, TypesAlways, PTL DEF Spec

-----------------------------------------------------------------------------
(* A flow is stored before anybody can use it, and loaded before its       *)
(* version is taken for known.                                             *)

\* Everything that can make or send a packet of a UE comes after StoreFlow.
FlowsStored ==
    /\ \A u \in Ues : activation[u] \in {"ulAdd", "ulBump", "dlAdd", "dlBump", "active"}
                          => u \in flows
    /\ \A s \in Senders : /\ shard[s].flows \subseteq flows
                          /\ sender[s].flows \subseteq flows
                          /\ \A p \in sender[s].batch : p.ue \in flows
    /\ OwnPacketsKnown

LEMMA InitFlowsStored == Init => FlowsStored
  BY DEF Init, FlowsStored, OwnPacketsKnown

LEMMA UeKeepsFlowsStored ==
  ASSUME Types, FlowsStored, NEW u \in Ues, AddUe(u) \/ Activates(u)
  PROVE  FlowsStored'
<1> USE DataplaneOK DEF Types
<1>1. flows \subseteq flows' /\ UNCHANGED <<net, sender, reader>>
  BY DEF AddUe, Activates, ActivateCheck, StoreFlow, ShardAdd, ShardBump, trafficVars
<1>2. OwnPacketsKnown'
  BY <1>1 DEF FlowsStored, OwnPacketsKnown
<1>3. \A v \in Ues : activation'[v] \in {"ulAdd", "ulBump", "dlAdd", "dlBump", "active"}
                         => v \in flows'
  BY <1>1 DEF FlowsStored, UeTypes, AddUe, Activates, ActivateCheck, StoreFlow, ShardAdd,
              ShardBump, AdvanceActivation, ActivationOrder
<1>4. \A s \in Senders : shard'[s].flows \subseteq flows'
  <2>1. CASE UNCHANGED shard
    BY <1>1, <2>1 DEF FlowsStored
  <2>2. ASSUME NEW d \in Dirs, ShardAdd(u, d), NEW s \in Senders
        PROVE  shard'[s].flows \subseteq flows'
    <3>1. u \in flows
      BY <2>2 DEF FlowsStored, ShardAdd, AdvanceActivation
    <3>2. shard'[s].flows \subseteq shard[s].flows \cup {u}
      BY <2>2 DEF ShardAdd, UeTypes, Shards
    <3> QED  BY <1>1, <3>1, <3>2 DEF FlowsStored
  <2>3. ASSUME NEW d \in Dirs, ShardBump(u, d), NEW s \in Senders
        PROVE  shard'[s].flows \subseteq flows'
    <3>1. shard'[s].flows = shard[s].flows
      BY <2>3 DEF ShardBump, UeTypes, Shards
    <3> QED  BY <1>1, <3>1 DEF FlowsStored
  <2> QED  BY <2>1, <2>2, <2>3 DEF AddUe, Activates, ActivateCheck, StoreFlow
<1> QED  BY <1>1, <1>2, <1>3, <1>4 DEF FlowsStored

LEMMA SenderKeepsFlowsStored ==
  ASSUME Types, FlowsStored, NEW s \in Senders, SenderSteps(s) \/ SenderLeaves(s)
  PROVE  FlowsStored'
<1> USE DEF Types
<1>1. UNCHANGED <<activation, flows, shard, reader>>
  BY DEF ueVars, SenderSteps, SenderLeaves, Tick, Load, SenderPublishes, Add, Flush
<1>2. sender[s] \in SenderState /\ shard[s].flows \subseteq flows
  BY DEF TrafficTypes, FlowsStored
<1>3. /\ sender'[s].flows \subseteq flows
      /\ \A p \in sender'[s].batch : p.ue \in flows
      /\ \A t \in Senders : t # s => sender'[t] = sender[t]
      /\ \A p \in net' : p.ue \in flows
  <2>1. CASE Tick(s) \/ Load(s) \/ SenderPublishes(s) \/ SenderLeaves(s)
    <3>1. \/ sender'[s].flows = sender[s].flows
          \/ sender'[s].flows = shard[s].flows
      BY <2>1 DEF TrafficTypes, SenderState, Tick, Load, SenderPublishes, SenderLeaves
    <3>2. sender'[s].batch \subseteq sender[s].batch
      BY <2>1 DEF TrafficTypes, SenderState, Tick, Load, SenderPublishes, SenderLeaves
    <3>3. /\ \A t \in Senders : t # s => sender'[t] = sender[t]
          /\ UNCHANGED net
      BY <2>1 DEF TrafficTypes, Tick, Load, SenderPublishes, SenderLeaves
    <3> QED  BY <1>2, <3>1, <3>2, <3>3 DEF FlowsStored, OwnPacketsKnown
  <2>2. ASSUME NEW u \in Ues, Add(s, u) PROVE <1>3
    <3>1. u \in flows
      BY <2>2 DEF Add, FlowsStored
    <3> DEFINE p == [dir |-> DirOf(s), ue |-> u, seq |-> nextSeq[DirOf(s)][u]]
    <3>2. p.ue = u
      OBVIOUS
    <3>3. sender' = [sender EXCEPT ![s].batch = @ \cup {p}] /\ UNCHANGED net
      BY <2>2 DEF Add
    <3> HIDE DEF p
    <3> QED  BY <1>2, <3>1, <3>2, <3>3 DEF FlowsStored, OwnPacketsKnown, TrafficTypes, SenderState
  <2>3. ASSUME NEW sent \in SUBSET sender[s].batch, Flush(s, sent) PROVE <1>3
    BY <1>2, <2>3 DEF Flush, FlowsStored, OwnPacketsKnown, TrafficTypes, SenderState
  <2> QED  BY <2>1, <2>2, <2>3 DEF SenderSteps
<1> QED  BY <1>1, <1>3 DEF FlowsStored, OwnPacketsKnown

LEMMA ReaderKeepsFlowsStored ==
  ASSUME Types, FlowsStored, NEW r \in Readers, ReaderSteps(r) \/ Reads(r)
  PROVE  FlowsStored'
<1> USE DEF Types
<1>1. UNCHANGED <<activation, flows, shard, sender>>
  BY DEF ueVars, ReaderSteps, Reads, Read, ReaderLeaves, ReaderPublishes, CompareAndSwap, Receive
<1>2. /\ net' \subseteq net
      /\ \A t \in Readers : reader'[t].batch \subseteq reader[t].batch \cup net
  <2>1. reader[r] \in ReaderState
    BY DEF TrafficTypes
  <2>2. /\ net' \subseteq net
        /\ \A t \in Readers : t # r => reader'[t] = reader[t]
    BY DEF TrafficTypes, ReaderSteps, Reads, Read, ReaderLeaves, ReaderPublishes,
           CompareAndSwap, Receive, Unknown, Misrouted, Late, Newer
  <2>3. reader'[r].batch \subseteq reader[r].batch \cup net
    <3>1. CASE ReaderLeaves(r) \/ ReaderPublishes(r)
      <4>1. reader'[r].batch = reader[r].batch
        BY <2>1, <3>1 DEF ReaderLeaves, ReaderPublishes, TrafficTypes, ReaderState
      <4> QED  BY <4>1
    <3>2. CASE CompareAndSwap(r)
      <4>1. \/ reader'[r].batch = reader[r].batch
            \/ reader'[r].batch = reader[r].batch \ {reader[r].pkt}
        BY <2>1, <3>2 DEF CompareAndSwap, TrafficTypes, ReaderState
      <4> QED  BY <4>1
    <3>3. ASSUME NEW p \in reader[r].batch, Receive(r, p)
          PROVE  reader'[r].batch \subseteq reader[r].batch \cup net
      <4>1. \/ reader'[r].batch = reader[r].batch
            \/ reader'[r].batch = reader[r].batch \ {p}
        BY <2>1, <3>3 DEF Receive, Unknown, Misrouted, Late, Newer, TrafficTypes, ReaderState
      <4> QED  BY <4>1
    <3>4. CASE Reads(r)
      <4>1. PICK batch \in SUBSET net : Read(r, batch)
        BY <3>4 DEF Reads
      <4>2. reader'[r].batch = batch
        BY <2>1, <4>1 DEF Read, TrafficTypes, ReaderState
      <4> QED  BY <4>2
    <3> QED  BY <3>1, <3>2, <3>3, <3>4 DEF ReaderSteps
  <2> QED  BY <2>2, <2>3
<1>3. OwnPacketsKnown'
  BY <1>1, <1>2 DEF FlowsStored, OwnPacketsKnown
<1> QED  BY <1>1, <1>3 DEF FlowsStored

\* Whatever carries a flow's number, from its shard to the network, carries one that
\* activate has stored (activate, socket.go).
THEOREM FlowsStoredAlways == Spec => []FlowsStored
<1>1. Types /\ FlowsStored /\ [Next]_vars => FlowsStored'
  <2> SUFFICES ASSUME Types, FlowsStored, [Next]_vars PROVE FlowsStored'
    OBVIOUS
  <2>1. CASE UNCHANGED <<ueVars, trafficVars>>
    BY <2>1 DEF FlowsStored, OwnPacketsKnown, ueVars, trafficVars
  <2> QED  BY <2>1, UeKeepsFlowsStored, SenderKeepsFlowsStored, ReaderKeepsFlowsStored,
              OthersKeepTraffic DEF Next
<1> QED  BY InitFlowsStored, <1>1, TypesAlways, PTL DEF Spec

\* A packet that comes back is of a flow its reader finds: activate stores the flow before
\* any sender can have it, and nothing else makes packets.
THEOREM OwnPacketsKnownAlways == Spec => []OwnPacketsKnown
<1>1. FlowsStored => OwnPacketsKnown
  BY DEF FlowsStored
<1> QED  BY <1>1, FlowsStoredAlways, PTL

\* What NoFlowBehind rests on: a version is never ahead of the list it stands for.
Added(d) == {u \in Ues : activation[u] \in
                IF d = "ul" THEN {"ulBump", "dlAdd", "dlBump", "active"}
                            ELSE {"dlBump", "active"}}

VersionsBehind ==
    /\ \A s \in Senders : sender[s].version <= shard[s].version
    /\ \A d \in Dirs : \A u \in Added(d) : u \in shard[ShardOf(d)[u]].flows
    /\ NoFlowBehind

LEMMA InitVersionsBehind == Init => VersionsBehind
  BY DEF Init, VersionsBehind, NoFlowBehind, Added, Bumped

LEMMA UeKeepsVersionsBehind ==
  ASSUME Types, VersionsBehind, NEW u \in Ues, AddUe(u) \/ Activates(u)
  PROVE  VersionsBehind'
<1> USE DataplaneOK DEF Types
<1>0. /\ UNCHANGED sender
      /\ \A e \in Dirs, v \in Ues : ShardOf(e)[v] \in Senders
      /\ \A s \in Senders : sender[s].version \in Nat /\ shard[s].version \in Nat
  BY DEF AddUe, Activates, ActivateCheck, StoreFlow, ShardAdd, ShardBump, trafficVars,
         ShardOf, Senders, TrafficTypes, UeTypes, SenderState, Shards
<1>1. CASE AddUe(u) \/ ActivateCheck(u) \/ StoreFlow(u)
  <2>1. UNCHANGED shard
    BY <1>1 DEF AddUe, ActivateCheck, StoreFlow
  <2>2. \A e \in Dirs : Added(e)' = Added(e) /\ Bumped(e)' = Bumped(e)
    BY <1>1 DEF Added, Bumped, UeTypes, AddUe, ActivateCheck, StoreFlow, AdvanceActivation,
                ActivationOrder
  <2> QED  BY <1>0, <2>1, <2>2 DEF VersionsBehind, NoFlowBehind, ShardOf
<1>2. ASSUME NEW d \in Dirs, ShardAdd(u, d) PROVE VersionsBehind'
  <2> DEFINE h == ShardOf(d)[u]
  <2>1. /\ \A s \in Senders : /\ shard'[s].version = shard[s].version
                              /\ shard[s].flows \subseteq shard'[s].flows
        /\ u \in shard'[h].flows
    BY <1>0, <1>2 DEF ShardAdd, UeTypes, Shards
  <2>2. \A e \in Dirs : Bumped(e)' = Bumped(e)
    BY <1>2 DEF Bumped, UeTypes, ShardAdd, AdvanceActivation, ActivationOrder, Dirs
  <2>3. \A e \in Dirs : \A v \in Added(e)' : v \in Added(e) \/ (v = u /\ e = d)
    BY <1>2 DEF Added, UeTypes, ShardAdd, AdvanceActivation, ActivationOrder, Dirs
  <2>4. \A e \in Dirs : \A v \in Added(e)' : v \in shard'[ShardOf(e)[v]].flows
    BY <1>0, <2>1, <2>3 DEF VersionsBehind, Added
  <2> QED  BY <1>0, <2>1, <2>2, <2>4 DEF VersionsBehind, NoFlowBehind, Bumped, ShardOf
<1>3. ASSUME NEW d \in Dirs, ShardBump(u, d) PROVE VersionsBehind'
  <2> DEFINE h == ShardOf(d)[u]
  <2>1. /\ \A s \in Senders : shard'[s].flows = shard[s].flows
        /\ \A s \in Senders : s # h => shard'[s].version = shard[s].version
        /\ shard'[h].version = shard[h].version + 1
    BY <1>0, <1>3 DEF ShardBump, UeTypes, Shards
  <2>2. \A e \in Dirs : Added(e)' = Added(e)
    BY <1>3 DEF Added, UeTypes, ShardBump, AdvanceActivation, ActivationOrder, Dirs
  <2>3. \A e \in Dirs : \A v \in Bumped(e)' : v \in Bumped(e) \/ ShardOf(e)[v] = h
    BY <1>3 DEF Bumped, UeTypes, ShardBump, AdvanceActivation, ActivationOrder, Dirs
  <2>4. sender[h].version < shard'[h].version
    BY <1>0, <2>1 DEF VersionsBehind
  <2>5. NoFlowBehind'
    <3> SUFFICES ASSUME NEW e \in Dirs, NEW v \in Bumped(e)',
                        sender[ShardOf(e)[v]].pc # "load",
                        sender[ShardOf(e)[v]].version = shard'[ShardOf(e)[v]].version
                 PROVE  v \in sender[ShardOf(e)[v]].flows
      BY <1>0 DEF NoFlowBehind, ShardOf
    <3>1. ShardOf(e)[v] # h
      BY <1>0, <2>4
    <3>2. v \in Bumped(e) /\ ShardOf(e)[v] \in Senders
      BY <1>0, <2>3, <3>1 DEF Bumped
    <3> QED  BY <2>1, <3>1, <3>2 DEF VersionsBehind, NoFlowBehind
  <2> QED  BY <1>0, <2>1, <2>2, <2>4, <2>5 DEF VersionsBehind, Added, ShardOf
<1> QED  BY <1>1, <1>2, <1>3 DEF Activates

LEMMA SenderKeepsVersionsBehind ==
  ASSUME Types, VersionsBehind, NEW s \in Senders, SenderSteps(s) \/ SenderLeaves(s)
  PROVE  VersionsBehind'
<1> USE DEF Types
<1>1. /\ UNCHANGED <<activation, shard>>
      /\ \A t \in Senders : t # s => sender'[t] = sender[t]
  BY DEF ueVars, SenderSteps, SenderLeaves, Tick, Load, SenderPublishes, Add, Flush, TrafficTypes
<1>2. sender[s] \in SenderState /\ shard[s] \in Shards
  BY DEF TrafficTypes, UeTypes
<1>3. \/ sender'[s].version = shard[s].version /\ sender'[s].pc = "load"
      \/ /\ sender'[s].version = sender[s].version
         /\ \/ sender'[s].flows = shard[s].flows
            \/ sender'[s].flows = sender[s].flows /\ sender[s].pc # "load"
  <2> USE DEF TrafficTypes, SenderState, Shards
  <2>1. CASE Tick(s)
    BY <1>2, <2>1 DEF Tick
  <2>2. CASE Load(s)
    BY <1>2, <2>2 DEF Load
  <2>3. CASE SenderPublishes(s) \/ SenderLeaves(s)
    BY <1>2, <2>3 DEF SenderPublishes, SenderLeaves
  <2>4. ASSUME NEW u \in Ues, Add(s, u) PROVE <1>3
    BY <1>2, <2>4 DEF Add
  <2>5. ASSUME NEW sent \in SUBSET sender[s].batch, Flush(s, sent) PROVE <1>3
    BY <1>2, <2>5 DEF Flush
  <2> QED  BY <2>1, <2>2, <2>3, <2>4, <2>5 DEF SenderSteps
<1>4. \A d \in Dirs : /\ Added(d)' = Added(d) /\ Bumped(d)' = Bumped(d)
                      /\ Bumped(d) \subseteq Added(d) /\ Added(d) \subseteq Ues
  BY <1>1 DEF Added, Bumped
<1>5. sender'[s].version <= shard[s].version
  BY <1>2, <1>3 DEF VersionsBehind, Shards
<1>6. \A d \in Dirs : \A u \in Bumped(d) :
          LET t == ShardOf(d)[u]
          IN  sender'[t].pc # "load" /\ sender'[t].version = shard[t].version
                  => u \in sender'[t].flows
  <2> TAKE d \in Dirs
  <2> TAKE u \in Bumped(d)
  <2> DEFINE t == ShardOf(d)[u]
  <2>1. t \in Senders
    BY <1>4, DataplaneOK DEF ShardOf, Senders
  <2>2. u \in shard[t].flows
    BY <1>4 DEF VersionsBehind
  <2>3. sender[t].pc # "load" /\ sender[t].version = shard[t].version => u \in sender[t].flows
    BY DEF VersionsBehind, NoFlowBehind
  <2> HIDE DEF t
  <2>4. ASSUME t = s, sender'[s].pc # "load", sender'[s].version = shard[s].version
        PROVE  u \in sender'[s].flows
    BY <1>3, <2>2, <2>3, <2>4
  <2>5. ASSUME t # s PROVE sender'[t] = sender[t]
    BY <1>1, <2>1, <2>5
  <2>6. sender'[t].pc # "load" /\ sender'[t].version = shard[t].version
            => u \in sender'[t].flows
    BY <2>3, <2>4, <2>5
  <2> QED  BY <2>6 DEF t
<1>7. NoFlowBehind'
  BY <1>1, <1>4, <1>6 DEF NoFlowBehind, ShardOf
<1> QED  BY <1>1, <1>4, <1>5, <1>7 DEF VersionsBehind, ShardOf

\* No sender is ahead of its shard's version, and a flow is in the list before the version
\* counts it (shard.add and pace).
THEOREM VersionsBehindAlways == Spec => []VersionsBehind
<1>1. Types /\ VersionsBehind /\ [Next]_vars => VersionsBehind'
  <2> SUFFICES ASSUME Types, VersionsBehind, [Next]_vars PROVE VersionsBehind'
    OBVIOUS
  <2>1. CASE UNCHANGED <<ueVars, sender>>
    BY <2>1 DEF VersionsBehind, NoFlowBehind, Added, Bumped, ShardOf, ueVars
  <2>2. ASSUME NEW r \in Readers, ReaderSteps(r) \/ Reads(r) PROVE UNCHANGED <<ueVars, sender>>
    BY <2>2 DEF ReaderSteps, Reads, Read, ReaderLeaves, ReaderPublishes, CompareAndSwap, Receive
  <2>3. CASE UNCHANGED <<ueVars, trafficVars>>
    BY <2>1, <2>3 DEF trafficVars
  <2> QED  BY <2>1, <2>2, <2>3, UeKeepsVersionsBehind, SenderKeepsVersionsBehind,
              OthersKeepTraffic DEF Next
<1> QED  BY InitVersionsBehind, <1>1, TypesAlways, PTL DEF Spec

\* However activate and pace interleave, a sender that holds its shard's version holds every
\* flow added up to it: no UE is left without traffic.
THEOREM NoFlowBehindAlways == Spec => []NoFlowBehind
<1>1. VersionsBehind => NoFlowBehind
  BY DEF VersionsBehind
<1> QED  BY <1>1, VersionsBehindAlways, PTL

-----------------------------------------------------------------------------
(* Stop waits for one kind of goroutine after the other.                   *)

\* Where Stop has got to, and who is over by then.
StopOrder ==
    /\ stop \notin {"off", "cancel", "senders"} => \A s \in Senders : sender[s].pc = "gone"
    /\ stop \in {"sampler", "read", "commit", "done"} => \A r \in Readers : reader[r].pc = "gone"
    /\ stop \in {"read", "commit", "done"} => sampler = "gone"

LEMMA InitStopOrder == Init => StopOrder
  BY DEF Init, StopOrder

\* A sender that is over stays so, and sends nothing.
LEMMA SenderMoves ==
  ASSUME Types, NEW s \in Senders, SenderSteps(s) \/ SenderLeaves(s)
  PROVE  /\ sender[s].pc # "gone"
         /\ \A t \in Senders : t # s => sender'[t] = sender[t]
         /\ UNCHANGED <<reader, last, seen, ueVars, stopVars, sampleVars>>
<1> USE DEF Types, TrafficTypes
<1>1. CASE Tick(s) \/ Load(s) \/ SenderPublishes(s) \/ SenderLeaves(s)
  BY <1>1 DEF Tick, Load, SenderPublishes, SenderLeaves
<1>2. ASSUME NEW u \in Ues, Add(s, u)
      PROVE  /\ sender[s].pc # "gone"
             /\ \A t \in Senders : t # s => sender'[t] = sender[t]
             /\ UNCHANGED <<reader, last, seen, ueVars, stopVars, sampleVars>>
  BY <1>2 DEF Add
<1>3. ASSUME NEW sent \in SUBSET sender[s].batch, Flush(s, sent)
      PROVE  /\ sender[s].pc # "gone"
             /\ \A t \in Senders : t # s => sender'[t] = sender[t]
             /\ UNCHANGED <<reader, last, seen, ueVars, stopVars, sampleVars>>
  BY <1>3 DEF Flush
<1> QED  BY <1>1, <1>2, <1>3 DEF SenderSteps

\* A reader that is over stays so, and reads nothing.
LEMMA ReaderMoves ==
  ASSUME Types, NEW r \in Readers, ReaderSteps(r) \/ Reads(r)
  PROVE  /\ reader[r].pc # "gone"
         /\ \A q \in Readers : q # r => reader'[q] = reader[q]
         /\ net' \subseteq net
         /\ UNCHANGED <<sender, nextSeq, ueVars, stopVars, sampleVars>>
<1> USE DEF Types, TrafficTypes
<1>1. CASE ReaderLeaves(r) \/ ReaderPublishes(r) \/ CompareAndSwap(r)
  BY <1>1 DEF ReaderLeaves, ReaderPublishes, CompareAndSwap
<1>2. ASSUME NEW p \in reader[r].batch, Receive(r, p)
      PROVE  /\ reader[r].pc # "gone"
             /\ \A q \in Readers : q # r => reader'[q] = reader[q]
             /\ net' \subseteq net
             /\ UNCHANGED <<sender, nextSeq, ueVars, stopVars, sampleVars>>
  BY <1>2 DEF Receive, Unknown, Misrouted, Late, Newer
<1>3. CASE Reads(r)
  BY <1>3 DEF Reads, Read
<1> QED  BY <1>1, <1>2, <1>3 DEF ReaderSteps

LEMMA StepStopOrder == Types /\ StopOrder /\ [Next]_vars => StopOrder'
<1> SUFFICES ASSUME Types, StopOrder, [Next]_vars PROVE StopOrder'
  OBVIOUS
<1>1. ASSUME UNCHANGED <<stop, sender, reader, sampler>> PROVE StopOrder'
  BY <1>1 DEF StopOrder
<1>2. ASSUME NEW u \in Ues, AddUe(u) \/ Activates(u) PROVE StopOrder'
  <2>1. UNCHANGED <<stop, sender, reader, sampler>>
    BY <1>2 DEF AddUe, Activates, ActivateCheck, StoreFlow, ShardAdd, ShardBump, trafficVars, stopVars, sampleVars
  <2> QED  BY <1>1, <2>1
<1>3. ASSUME NEW s \in Senders, SenderSteps(s) \/ SenderLeaves(s) PROVE StopOrder'
  <2>1. sender[s].pc # "gone" /\ UNCHANGED <<stop, reader, sampler>>
    BY <1>3, SenderMoves DEF stopVars, sampleVars
  <2>2. stop \in {"off", "cancel", "senders"}
    BY <2>1 DEF StopOrder
  <2> QED  BY <2>1, <2>2 DEF StopOrder
<1>4. ASSUME NEW r \in Readers, ReaderSteps(r) \/ Reads(r) PROVE StopOrder'
  <2>1. reader[r].pc # "gone" /\ UNCHANGED <<stop, sender, sampler>>
    BY <1>4, ReaderMoves DEF stopVars, sampleVars
  <2>2. stop \notin {"sampler", "read", "commit", "done"}
    BY <2>1 DEF StopOrder
  <2> QED  BY <2>1, <2>2 DEF StopOrder
<1>5. CASE SamplerSteps \/ SamplerTicks
  <2>1. sampler # "gone" /\ UNCHANGED <<stop, sender, reader>>
    BY <1>5 DEF SamplerSteps, SamplerStarts, SamplerCommits, SamplerLeaves, SamplerTicks, TakeRead, TakeCommit,
       trafficVars, stopVars
  <2>2. stop \notin {"read", "commit", "done"}
    BY <2>1 DEF StopOrder
  <2> QED  BY <2>1, <2>2 DEF StopOrder
<1>6. CASE StopBegins \/ StopSteps
  <2>1. UNCHANGED <<sender, reader, sampler>>
    BY <1>6 DEF StopBegins, StopSteps, StopCancels, SendersGone, CloseSockets, ReadersGone, SamplerGone, StopReads,
       StopCommits, TakeRead, TakeCommit, trafficVars, sampleVars
  <2>2. CASE StopBegins \/ StopCancels
    BY <2>1, <2>2 DEF StopOrder, StopBegins, StopCancels
  <2>3. CASE SendersGone \/ CloseSockets
    BY <2>1, <2>3 DEF StopOrder, SendersGone, CloseSockets
  <2>4. CASE ReadersGone
    BY <2>1, <2>4 DEF StopOrder, ReadersGone
  <2>5. CASE SamplerGone
    BY <2>1, <2>5 DEF StopOrder, SamplerGone
  <2>6. CASE StopReads
    BY <2>1, <2>6 DEF StopOrder, StopReads
  <2>7. CASE StopCommits
    BY <2>1, <2>7 DEF StopOrder, StopCommits
  <2> QED  BY <1>6, <2>2, <2>3, <2>4, <2>5, <2>6, <2>7 DEF StopSteps
<1>7. CASE UNCHANGED vars
  BY <1>1, <1>7 DEF vars, trafficVars, stopVars, sampleVars
<1> QED  BY <1>2, <1>3, <1>4, <1>5, <1>6, <1>7 DEF Next

\* Stop goes on only when nobody it waits for is left: its flag, its two waits and the last
\* sample come in this order (Stop).
THEOREM StopOrderAlways == Spec => []StopOrder
<1>1. Types /\ StopOrder /\ [Next]_vars => StopOrder'
  BY StepStopOrder
<1> QED  BY <1>1, InitStopOrder, TypesAlways, PTL DEF Spec

\* Once Stop goes on to the drain nothing more is built or sent: no sender is left (Stop's
\* senders.Wait, engine.go).
THEOREM HaltedAtOnceAlways == Spec => HaltedAtOnce
<1>1. ASSUME Types, StopOrder, [Next]_vars, stop \notin {"off", "cancel", "senders"}
      PROVE  net' \subseteq net /\ nextSeq' = nextSeq
  <2>1. ASSUME NEW s \in Senders, SenderSteps(s) \/ SenderLeaves(s) PROVE FALSE
    <3>1. sender[s].pc # "gone"
      BY <1>1, <2>1, SenderMoves
    <3> QED  BY <1>1, <3>1 DEF StopOrder
  <2>2. ASSUME NEW r \in Readers, ReaderSteps(r) \/ Reads(r) PROVE net' \subseteq net /\ nextSeq' = nextSeq
    BY <1>1, <2>2, ReaderMoves
  <2>3. ASSUME UNCHANGED trafficVars PROVE net' \subseteq net /\ nextSeq' = nextSeq
    BY <2>3 DEF trafficVars
  <2>4. ASSUME NEW u \in Ues, AddUe(u) \/ Activates(u) PROVE UNCHANGED trafficVars
    BY <2>4 DEF AddUe, Activates, ActivateCheck, StoreFlow, ShardAdd, ShardBump
  <2> QED  BY <1>1, <2>1, <2>2, <2>3, <2>4, OthersKeepTraffic DEF Next
<1>2. Types /\ StopOrder /\ [Next]_vars => [ stop \notin {"off", "cancel", "senders"} =>
                                                net' \subseteq net /\ nextSeq' = nextSeq ]_vars
  BY <1>1
<1> QED  BY <1>2, TypesAlways, StopOrderAlways, PTL DEF Spec, HaltedAtOnce

-----------------------------------------------------------------------------
(* A packet is in one place at a time.                                     *)

\* A shard's sender sends the flows of its own UEs.
OwnFlows ==
    \A s \in Senders : \A u \in shard[s].flows \cup sender[s].flows : ShardOf(DirOf(s))[u] = s

LEMMA ShardsApart ==
  ASSUME NEW d \in Dirs, NEW u \in Ues
  PROVE  ShardOf(d)[u] \in Senders /\ DirOf(ShardOf(d)[u]) = d
  BY DataplaneOK DEF Dirs, ShardOf, DirOf, Senders, Readers

LEMMA DirIsOne == \A w : DirOf(w) \in Dirs
  BY DEF DirOf, Dirs

LEMMA InitOwnFlows == Init => OwnFlows
  BY DEF Init, OwnFlows

LEMMA StepOwnFlows == Types /\ OwnFlows /\ [Next]_vars => OwnFlows'
<1> SUFFICES ASSUME Types, OwnFlows, [Next]_vars PROVE OwnFlows'
  OBVIOUS
<1>1. ASSUME UNCHANGED <<shard, sender>> PROVE OwnFlows'
  BY <1>1 DEF OwnFlows
<1>2. ASSUME NEW u \in Ues, AddUe(u) \/ Activates(u) PROVE OwnFlows'
  <2>1. CASE AddUe(u) \/ ActivateCheck(u) \/ StoreFlow(u)
    BY <1>1, <2>1 DEF AddUe, ActivateCheck, StoreFlow, trafficVars
  <2>2. ASSUME NEW d \in Dirs, ShardAdd(u, d) PROVE OwnFlows'
    <3> DEFINE t == ShardOf(d)[u]
    <3>1. t \in Senders /\ DirOf(t) = d /\ ShardOf(d)[u] = t
      BY ShardsApart
    <3> HIDE DEF t
    <3>2. shard' = [shard EXCEPT ![t].flows = @ \cup {u}] /\ sender' = sender
      BY <2>2 DEF ShardAdd, trafficVars, t
    <3>3. ASSUME NEW s \in Senders PROVE shard'[s].flows \subseteq shard[s].flows \cup (IF s = t THEN {u} ELSE {})
      BY <3>1, <3>2 DEF Types, UeTypes, Shards
    <3>4. ASSUME NEW s \in Senders, NEW v \in shard'[s].flows \cup sender'[s].flows
          PROVE  ShardOf(DirOf(s))[v] = s
      <4>1. CASE v \in shard[s].flows \cup sender[s].flows
        BY <4>1 DEF OwnFlows
      <4>2. CASE s = t /\ v = u
        BY <3>1, <4>2
      <4> QED  BY <3>2, <3>3, <3>4, <4>1, <4>2
    <3> QED  BY <3>4 DEF OwnFlows
  <2>3. ASSUME NEW d \in Dirs, ShardBump(u, d) PROVE OwnFlows'
    <3>1. \A s \in Senders : shard'[s].flows = shard[s].flows /\ sender'[s] = sender[s]
      BY <2>3 DEF ShardBump, trafficVars, Types, UeTypes, Shards
    <3> QED  BY <3>1 DEF OwnFlows
  <2> QED  BY <1>2, <2>1, <2>2, <2>3 DEF Activates
<1>3. ASSUME NEW s \in Senders, SenderSteps(s) \/ SenderLeaves(s) PROVE OwnFlows'
  <2>1. shard' = shard /\ \A t \in Senders : t # s => sender'[t] = sender[t]
    BY <1>3, SenderMoves DEF ueVars
  <2>2. sender'[s].flows \subseteq shard[s].flows \cup sender[s].flows
    <3> USE DEF Types, TrafficTypes, SenderState
    <3>1. CASE Load(s)
      BY <3>1 DEF Load
    <3>2. CASE Tick(s) \/ SenderPublishes(s) \/ SenderLeaves(s)
      BY <3>2 DEF Tick, SenderPublishes, SenderLeaves
    <3>3. ASSUME NEW u \in Ues, Add(s, u) PROVE sender'[s].flows = sender[s].flows
      BY <3>3 DEF Add
    <3>4. ASSUME NEW sent \in SUBSET sender[s].batch, Flush(s, sent) PROVE sender'[s].flows = sender[s].flows
      BY <3>4 DEF Flush
    <3> QED  BY <1>3, <3>1, <3>2, <3>3, <3>4 DEF SenderSteps
  <2>3. ASSUME NEW t \in Senders, NEW v \in shard'[t].flows \cup sender'[t].flows PROVE ShardOf(DirOf(t))[v] = t
    <3>1. v \in shard[t].flows \cup sender[t].flows
      BY <2>1, <2>2, <2>3
    <3> QED  BY <3>1 DEF OwnFlows
  <2> QED  BY <2>3 DEF OwnFlows
<1>4. ASSUME NEW r \in Readers, ReaderSteps(r) \/ Reads(r) PROVE OwnFlows'
  BY <1>1, <1>4, ReaderMoves DEF ueVars
<1>5. CASE SamplerSteps \/ SamplerTicks \/ StopBegins \/ StopSteps \/ UNCHANGED vars
  BY <1>1, <1>5, OthersKeepTraffic DEF ueVars, trafficVars
<1> QED  BY <1>2, <1>3, <1>4, <1>5 DEF Next

\* A packet that has left its sender: on its way, being handled, or handled.
HasLeft(p) == p \in net \/ (\E r \in Readers : p \in reader[r].batch) \/ p.seq \in seen[p.dir][p.ue]

\* What a sender holds is of its own UEs, numbered below the next number, and, until it is
\* flushed, with nobody else.
SenderPackets(s) ==
    /\ IsFiniteSet(sender[s].batch)
    /\ sender[s].pc \in {"tick", "load", "gone"} => sender[s].batch = {}
    /\ \A p \in sender[s].batch :
           /\ p.dir = DirOf(s) /\ ShardOf(p.dir)[p.ue] = s
           /\ p.seq < nextSeq[p.dir][p.ue]
           /\ sender[s].pc = "fill" => ~HasLeft(p)

\* What is on its way has been numbered and not been handled.
NetPackets ==
    \A p \in net : p.seq < nextSeq[p.dir][p.ue] /\ p.seq \notin seen[p.dir][p.ue]

\* What has been handled has been numbered.
SeenPackets ==
    \A d \in Dirs, u \in Ues : \A q \in seen[d][u] : q < nextSeq[d][u]

\* A reader at rest holds nothing; one at its swap holds the packet it swaps for.
ReaderWaits(r) ==
    /\ reader[r].pc \in {"read", "gone"} => reader[r].batch = {}
    /\ reader[r].pc = "cas" => reader[r].pkt \in reader[r].batch

\* What a reader holds is of its direction, and with nobody else.
ReaderPackets(r) ==
    \A p \in reader[r].batch :
        /\ p.dir = DirOf(r) /\ p.seq < nextSeq[p.dir][p.ue]
        /\ p \notin net /\ p.seq \notin seen[p.dir][p.ue]
        /\ \A q \in Readers \ {r} : p \notin reader[q].batch

\* A packet is in one place at a time.
PacketsOnce ==
    /\ \A s \in Senders : SenderPackets(s)
    /\ NetPackets /\ SeenPackets
    /\ \A r \in Readers : ReaderWaits(r) /\ ReaderPackets(r)

LEMMA InitPacketsOnce == Init => PacketsOnce
<1> SUFFICES ASSUME Init PROVE PacketsOnce
  OBVIOUS
<1>1. IsFiniteSet({})
  BY FS_EmptySet
<1>2. \A s \in Senders : SenderPackets(s)
  BY <1>1 DEF Init, SenderPackets
<1>3. \A r \in Readers : ReaderWaits(r) /\ ReaderPackets(r)
  BY DEF Init, ReaderWaits, ReaderPackets
<1>4. NetPackets /\ SeenPackets
  BY DEF Init, NetPackets, SeenPackets
<1> QED  BY <1>2, <1>3, <1>4 DEF PacketsOnce

LEMMA SamePacket ==
  ASSUME NEW p \in Packet, NEW q \in Packet, p.dir = q.dir, p.ue = q.ue, p.seq = q.seq
  PROVE  p = q
  BY DEF Packet

LEMMA PacketFields ==
  ASSUME NEW p \in Packet
  PROVE  p.dir \in Dirs /\ p.ue \in Ues /\ p.seq \in Nat
  BY DEF Packet

LEMMA BatchesArePackets ==
  ASSUME Types
  PROVE  /\ net \subseteq Packet
         /\ \A s \in Senders : sender[s].batch \subseteq Packet
         /\ \A r \in Readers : reader[r].batch \subseteq Packet
         /\ \A d \in Dirs, u \in Ues : nextSeq[d][u] \in Nat /\ seen[d][u] \subseteq Nat
  BY DEF Types, TrafficTypes, SenderState, ReaderState

\* A reader drops a packet, or has handled it.
LEMMA ReaderDrops ==
  ASSUME Types, PacketsOnce, NEW r \in Readers, NEW p \in reader[r].batch,
         UNCHANGED <<net, nextSeq, sender>>,
         \A q \in Readers : /\ reader'[q].batch \subseteq reader[q].batch
                            /\ ReaderWaits(q)',
         p \notin reader'[r].batch,
         \A d \in Dirs, u \in Ues :
             seen'[d][u] \subseteq seen[d][u] \cup (IF d = p.dir /\ u = p.ue THEN {p.seq} ELSE {})
  PROVE  PacketsOnce'
<1>1. p \in Packet /\ p.dir \in Dirs /\ p.ue \in Ues /\ p.seq \in Nat
  BY BatchesArePackets, PacketFields
<1>2. /\ p.seq < nextSeq[p.dir][p.ue] /\ p \notin net
      /\ \A q \in Readers \ {r} : p \notin reader[q].batch
  BY DEF PacketsOnce, ReaderPackets
<1>3. ASSUME NEW o \in Packet, o.seq \in seen'[o.dir][o.ue] PROVE o.seq \in seen[o.dir][o.ue] \/ o = p
  <2>1. o.dir \in Dirs /\ o.ue \in Ues /\ o.seq \in Nat
    BY PacketFields
  <2>2. o.seq \in seen[o.dir][o.ue] \/ (o.dir = p.dir /\ o.ue = p.ue /\ o.seq = p.seq)
    BY <1>3, <2>1
  <2> QED  BY <1>1, <2>2, SamePacket
<1>4. ASSUME NEW o \in Packet, HasLeft(o)' PROVE HasLeft(o)
  BY <1>3, <1>4 DEF HasLeft
<1>5. ASSUME NEW s \in Senders PROVE SenderPackets(s)'
  <2>1. SenderPackets(s)
    BY DEF PacketsOnce
  <2> QED  BY <1>4, <2>1, BatchesArePackets DEF SenderPackets
<1>6. NetPackets'
  <2>1. ASSUME NEW o \in net PROVE o.seq < nextSeq[o.dir][o.ue] /\ o.seq \notin seen'[o.dir][o.ue]
    <3>1. o \in Packet /\ o # p /\ o.seq \notin seen[o.dir][o.ue] /\ o.seq < nextSeq[o.dir][o.ue]
      BY <1>2, BatchesArePackets DEF PacketsOnce, NetPackets
    <3> QED  BY <1>3, <3>1
  <2> QED  BY <2>1 DEF NetPackets
<1>7. SeenPackets'
  <2>1. ASSUME NEW d \in Dirs, NEW u \in Ues, NEW q \in seen'[d][u] PROVE q < nextSeq[d][u]
    <3>1. q \in seen[d][u] \/ (d = p.dir /\ u = p.ue /\ q = p.seq)
      OBVIOUS
    <3> QED  BY <1>2, <3>1 DEF PacketsOnce, SeenPackets
  <2> QED  BY <2>1 DEF SeenPackets
<1>8. ASSUME NEW q \in Readers PROVE ReaderPackets(q)'
  <2>1. ASSUME NEW o \in reader'[q].batch
        PROVE  /\ o.dir = DirOf(q) /\ o.seq < nextSeq[o.dir][o.ue]
               /\ o \notin net /\ o.seq \notin seen'[o.dir][o.ue]
               /\ \A t \in Readers \ {q} : o \notin reader'[t].batch
    <3>1. o \in reader[q].batch /\ o \in Packet
      BY BatchesArePackets
    <3>2. /\ o.dir = DirOf(q) /\ o.seq < nextSeq[o.dir][o.ue]
          /\ o \notin net /\ o.seq \notin seen[o.dir][o.ue]
          /\ \A t \in Readers \ {q} : o \notin reader[t].batch
      BY <3>1 DEF PacketsOnce, ReaderPackets
    <3>3. o # p
      BY <1>2, <3>1
    <3> QED  BY <1>3, <3>1, <3>2, <3>3
  <2> QED  BY <2>1 DEF ReaderPackets
<1> QED  BY <1>5, <1>6, <1>7, <1>8 DEF PacketsOnce

\* A sender's step leaves the packets that have left where they are.
LEMMA SenderGoes ==
  ASSUME Types, PacketsOnce, NEW s \in Senders, UNCHANGED <<net, reader, seen>>,
         \A t \in Senders : t # s => sender'[t] = sender[t],
         \A d \in Dirs, u \in Ues : nextSeq'[d][u] \in Nat /\ nextSeq[d][u] <= nextSeq'[d][u],
         SenderPackets(s)'
  PROVE  PacketsOnce'
<1>1. ASSUME NEW o \in Packet, o.seq < nextSeq[o.dir][o.ue] PROVE o.seq < nextSeq'[o.dir][o.ue]
  <2>1. o.dir \in Dirs /\ o.ue \in Ues /\ o.seq \in Nat
    BY PacketFields
  <2>2. nextSeq[o.dir][o.ue] \in Nat /\ nextSeq'[o.dir][o.ue] \in Nat
    BY <2>1, BatchesArePackets
  <2> QED  BY <1>1, <2>1, <2>2
<1>2. ASSUME NEW t \in Senders, t # s PROVE SenderPackets(t)'
  <2>1. SenderPackets(t) /\ sender'[t] = sender[t] /\ sender[t].batch \subseteq Packet
    BY <1>2, BatchesArePackets DEF PacketsOnce
  <2>2. \A p \in sender[t].batch : HasLeft(p)' <=> HasLeft(p)
    BY DEF HasLeft
  <2> QED  BY <1>1, <2>1, <2>2 DEF SenderPackets
<1>3. NetPackets'
  BY <1>1, BatchesArePackets DEF PacketsOnce, NetPackets
<1>4. SeenPackets'
  <2>1. ASSUME NEW d \in Dirs, NEW u \in Ues, NEW q \in seen[d][u] PROVE q < nextSeq'[d][u]
    <3>1. q < nextSeq[d][u]
      BY DEF PacketsOnce, SeenPackets
    <3>2. q \in Nat /\ nextSeq[d][u] \in Nat /\ nextSeq'[d][u] \in Nat /\ nextSeq[d][u] <= nextSeq'[d][u]
      BY BatchesArePackets
    <3> QED  BY <3>1, <3>2
  <2> QED  BY <2>1 DEF SeenPackets
<1>5. ASSUME NEW r \in Readers PROVE ReaderWaits(r)' /\ ReaderPackets(r)'
  <2>1. ReaderWaits(r) /\ ReaderPackets(r) /\ reader[r].batch \subseteq Packet
    BY BatchesArePackets DEF PacketsOnce
  <2> QED  BY <1>1, <2>1 DEF ReaderWaits, ReaderPackets
<1> QED  BY <1>2, <1>3, <1>4, <1>5 DEF PacketsOnce

\* add: a new packet, of a flow of this sender only.
LEMMA AddKeepsPackets ==
  ASSUME Types, OwnFlows, PacketsOnce, NEW s \in Senders, NEW u \in Ues, Add(s, u)
  PROVE  /\ PacketsOnce'
         /\ Cardinality(sender'[s].batch) = Cardinality(sender[s].batch) + 1
<1> DEFINE d == DirOf(s)
           p == [dir |-> d, ue |-> u, seq |-> nextSeq[d][u]]
<1>1. d \in Dirs /\ nextSeq[d][u] \in Nat /\ p \in Packet
      /\ p.dir = d /\ p.ue = u /\ p.seq = nextSeq[d][u]
  BY DirIsOne, BatchesArePackets DEF Packet
<1>2. /\ sender[s].pc = "fill" /\ u \in sender[s].flows
      /\ sender' = [sender EXCEPT ![s].batch = @ \cup {p}]
      /\ nextSeq' = [nextSeq EXCEPT ![d][u] = @ + 1]
      /\ UNCHANGED <<net, reader, seen>>
  BY DEF Add
<1>3. ShardOf(d)[u] = s
  BY <1>2 DEF OwnFlows
<1> HIDE DEF p, d
<1>4. \A t \in Senders : t # s => sender'[t] = sender[t]
  BY <1>2 DEF Types, TrafficTypes
<1>5. sender'[s].batch = sender[s].batch \cup {p} /\ sender'[s].pc = "fill"
  BY <1>2 DEF Types, TrafficTypes, SenderState
<1>6. \A e \in Dirs, v \in Ues : /\ nextSeq'[e][v] = IF e = d /\ v = u THEN nextSeq[e][v] + 1 ELSE nextSeq[e][v]
                                 /\ nextSeq[e][v] \in Nat
  BY <1>1, <1>2 DEF Types, TrafficTypes
<1>7. \A e \in Dirs, v \in Ues : nextSeq'[e][v] \in Nat /\ nextSeq[e][v] <= nextSeq'[e][v]
  BY <1>6
<1>8. SenderPackets(s) /\ sender[s].batch \subseteq Packet
  BY BatchesArePackets DEF PacketsOnce
<1>9. ~HasLeft(p)
  <2>1. \A o \in Packet : o.seq < nextSeq[o.dir][o.ue] => o # p
    BY <1>1
  <2>2. p \notin net
    BY <1>1, <2>1 DEF PacketsOnce, NetPackets
  <2>3. \A r \in Readers : p \notin reader[r].batch
    BY <1>1, <2>1 DEF PacketsOnce, ReaderPackets
  <2>4. p.seq \notin seen[p.dir][p.ue]
    BY <1>1 DEF PacketsOnce, SeenPackets
  <2> QED  BY <2>2, <2>3, <2>4 DEF HasLeft
<1>10. \A o \in Packet : HasLeft(o)' <=> HasLeft(o)
  BY <1>2 DEF HasLeft
<1>11. p \notin sender[s].batch
  BY <1>1, <1>8 DEF SenderPackets
<1>12. IsFiniteSet(sender[s].batch)
  BY <1>8 DEF SenderPackets
<1>13. ASSUME NEW o \in sender'[s].batch
       PROVE  /\ o.dir = DirOf(s) /\ ShardOf(o.dir)[o.ue] = s
              /\ o.seq < nextSeq'[o.dir][o.ue]
              /\ ~HasLeft(o)'
  <2>1. CASE o = p
    BY <1>1, <1>3, <1>6, <1>9, <1>10, <2>1 DEF d
  <2>2. CASE o # p
    <3>1. o \in sender[s].batch /\ o \in Packet
      BY <1>5, <1>8, <2>2
    <3>2. /\ o.dir = DirOf(s) /\ ShardOf(o.dir)[o.ue] = s
          /\ o.seq < nextSeq[o.dir][o.ue] /\ ~HasLeft(o)
      BY <1>2, <1>8, <3>1 DEF SenderPackets
    <3>3. o.dir \in Dirs /\ o.ue \in Ues /\ o.seq \in Nat
      BY <3>1, PacketFields
    <3>4. o.seq < nextSeq'[o.dir][o.ue]
      BY <1>6, <3>2, <3>3
    <3> QED  BY <1>10, <3>1, <3>2, <3>4
  <2> QED  BY <2>1, <2>2
<1>14. IsFiniteSet(sender'[s].batch) /\ Cardinality(sender'[s].batch) = Cardinality(sender[s].batch) + 1
  BY <1>5, <1>11, <1>12, FS_AddElement
<1>15. SenderPackets(s)'
  BY <1>5, <1>13, <1>14 DEF SenderPackets
<1>16. PacketsOnce'
  BY <1>2, <1>4, <1>7, <1>15, SenderGoes
<1> QED  BY <1>14, <1>16

\* flush: what is sent leaves the sender.
LEMMA FlushKeepsPackets ==
  ASSUME Types, PacketsOnce, NEW s \in Senders, NEW sent \in SUBSET sender[s].batch, Flush(s, sent)
  PROVE  PacketsOnce'
<1>1. /\ sender[s].pc = "fill" /\ net' = net \cup sent /\ UNCHANGED <<reader, nextSeq, seen>>
      /\ sender' = [sender EXCEPT ![s].pc = IF sender[s].batch = {} THEN "tick" ELSE "publish"]
  BY DEF Flush
<1>2. SenderPackets(s) /\ sender[s].batch \subseteq Packet
  BY BatchesArePackets DEF PacketsOnce
<1>3. \A t \in Senders : t # s => sender'[t] = sender[t]
  BY <1>1 DEF Types, TrafficTypes
<1>4. /\ sender'[s].batch = sender[s].batch
      /\ sender'[s].pc = IF sender[s].batch = {} THEN "tick" ELSE "publish"
  BY <1>1 DEF Types, TrafficTypes, SenderState
<1>5. \A o \in sent : /\ o \in Packet /\ o.seq < nextSeq[o.dir][o.ue] /\ ~HasLeft(o)
                      /\ o.dir = DirOf(s) /\ ShardOf(o.dir)[o.ue] = s
  BY <1>1, <1>2 DEF SenderPackets
<1>6. SenderPackets(s)'
  BY <1>1, <1>2, <1>4 DEF SenderPackets
<1>7. ASSUME NEW t \in Senders, t # s PROVE SenderPackets(t)'
  <2>1. SenderPackets(t) /\ sender'[t] = sender[t]
    BY <1>3, <1>7 DEF PacketsOnce
  <2>2. ASSUME NEW o \in sender[t].batch, ~HasLeft(o) PROVE ~HasLeft(o)'
    <3>1. o \notin sent
      BY <1>5, <1>7, <2>1, <2>2 DEF SenderPackets
    <3> QED  BY <1>1, <2>2, <3>1 DEF HasLeft
  <2> QED  BY <1>1, <2>1, <2>2 DEF SenderPackets
<1>8. NetPackets'
  BY <1>1, <1>5 DEF PacketsOnce, NetPackets, HasLeft
<1>9. SeenPackets'
  BY <1>1 DEF PacketsOnce, SeenPackets
<1>10. ASSUME NEW r \in Readers PROVE ReaderWaits(r)' /\ ReaderPackets(r)'
  <2>1. ReaderWaits(r) /\ ReaderPackets(r)
    BY DEF PacketsOnce
  <2>2. \A o \in reader[r].batch : o \notin sent
    BY <1>5 DEF HasLeft
  <2> QED  BY <1>1, <2>1, <2>2 DEF ReaderWaits, ReaderPackets
<1> QED  BY <1>6, <1>7, <1>8, <1>9, <1>10 DEF PacketsOnce

\* A reader takes packets off the network.
LEMMA ReadKeepsPackets ==
  ASSUME Types, PacketsOnce, NEW r \in Readers, Reads(r)
  PROVE  PacketsOnce'
<1>1. PICK batch \in SUBSET {p \in net : p.dir = DirOf(r)} : Read(r, batch)
  BY DEF Reads
<1>2. /\ reader[r].pc = "read" /\ net' = net \ batch /\ UNCHANGED <<sender, nextSeq, seen>>
      /\ reader' = [reader EXCEPT ![r].pc = "handle", ![r].batch = batch]
  BY <1>1 DEF Read
<1>3. \A q \in Readers : q # r => reader'[q] = reader[q]
  BY <1>2 DEF Types, TrafficTypes
<1>4. reader'[r].batch = batch /\ reader'[r].pc = "handle"
  BY <1>2 DEF Types, TrafficTypes, ReaderState
<1>5. reader[r].batch = {}
  BY <1>2 DEF PacketsOnce, ReaderWaits
<1>6. ASSUME NEW o, HasLeft(o)' PROVE HasLeft(o)
  BY <1>2, <1>3, <1>4, <1>6 DEF HasLeft
<1>7. ASSUME NEW s \in Senders PROVE SenderPackets(s)'
  <2>1. SenderPackets(s)
    BY DEF PacketsOnce
  <2> QED  BY <1>2, <1>6, <2>1 DEF SenderPackets
<1>8. NetPackets' /\ SeenPackets'
  BY <1>2 DEF PacketsOnce, NetPackets, SeenPackets
<1>9. ASSUME NEW q \in Readers PROVE ReaderWaits(q)' /\ ReaderPackets(q)'
  <2>1. CASE q = r
    <3>1. ASSUME NEW o \in batch
          PROVE  /\ o.dir = DirOf(r) /\ o.seq < nextSeq[o.dir][o.ue] /\ o.seq \notin seen[o.dir][o.ue]
                 /\ o \notin net'
                 /\ \A t \in Readers \ {r} : o \notin reader'[t].batch
      <4>1. o \in net /\ o.dir = DirOf(r) /\ o \notin net'
        BY <1>2
      <4>2. o.seq < nextSeq[o.dir][o.ue] /\ o.seq \notin seen[o.dir][o.ue]
        BY <4>1 DEF PacketsOnce, NetPackets
      <4>3. \A t \in Readers : o \notin reader[t].batch
        BY <4>1 DEF PacketsOnce, ReaderPackets
      <4> QED  BY <1>3, <4>1, <4>2, <4>3
    <3> QED  BY <1>2, <1>4, <2>1, <3>1 DEF ReaderWaits, ReaderPackets
  <2>2. CASE q # r
    <3>1. ReaderWaits(q) /\ ReaderPackets(q) /\ reader'[q] = reader[q]
      BY <1>3, <2>2 DEF PacketsOnce
    <3>2. \A o \in reader[q].batch : o \notin net /\ o \notin batch
      BY <3>1 DEF ReaderPackets
    <3>3. ASSUME NEW o \in reader[q].batch, NEW t \in Readers \ {q} PROVE o \notin reader'[t].batch
      <4>1. o \notin reader[t].batch
        BY <3>1 DEF ReaderPackets
      <4> QED  BY <1>3, <1>4, <3>2, <4>1
    <3> QED  BY <1>2, <3>1, <3>2, <3>3 DEF ReaderWaits, ReaderPackets
  <2> QED  BY <2>1, <2>2
<1> QED  BY <1>7, <1>8, <1>9 DEF PacketsOnce

\* A sender moves on without a packet.
LEMMA SenderMovesOn ==
  ASSUME Types, PacketsOnce, NEW s \in Senders, Tick(s) \/ Load(s) \/ SenderPublishes(s) \/ SenderLeaves(s)
  PROVE  PacketsOnce'
<1>1. /\ \A t \in Senders : t # s => sender'[t] = sender[t]
      /\ sender[s].pc \in {"tick", "load", "publish"}
      /\ sender[s].pc = "publish" => sender'[s].batch = {}
      /\ sender[s].pc # "publish" => sender'[s].batch = sender[s].batch
      /\ UNCHANGED <<nextSeq, net, reader, seen>>
  BY DEF Tick, Load, SenderPublishes, SenderLeaves, Types, TrafficTypes, SenderState
<1>2. sender'[s].batch = {}
  BY <1>1 DEF PacketsOnce, SenderPackets
<1>3. IsFiniteSet({})
  BY FS_EmptySet
<1>4. SenderPackets(s)'
  BY <1>2, <1>3 DEF SenderPackets
<1>5. \A d \in Dirs, u \in Ues : nextSeq'[d][u] \in Nat /\ nextSeq[d][u] <= nextSeq'[d][u]
  BY <1>1, BatchesArePackets
<1> QED  BY <1>1, <1>4, <1>5, SenderGoes

\* A reader keeps its packets.
LEMMA ReaderKeeps ==
  ASSUME PacketsOnce, UNCHANGED <<net, nextSeq, sender, seen>>,
         \A q \in Readers : reader'[q].batch = reader[q].batch /\ ReaderWaits(q)'
  PROVE  PacketsOnce'
<1>1. ASSUME NEW o PROVE HasLeft(o)' <=> HasLeft(o)
  BY DEF HasLeft
<1>2. ASSUME NEW s \in Senders PROVE SenderPackets(s)'
  BY <1>1 DEF PacketsOnce, SenderPackets
<1>3. ASSUME NEW q \in Readers PROVE ReaderPackets(q)'
  <2>1. ReaderPackets(q)
    BY DEF PacketsOnce
  <2> QED  BY <2>1 DEF ReaderPackets
<1>4. NetPackets' /\ SeenPackets'
  BY DEF PacketsOnce, NetPackets, SeenPackets
<1> QED  BY <1>2, <1>3, <1>4 DEF PacketsOnce

\* What a reader's step does to the other readers.
LEMMA ReceiveKeepsPackets ==
  ASSUME Types, PacketsOnce, NEW r \in Readers, NEW p \in reader[r].batch, Receive(r, p)
  PROVE  PacketsOnce'
<1>1. p \in Packet /\ p.dir \in Dirs /\ p.ue \in Ues /\ p.seq \in Nat
  BY BatchesArePackets, PacketFields
<1>2. reader[r].pc = "handle" /\ UNCHANGED <<net, nextSeq, sender>> /\ reader[r] \in ReaderState
  BY DEF Receive, Types, TrafficTypes
<1>3. \A q \in Readers : ReaderWaits(q) /\ ReaderPackets(q)
  BY DEF PacketsOnce
<1>4. CASE Unknown(r, p) \/ Misrouted(r, p) \/ Late(r, p)
  <2>1. reader' = [reader EXCEPT ![r].batch = @ \ {p}]
    BY <1>4 DEF Unknown, Misrouted, Late
  <2>2. /\ \A q \in Readers : q # r => reader'[q] = reader[q]
        /\ reader'[r].batch = reader[r].batch \ {p} /\ reader'[r].pc = "handle"
    BY <1>2, <2>1 DEF Types, TrafficTypes, ReaderState
  <2>3. \A q \in Readers : reader'[q].batch \subseteq reader[q].batch /\ ReaderWaits(q)'
    BY <1>3, <2>2 DEF ReaderWaits
  <2>4. CASE Unknown(r, p) \/ Misrouted(r, p)
    <3>1. seen' = seen
      BY <2>4 DEF Unknown, Misrouted
    <3> QED  BY <1>2, <2>2, <2>3, <3>1, ReaderDrops
  <2>5. CASE Late(r, p)
    <3>1. seen' = [seen EXCEPT ![p.dir][p.ue] = @ \cup {p.seq}]
      BY <2>5 DEF Late, Handled
    <3>2. \A d \in Dirs, u \in Ues :
             seen'[d][u] \subseteq seen[d][u] \cup (IF d = p.dir /\ u = p.ue THEN {p.seq} ELSE {})
      BY <1>1, <3>1 DEF Types, TrafficTypes
    <3> QED  BY <1>2, <2>2, <2>3, <3>2, ReaderDrops
  <2> QED  BY <1>4, <2>4, <2>5
<1>5. CASE Newer(r, p)
  <2>1. /\ reader' = [reader EXCEPT ![r].pc = "cas", ![r].pkt = p, ![r].prev = last[p.dir][p.ue]]
        /\ UNCHANGED seen
    BY <1>5 DEF Newer
  <2>2. /\ \A q \in Readers : q # r => reader'[q] = reader[q]
        /\ reader'[r].batch = reader[r].batch /\ reader'[r].pc = "cas" /\ reader'[r].pkt = p
    BY <1>2, <2>1 DEF Types, TrafficTypes, ReaderState
  <2>3. \A q \in Readers : reader'[q].batch = reader[q].batch /\ ReaderWaits(q)'
    BY <1>3, <2>2 DEF ReaderWaits
  <2> QED  BY <1>2, <2>1, <2>3, ReaderKeeps
<1> QED  BY <1>4, <1>5 DEF Receive

LEMMA CasKeepsPackets ==
  ASSUME Types, PacketsOnce, NEW r \in Readers, CompareAndSwap(r)
  PROVE  PacketsOnce'
<1> DEFINE p == reader[r].pkt
<1>1. reader[r].pc = "cas" /\ UNCHANGED <<net, nextSeq, sender>> /\ reader[r] \in ReaderState
  BY DEF CompareAndSwap, Types, TrafficTypes
<1>2. \A q \in Readers : ReaderWaits(q) /\ ReaderPackets(q)
  BY DEF PacketsOnce
<1>3. p \in reader[r].batch
  BY <1>1, <1>2 DEF ReaderWaits
<1>4. p \in Packet /\ p.dir \in Dirs /\ p.ue \in Ues /\ p.seq \in Nat
  BY <1>3, BatchesArePackets, PacketFields
<1>5. \/ /\ reader' = [reader EXCEPT ![r].pc = "handle", ![r].pkt = None, ![r].prev = -1,
                                       ![r].batch = @ \ {p}]
         /\ seen' = [seen EXCEPT ![p.dir][p.ue] = @ \cup {p.seq}]
      \/ reader' = [reader EXCEPT ![r].prev = last[p.dir][p.ue]] /\ UNCHANGED seen
  BY DEF CompareAndSwap, Handled
<1> HIDE DEF p
<1>6. CASE /\ reader' = [reader EXCEPT ![r].pc = "handle", ![r].pkt = None, ![r].prev = -1,
                                       ![r].batch = @ \ {p}]
           /\ seen' = [seen EXCEPT ![p.dir][p.ue] = @ \cup {p.seq}]
  <2>1. /\ \A q \in Readers : q # r => reader'[q] = reader[q]
        /\ reader'[r].batch = reader[r].batch \ {p} /\ reader'[r].pc = "handle"
    BY <1>1, <1>6 DEF Types, TrafficTypes, ReaderState
  <2>2. \A q \in Readers : reader'[q].batch \subseteq reader[q].batch /\ ReaderWaits(q)'
    BY <1>2, <2>1 DEF ReaderWaits
  <2>3. \A d \in Dirs, u \in Ues :
           seen'[d][u] \subseteq seen[d][u] \cup (IF d = p.dir /\ u = p.ue THEN {p.seq} ELSE {})
    BY <1>4, <1>6 DEF Types, TrafficTypes
  <2> QED  BY <1>1, <1>3, <2>1, <2>2, <2>3, ReaderDrops
<1>7. CASE reader' = [reader EXCEPT ![r].prev = last[p.dir][p.ue]] /\ UNCHANGED seen
  <2>1. /\ \A q \in Readers : q # r => reader'[q] = reader[q]
        /\ reader'[r].batch = reader[r].batch /\ reader'[r].pc = reader[r].pc /\ reader'[r].pkt = reader[r].pkt
    BY <1>1, <1>7 DEF Types, TrafficTypes, ReaderState
  <2>2. \A q \in Readers : reader'[q].batch = reader[q].batch /\ ReaderWaits(q)'
    BY <1>2, <2>1 DEF ReaderWaits
  <2> QED  BY <1>1, <1>7, <2>2, ReaderKeeps
<1> QED  BY <1>5, <1>6, <1>7

LEMMA StepPacketsOnce == Types /\ OwnFlows /\ PacketsOnce /\ [Next]_vars => PacketsOnce'
<1> SUFFICES ASSUME Types, OwnFlows, PacketsOnce, [Next]_vars PROVE PacketsOnce'
  OBVIOUS
<1>1. ASSUME UNCHANGED trafficVars PROVE PacketsOnce'
  BY <1>1 DEF trafficVars, PacketsOnce, SenderPackets, HasLeft, NetPackets, SeenPackets, ReaderWaits, ReaderPackets
<1>2. ASSUME NEW u \in Ues, AddUe(u) \/ Activates(u) PROVE UNCHANGED trafficVars
  BY <1>2 DEF AddUe, Activates, ActivateCheck, StoreFlow, ShardAdd, ShardBump
<1>3. ASSUME NEW s \in Senders, SenderSteps(s) \/ SenderLeaves(s) PROVE PacketsOnce'
  BY <1>3, SenderMovesOn, AddKeepsPackets, FlushKeepsPackets DEF SenderSteps
<1>4. ASSUME NEW r \in Readers, ReaderLeaves(r) \/ ReaderPublishes(r) PROVE PacketsOnce'
  <2>1. /\ \A q \in Readers : q # r => reader'[q] = reader[q]
        /\ reader'[r].batch = reader[r].batch /\ reader[r].batch = {}
        /\ reader'[r].pc \in {"read", "gone"}
        /\ UNCHANGED <<sender, net, nextSeq, seen>>
    BY <1>4 DEF Types, TrafficTypes, ReaderState, ReaderLeaves, ReaderPublishes, PacketsOnce, ReaderWaits
  <2>2. \A q \in Readers : reader'[q].batch = reader[q].batch /\ ReaderWaits(q)'
    BY <2>1 DEF ReaderWaits, PacketsOnce
  <2> QED  BY <2>1, <2>2, ReaderKeeps
<1>5. ASSUME NEW r \in Readers, ReaderSteps(r) \/ Reads(r) PROVE PacketsOnce'
  BY <1>4, <1>5, ReceiveKeepsPackets, CasKeepsPackets, ReadKeepsPackets DEF ReaderSteps
<1>6. CASE SamplerSteps \/ SamplerTicks \/ StopBegins \/ StopSteps \/ UNCHANGED vars
  BY <1>1, <1>6, OthersKeepTraffic
<1> QED  BY <1>1, <1>2, <1>3, <1>5, <1>6 DEF Next

\* A packet is in one place: with its sender, on its way, with one reader, or handled, once.
THEOREM PacketsOnceAlways == Spec => [](Types /\ OwnFlows /\ PacketsOnce)
<1>1. Types /\ OwnFlows /\ PacketsOnce /\ [Next]_vars => OwnFlows' /\ PacketsOnce'
  BY StepOwnFlows, StepPacketsOnce
<1> QED  BY <1>1, InitOwnFlows, InitPacketsOnce, TypesAlways, PTL DEF Spec

-----------------------------------------------------------------------------
(* Every packet is counted.                                                *)

\* A worker's accumulator is empty outside the stretch in which it counts.
SenderCounts(s) ==
    IF sender[s].pc = "publish"
    THEN acc[s].packets + acc[s].errors = Cardinality(sender[s].batch)
    ELSE acc[s] = NoCounts

\* A reader at rest has published what it counted.
ReaderCounts(r) == reader[r].pc \in {"read", "gone"} => acc[r] = NoCounts

\* What a sender has built, and what a reader has checked: published, to be published, and,
\* for a sender, still to be sent.  A packet a reader has counted is checked once its
\* number is compared for good.
BuiltBy(s) ==
    stats[s].packets + stats[s].errors + acc[s].packets + acc[s].errors
    + (IF sender[s].pc = "publish" THEN 0 ELSE Cardinality(sender[s].batch))
CheckedBy(r) == stats[r].packets + acc[r].packets - (IF reader[r].pc = "cas" THEN 1 ELSE 0)

Builts(d)   == [s \in SendersOf(d) |-> BuiltBy(s)]
Checkeds(d) == [r \in ReadersOf(d) |-> CheckedBy(r)]
SeenCounts(d) == [u \in Ues |-> Cardinality(seen[d][u])]

CountsKept ==
    /\ CountTypes
    /\ \A s \in Senders : SenderCounts(s)
    /\ \A r \in Readers : ReaderCounts(r)

BuiltKept   == \A d \in Dirs : SumOn(Builts(d), SendersOf(d)) = SumOn(nextSeq[d], Ues)
CheckedKept == \A d \in Dirs : SumOn(Checkeds(d), ReadersOf(d)) = SumOn(SeenCounts(d), Ues)

\* The counters and the packets agree, at every step and in each direction.
CountsAgree == CountsKept /\ BuiltKept /\ CheckedKept

LEMMA WorkersOfDir ==
  ASSUME NEW d \in Dirs
  PROVE  /\ SendersOf(d) \subseteq Senders /\ IsFiniteSet(SendersOf(d))
         /\ ReadersOf(d) \subseteq Readers /\ IsFiniteSet(ReadersOf(d))
         /\ \A s \in Senders : s \in SendersOf(d) <=> DirOf(s) = d
         /\ \A r \in Readers : r \in ReadersOf(d) <=> DirOf(r) = d
         /\ IsFiniteSet(Ues)
  BY DataplaneOK DEF Dirs, SendersOf, ReadersOf, Senders, Readers, DirOf

LEMMA WorkersApart == Workers = Senders \cup Readers /\ Senders \cap Readers = {}
  BY DataplaneOK DEF Workers

LEMMA CountFields ==
  ASSUME CountTypes, NEW w \in Workers
  PROVE  /\ acc[w] \in Counts /\ stats[w] \in Counts
         /\ acc[w].packets \in Nat /\ acc[w].errors \in Nat
         /\ stats[w].packets \in Nat /\ stats[w].errors \in Nat
  BY DEF CountTypes, Counts

LEMMA NoCountsFields ==
  /\ NoCounts \in Counts /\ NoCounts.packets = 0 /\ NoCounts.errors = 0
  BY DEF Counts, NoCounts

LEMMA SeenFinite ==
  ASSUME Types, SeenPackets, NEW d \in Dirs, NEW u \in Ues
  PROVE  IsFiniteSet(seen[d][u])
<1>1. nextSeq[d][u] \in Nat /\ seen[d][u] \subseteq Nat
  BY BatchesArePackets
<1>2. seen[d][u] \subseteq 0..(nextSeq[d][u] - 1)
  BY <1>1 DEF SeenPackets
<1>3. IsFiniteSet(0..(nextSeq[d][u] - 1))
  BY <1>1, FS_Interval
<1> QED  BY <1>2, <1>3, FS_Subset

LEMMA SumsAreInt ==
  ASSUME Types, CountTypes, PacketsOnce
  PROVE  /\ \A s \in Senders : BuiltBy(s) \in Int /\ Cardinality(sender[s].batch) \in Nat
         /\ \A r \in Readers : CheckedBy(r) \in Int
         /\ \A d \in Dirs, u \in Ues : nextSeq[d][u] \in Nat /\ Cardinality(seen[d][u]) \in Nat
<1>1. ASSUME NEW s \in Senders PROVE BuiltBy(s) \in Int /\ Cardinality(sender[s].batch) \in Nat
  <2>1. Cardinality(sender[s].batch) \in Nat
    BY FS_CardinalityType DEF PacketsOnce, SenderPackets
  <2>2. s \in Workers
    BY DEF Workers
  <2> QED  BY <2>1, <2>2, CountFields DEF BuiltBy
<1>2. ASSUME NEW r \in Readers PROVE CheckedBy(r) \in Int
  <2>1. r \in Workers
    BY DEF Workers
  <2> QED  BY <2>1, CountFields DEF CheckedBy
<1>3. ASSUME NEW d \in Dirs, NEW u \in Ues PROVE nextSeq[d][u] \in Nat /\ Cardinality(seen[d][u]) \in Nat
  BY SeenFinite, BatchesArePackets, FS_CardinalityType DEF PacketsOnce
<1> QED  BY <1>1, <1>2, <1>3

\* The sums stay when no worker's share and no flow changes.
LEMMA BuiltStays ==
  ASSUME BuiltKept, UNCHANGED nextSeq, \A s \in Senders : BuiltBy(s)' = BuiltBy(s)
  PROVE  BuiltKept'
<1> SUFFICES ASSUME NEW d \in Dirs PROVE (SumOn(Builts(d), SendersOf(d)) = SumOn(nextSeq[d], Ues))'
  BY DEF BuiltKept
<1>1. \A s \in SendersOf(d) : BuiltBy(s)' = BuiltBy(s)
  BY WorkersOfDir
<1>2. Builts(d)' = Builts(d)
  BY <1>1 DEF Builts
<1> QED  BY <1>2 DEF BuiltKept

LEMMA CheckedStays ==
  ASSUME CheckedKept, UNCHANGED seen, \A r \in Readers : CheckedBy(r)' = CheckedBy(r)
  PROVE  CheckedKept'
<1> SUFFICES ASSUME NEW d \in Dirs PROVE (SumOn(Checkeds(d), ReadersOf(d)) = SumOn(SeenCounts(d), Ues))'
  BY DEF CheckedKept
<1>1. \A r \in ReadersOf(d) : CheckedBy(r)' = CheckedBy(r)
  BY WorkersOfDir
<1>2. Checkeds(d)' = Checkeds(d) /\ SeenCounts(d)' = SeenCounts(d)
  BY <1>1 DEF Checkeds, SeenCounts
<1> QED  BY <1>2 DEF CheckedKept

\* A sender's share and one of its flows grow alike.
LEMMA BuiltGrows ==
  ASSUME Types, CountTypes, PacketsOnce, BuiltKept, NEW s \in Senders, NEW u \in Ues,
         \A t \in Senders : t # s => BuiltBy(t)' = BuiltBy(t),
         BuiltBy(s)' = BuiltBy(s) + 1,
         \A d \in Dirs : \A v \in Ues : d # DirOf(s) \/ v # u => nextSeq'[d][v] = nextSeq[d][v],
         nextSeq'[DirOf(s)][u] = nextSeq[DirOf(s)][u] + 1
  PROVE  BuiltKept'
<1> SUFFICES ASSUME NEW d \in Dirs PROVE (SumOn(Builts(d), SendersOf(d)) = SumOn(nextSeq[d], Ues))'
  BY DEF BuiltKept
<1> DEFINE S == SendersOf(d)
           f == Builts(d)
           g == Builts(d)'
           a == nextSeq[d]
           b == nextSeq'[d]
<1>1. /\ S \in SUBSET Senders /\ IsFiniteSet(S) /\ IsFiniteSet(Ues)
      /\ s \in S <=> DirOf(s) = d
  BY WorkersOfDir
<1>2. \A t \in S : f[t] = BuiltBy(t) /\ g[t] = BuiltBy(t)' /\ f[t] \in Int
  BY <1>1, SumsAreInt DEF Builts
<1>3. \A t \in S : f[t] \in Int /\ (t # s => g[t] = f[t])
  BY <1>1, <1>2
<1>4. s \in S => g[s] = f[s] + 1
  BY <1>2
<1>5. \A v \in Ues : a[v] \in Int /\ (s \notin S \/ v # u => b[v] = a[v])
  BY <1>1, SumsAreInt
<1>6. s \in S => b[u] = a[u] + 1
  BY <1>1
<1>7. SumOn(f, S) = SumOn(a, Ues)
  BY DEF BuiltKept
<1> HIDE DEF S, f, g, a, b
<1>8. SumOn(g, S) = SumOn(b, Ues)
  BY ONLY <1>1, <1>3, <1>4, <1>5, <1>6, <1>7, u \in Ues, s \in Senders, SumsGrow
<1> QED  BY <1>8 DEF g, S, b

\* A reader's share and a flow's handled packets grow alike.
LEMMA CheckedGrows ==
  ASSUME Types, CountTypes, PacketsOnce, CheckedKept, NEW r \in Readers, NEW p, p \in reader[r].batch,
         \A q \in Readers : q # r => CheckedBy(q)' = CheckedBy(q),
         CheckedBy(r)' = CheckedBy(r) + 1,
         seen' = [seen EXCEPT ![p.dir][p.ue] = @ \cup {p.seq}]
  PROVE  CheckedKept'
<1> SUFFICES ASSUME NEW d \in Dirs PROVE (SumOn(Checkeds(d), ReadersOf(d)) = SumOn(SeenCounts(d), Ues))'
  BY DEF CheckedKept
<1> DEFINE S == ReadersOf(d)
           f == Checkeds(d)
           g == Checkeds(d)'
           a == SeenCounts(d)
           b == SeenCounts(d)'
<1>0. PICK u \in Ues : u = p.ue
  BY BatchesArePackets, PacketFields
<1>1. /\ p.dir \in Dirs /\ p.seq \in Nat /\ p.dir = DirOf(r)
      /\ p.seq \notin seen[p.dir][u]
  BY <1>0, BatchesArePackets, PacketFields DEF PacketsOnce, ReaderPackets
<1>2. /\ S \in SUBSET Readers /\ IsFiniteSet(S) /\ IsFiniteSet(Ues)
      /\ r \in S <=> DirOf(r) = d
  BY WorkersOfDir
<1>3. \A q \in S : f[q] = CheckedBy(q) /\ g[q] = CheckedBy(q)' /\ f[q] \in Int
  BY <1>2, SumsAreInt DEF Checkeds
<1>4. \A q \in S : f[q] \in Int /\ (q # r => g[q] = f[q])
  BY <1>2, <1>3
<1>5. r \in S => g[r] = f[r] + 1
  BY <1>3
<1>6. \A v \in Ues : /\ a[v] = Cardinality(seen[d][v]) /\ b[v] = Cardinality(seen'[d][v])
                     /\ a[v] \in Int
                     /\ r \notin S \/ v # u => seen'[d][v] = seen[d][v]
  <2>1. \A v \in Ues : a[v] = Cardinality(seen[d][v]) /\ b[v] = Cardinality(seen'[d][v])
    BY DEF SeenCounts
  <2>2. \A v \in Ues : r \notin S \/ v # u => seen'[d][v] = seen[d][v]
    BY <1>0, <1>1, <1>2 DEF Types, TrafficTypes
  <2>3. \A v \in Ues : Cardinality(seen[d][v]) \in Int
    BY SumsAreInt
  <2> QED  BY <2>1, <2>2, <2>3
<1>7. r \in S => b[u] = a[u] + 1
  <2> SUFFICES ASSUME r \in S PROVE b[u] = a[u] + 1
    OBVIOUS
  <2>1. seen'[d][u] = seen[d][u] \cup {p.seq} /\ p.seq \notin seen[d][u]
    BY <1>0, <1>1, <1>2 DEF Types, TrafficTypes
  <2>2. IsFiniteSet(seen[d][u])
    BY <1>1, SeenFinite DEF PacketsOnce
  <2>3. Cardinality(seen'[d][u]) = Cardinality(seen[d][u]) + 1
    BY <2>1, <2>2, FS_AddElement
  <2> HIDE DEF a, b
  <2> QED  BY <1>1, <1>6, <2>3
<1>8. SumOn(f, S) = SumOn(a, Ues)
  BY DEF CheckedKept
<1>9. \A v \in Ues : a[v] \in Int /\ (r \notin S \/ v # u => b[v] = a[v])
  <2> HIDE DEF a, b, S
  <2> QED  BY <1>6
<1> HIDE DEF S, f, g, a, b
<1>10. SumOn(g, S) = SumOn(b, Ues)
  BY ONLY <1>2, <1>4, <1>5, <1>7, <1>8, <1>9, u \in Ues, r \in Readers, SumsGrow
<1> QED  BY <1>10 DEF g, S, b

\* A sender's step is no business of the others.
LEMMA OthersCountsKept ==
  ASSUME CountsKept, NEW w \in Workers, CountTypes',
         \A v \in Workers \ {w} : acc'[v] = acc[v] /\ stats'[v] = stats[v],
         \A s \in Senders \ {w} : sender'[s] = sender[s],
         \A r \in Readers \ {w} : reader'[r] = reader[r],
         w \in Senders => SenderCounts(w)',
         w \in Readers => ReaderCounts(w)'
  PROVE  /\ CountsKept'
         /\ \A s \in Senders \ {w} : BuiltBy(s)' = BuiltBy(s)
         /\ \A r \in Readers \ {w} : CheckedBy(r)' = CheckedBy(r)
<1>1. ASSUME NEW s \in Senders \ {w} PROVE SenderCounts(s)' /\ BuiltBy(s)' = BuiltBy(s)
  <2>1. SenderCounts(s) /\ acc'[s] = acc[s] /\ stats'[s] = stats[s] /\ sender'[s] = sender[s]
    BY WorkersApart DEF CountsKept
  <2> QED  BY <2>1 DEF SenderCounts, BuiltBy
<1>2. ASSUME NEW r \in Readers \ {w} PROVE ReaderCounts(r)' /\ CheckedBy(r)' = CheckedBy(r)
  <2>1. ReaderCounts(r) /\ acc'[r] = acc[r] /\ stats'[r] = stats[r] /\ reader'[r] = reader[r]
    BY WorkersApart DEF CountsKept
  <2> QED  BY <2>1 DEF ReaderCounts, CheckedBy
<1> QED  BY <1>1, <1>2, WorkersApart DEF CountsKept

LEMMA InitCountsAgree == Init => CountsAgree
<1> SUFFICES ASSUME Init PROVE CountsAgree
  OBVIOUS
<1>1. CountsKept
  <2>1. CountTypes
    BY NoCountsFields DEF Init, CountTypes
  <2>2. \A s \in Senders : SenderCounts(s)
    BY WorkersApart DEF Init, SenderCounts
  <2>3. \A r \in Readers : ReaderCounts(r)
    BY WorkersApart DEF Init, ReaderCounts
  <2> QED  BY <2>1, <2>2, <2>3 DEF CountsKept
<1>2. ASSUME NEW f, NEW S, IsFiniteSet(S), \A x \in S : f[x] = 0 PROVE SumOn(f, S) = 0
  <2> DEFINE B == {t \in SUBSET S : SumOn(f, t) = 0}
  <2>1. {} \in B
    BY SumEmpty DEF SumOn
  <2>2. ASSUME NEW t \in SUBSET S, NEW x \in t, t \ {x} \in B PROVE t \in B
    <3>1. IsFiniteSet(t) /\ 0 \in Int /\ \A y \in t : f[y] \in Int
      BY <1>2, FS_Subset
    <3>2. SumFrom(0, f, t) = f[x] + SumFrom(0, f, t \ {x})
      BY <3>1, SumTake
    <3> QED  BY <1>2, <2>2, <3>2 DEF SumOn
  <2>3. B \in SUBSET SUBSET S
    OBVIOUS
  <2>4. S \in B
    <3> HIDE DEF B
    <3> QED  BY <1>2, <2>1, <2>2, <2>3, SetsByOne
  <2> QED  BY <2>4
<1>3. Cardinality({}) = 0
  BY FS_EmptySet
<1>4. BuiltKept
  <2> SUFFICES ASSUME NEW d \in Dirs PROVE SumOn(Builts(d), SendersOf(d)) = SumOn(nextSeq[d], Ues)
    BY DEF BuiltKept
  <2>1. \A s \in SendersOf(d) : Builts(d)[s] = 0
    <3> SUFFICES ASSUME NEW s \in SendersOf(d) PROVE BuiltBy(s) = 0
      BY DEF Builts
    <3>1. s \in Workers /\ s \in Senders
      BY WorkersOfDir, WorkersApart
    <3>2. acc[s] = NoCounts /\ stats[s] = NoCounts /\ sender[s].pc = "tick" /\ sender[s].batch = {}
      BY <3>1 DEF Init
    <3> QED  BY <1>3, <3>2, NoCountsFields DEF BuiltBy
  <2>2. \A u \in Ues : nextSeq[d][u] = 0
    BY DEF Init
  <2> QED  BY <1>2, <2>1, <2>2, WorkersOfDir
<1>5. CheckedKept
  <2> SUFFICES ASSUME NEW d \in Dirs PROVE SumOn(Checkeds(d), ReadersOf(d)) = SumOn(SeenCounts(d), Ues)
    BY DEF CheckedKept
  <2>1. \A r \in ReadersOf(d) : Checkeds(d)[r] = 0
    <3> SUFFICES ASSUME NEW r \in ReadersOf(d) PROVE CheckedBy(r) = 0
      BY DEF Checkeds
    <3>1. r \in Workers /\ r \in Readers
      BY WorkersOfDir, WorkersApart
    <3>2. acc[r] = NoCounts /\ stats[r] = NoCounts /\ reader[r].pc = "read"
      BY <3>1 DEF Init
    <3> QED  BY <3>2, NoCountsFields DEF CheckedBy
  <2>2. \A u \in Ues : SeenCounts(d)[u] = 0
    BY <1>3 DEF Init, SeenCounts
  <2> QED  BY <1>2, <2>1, <2>2, WorkersOfDir
<1> QED  BY <1>1, <1>4, <1>5 DEF CountsAgree

\* publish moves what a worker has counted into its statistics.
LEMMA PublishedCounts ==
  ASSUME CountTypes, NEW w \in Workers, Published(w)
  PROVE  /\ CountTypes'
         /\ \A v \in Workers \ {w} : acc'[v] = acc[v] /\ stats'[v] = stats[v]
         /\ acc'[w] = NoCounts
         /\ stats'[w].packets = stats[w].packets + acc[w].packets
         /\ stats'[w].errors = stats[w].errors + acc[w].errors
<1> DEFINE x == [c \in DOMAIN stats[w] |-> stats[w][c] + acc[w][c]]
<1>1. stats[w] \in Counts /\ acc[w] \in Counts
  BY CountFields
<1>2. x \in Counts /\ x.packets = stats[w].packets + acc[w].packets /\ x.errors = stats[w].errors + acc[w].errors
  BY <1>1 DEF Counts
<1>3. stats' = [stats EXCEPT ![w] = x] /\ acc' = [acc EXCEPT ![w] = NoCounts]
  BY DEF Published
<1> HIDE DEF x
<1> QED  BY <1>1, <1>2, <1>3, NoCountsFields DEF CountTypes

\* What flush adds to an empty accumulator.
Flushed(n, e) == [packets |-> n, errors |-> e, late |-> 0, misrouted |-> 0]

LEMMA FlushedCounts ==
  ASSUME NEW n \in Nat, NEW e \in Nat
  PROVE  /\ Flushed(n, e) \in Counts /\ Flushed(n, e).packets = n /\ Flushed(n, e).errors = e
         /\ [NoCounts EXCEPT !.packets = @ + n, !.errors = @ + e] = Flushed(n, e)
         /\ Flushed(0, 0) = NoCounts
<1> DEFINE y == [NoCounts EXCEPT !.packets = @ + n, !.errors = @ + e]
<1>1. NoCounts \in Counts /\ NoCounts.packets = 0 /\ NoCounts.errors = 0 /\ NoCounts.late = 0
      /\ NoCounts.misrouted = 0
  BY DEF NoCounts, Counts
<1>2. y \in Counts /\ y.packets = n /\ y.errors = e /\ y.late = 0 /\ y.misrouted = 0
  <2>1. NoCounts.packets + n = n /\ NoCounts.errors + e = e
    BY <1>1
  <2>2. y = [NoCounts EXCEPT !.packets = n, !.errors = e]
    BY <2>1
  <2> QED  BY <1>1, <2>2 DEF Counts
<1>3. Flushed(n, e) \in Counts /\ Flushed(n, e).packets = n /\ Flushed(n, e).errors = e
      /\ Flushed(n, e).late = 0 /\ Flushed(n, e).misrouted = 0
  BY DEF Flushed, Counts
<1> HIDE DEF y
<1>4. y = Flushed(n, e)
  BY <1>2, <1>3 DEF Counts
<1>5. Flushed(0, 0) = NoCounts
  BY DEF Flushed, NoCounts
<1> QED  BY <1>3, <1>4, <1>5 DEF y

LEMMA SenderKeepsCounts ==
  ASSUME Types, OwnFlows, PacketsOnce, CountsAgree, NEW s \in Senders, SenderSteps(s) \/ SenderLeaves(s)
  PROVE  CountsAgree'
<1>1. /\ s \in Workers /\ s \notin Readers /\ CountTypes /\ SenderCounts(s)
      /\ UNCHANGED <<reader, seen>> /\ \A t \in Senders : t # s => sender'[t] = sender[t]
  BY SenderMoves, WorkersApart DEF CountsAgree, CountsKept
<1>2. /\ acc[s].packets \in Nat /\ acc[s].errors \in Nat
      /\ stats[s].packets \in Nat /\ stats[s].errors \in Nat
  BY <1>1, CountFields
<1>3. sender[s] \in SenderState /\ Cardinality(sender[s].batch) \in Nat /\ SenderPackets(s)
  BY <1>1, SumsAreInt DEF Types, TrafficTypes, PacketsOnce
<1>4. ASSUME CountTypes', \A v \in Workers \ {s} : acc'[v] = acc[v] /\ stats'[v] = stats[v],
             SenderCounts(s)', BuiltBy(s)' = BuiltBy(s), nextSeq' = nextSeq
      PROVE  CountsAgree'
  <2>1. /\ CountsKept'
        /\ \A t \in Senders : BuiltBy(t)' = BuiltBy(t)
        /\ \A r \in Readers : CheckedBy(r)' = CheckedBy(r)
    BY <1>1, <1>4, OthersCountsKept DEF CountsAgree
  <2> QED  BY <1>1, <1>4, <2>1, BuiltStays, CheckedStays DEF CountsAgree
<1>5. CASE Tick(s) \/ Load(s) \/ SenderLeaves(s)
  <2>1. /\ UNCHANGED <<acc, stats, nextSeq>>
        /\ sender[s].pc # "publish" /\ sender'[s].pc # "publish" /\ sender'[s].batch = sender[s].batch
    BY <1>3, <1>5 DEF Tick, Load, SenderLeaves, SenderState, Types, TrafficTypes
  <2>2. SenderCounts(s)' /\ BuiltBy(s)' = BuiltBy(s)
    BY <1>1, <2>1 DEF SenderCounts, BuiltBy
  <2>3. CountTypes'
    BY <1>1, <2>1 DEF CountTypes
  <2> QED  BY <1>4, <2>1, <2>2, <2>3
<1>6. CASE SenderPublishes(s)
  <2>1. /\ sender[s].pc = "publish" /\ Published(s) /\ nextSeq' = nextSeq
        /\ sender'[s].pc # "publish" /\ sender'[s].batch = {}
    BY <1>3, <1>6 DEF SenderPublishes, SenderState, Types, TrafficTypes
  <2>2. /\ CountTypes'
        /\ \A v \in Workers \ {s} : acc'[v] = acc[v] /\ stats'[v] = stats[v]
        /\ acc'[s] = NoCounts
        /\ stats'[s].packets = stats[s].packets + acc[s].packets
        /\ stats'[s].errors = stats[s].errors + acc[s].errors
    BY <1>1, <2>1, PublishedCounts
  <2>3. SenderCounts(s)'
    BY <2>1, <2>2 DEF SenderCounts
  <2>4. Cardinality({}) = 0
    BY FS_EmptySet
  <2>5. BuiltBy(s) = stats[s].packets + stats[s].errors + acc[s].packets + acc[s].errors
    BY <1>2, <2>1 DEF BuiltBy
  <2>6. BuiltBy(s)' = stats'[s].packets + stats'[s].errors
    <3>1. acc'[s].packets = 0 /\ acc'[s].errors = 0
      BY <2>2, NoCountsFields
    <3>2. stats'[s].packets \in Nat /\ stats'[s].errors \in Nat
      BY <1>2, <2>2
    <3> QED  BY <2>1, <2>4, <3>1, <3>2 DEF BuiltBy
  <2>7. BuiltBy(s)' = BuiltBy(s)
    BY <1>2, <2>2, <2>5, <2>6
  <2> QED  BY <1>4, <2>1, <2>2, <2>3, <2>7
<1>7. ASSUME NEW sent \in SUBSET sender[s].batch, Flush(s, sent) PROVE CountsAgree'
  <2> DEFINE n == Cardinality(sent)
             e == Cardinality(sender[s].batch \ sent)
  <2>1. /\ sender[s].pc = "fill" /\ UNCHANGED <<stats, nextSeq>>
        /\ acc' = [acc EXCEPT ![s].packets = @ + n, ![s].errors = @ + e]
        /\ sender'[s].pc = IF sender[s].batch = {} THEN "tick" ELSE "publish"
        /\ sender'[s].batch = sender[s].batch
    BY <1>3, <1>7 DEF Flush, SenderState, Types, TrafficTypes
  <2>2. acc[s] = NoCounts
    BY <1>1, <2>1 DEF SenderCounts
  <2>3. n \in Nat /\ e \in Nat /\ n + e = Cardinality(sender[s].batch)
    <3>1. IsFiniteSet(sender[s].batch)
      BY <1>3 DEF SenderPackets
    <3>2. IsFiniteSet(sent) /\ n \in Nat /\ e \in Nat
      BY <3>1, FS_Subset, FS_CardinalityType
    <3>3. e = Cardinality(sender[s].batch) - Cardinality(sender[s].batch \cap sent)
      BY <3>1, FS_Difference
    <3>4. sender[s].batch \cap sent = sent
      BY <1>7
    <3>5. Cardinality(sender[s].batch \cap sent) = n
      BY <3>4
    <3> HIDE DEF n, e
    <3> QED  BY <1>3, <3>2, <3>3, <3>5
  <2>4. sender[s].batch = {} => sender[s].batch \ sent = {} /\ sent = {}
    BY <1>7
  <2>5. sender[s].batch = {} => n = 0 /\ e = 0
    BY <2>4, FS_EmptySet
  <2> HIDE DEF n, e
  <2>6. /\ CountTypes' /\ \A v \in Workers \ {s} : acc'[v] = acc[v]
        /\ acc'[s] = Flushed(n, e)
    <3>1. acc'[s] = [NoCounts EXCEPT !.packets = @ + n, !.errors = @ + e]
      BY <1>1, <2>1, <2>2 DEF CountTypes
    <3>2. acc'[s] = Flushed(n, e) /\ Flushed(n, e) \in Counts
      BY <2>3, <3>1, FlushedCounts
    <3>3. acc' = [acc EXCEPT ![s] = Flushed(n, e)]
      BY <1>1, <2>1, <3>2 DEF CountTypes
    <3> QED  BY <1>1, <2>1, <3>2, <3>3 DEF CountTypes
  <2>7. acc'[s].packets = n /\ acc'[s].errors = e /\ acc[s].packets = 0 /\ acc[s].errors = 0
    <3>1. Flushed(n, e).packets = n /\ Flushed(n, e).errors = e
      BY <2>3, FlushedCounts
    <3>2. acc[s].packets = 0 /\ acc[s].errors = 0
      BY <2>2, NoCountsFields
    <3> QED  BY <2>6, <3>1, <3>2
  <2>8. CASE sender[s].batch = {}
    <3>1. acc'[s] = NoCounts
      BY <2>5, <2>6, <2>8, FlushedCounts
    <3>2. sender'[s].pc = "tick"
      BY <2>1, <2>8
    <3>3. SenderCounts(s)'
      BY <3>1, <3>2 DEF SenderCounts
    <3>4. BuiltBy(s)' = BuiltBy(s)
      BY <2>1, <2>2, <3>1, <3>2 DEF BuiltBy
    <3> QED  BY <1>4, <2>1, <2>6, <3>3, <3>4
  <2>9. CASE sender[s].batch # {}
    <3>1. sender'[s].pc = "publish"
      BY <2>1, <2>9
    <3>2. SenderCounts(s)'
      BY <2>1, <2>3, <2>7, <3>1 DEF SenderCounts
    <3>3. BuiltBy(s)' = stats[s].packets + stats[s].errors + n + e
      BY <1>2, <2>1, <2>3, <2>7, <3>1 DEF BuiltBy
    <3>4. BuiltBy(s) = stats[s].packets + stats[s].errors + Cardinality(sender[s].batch)
      BY <1>2, <1>3, <2>1, <2>7 DEF BuiltBy
    <3>5. BuiltBy(s)' = BuiltBy(s)
      BY <1>2, <1>3, <2>3, <3>3, <3>4
    <3> QED  BY <1>4, <2>1, <2>6, <3>2, <3>5
  <2> QED  BY <2>8, <2>9
<1>8. ASSUME NEW u \in Ues, Add(s, u) PROVE CountsAgree'
  <2>1. /\ sender[s].pc = "fill" /\ UNCHANGED <<acc, stats>>
        /\ nextSeq' = [nextSeq EXCEPT ![DirOf(s)][u] = @ + 1]
        /\ sender'[s].pc = "fill"
    BY <1>3, <1>8 DEF Add, SenderState, Types, TrafficTypes
  <2>2. Cardinality(sender'[s].batch) = Cardinality(sender[s].batch) + 1
    BY <1>8, AddKeepsPackets
  <2>3. SenderCounts(s)'
    BY <1>1, <2>1 DEF SenderCounts
  <2>4. CountTypes'
    BY <1>1, <2>1 DEF CountTypes
  <2>5. /\ CountsKept'
        /\ \A t \in Senders : t # s => BuiltBy(t)' = BuiltBy(t)
        /\ \A r \in Readers : CheckedBy(r)' = CheckedBy(r)
    BY <1>1, <2>1, <2>3, <2>4, OthersCountsKept DEF CountsAgree
  <2>6. BuiltBy(s)' = BuiltBy(s) + 1
    <3>1. BuiltBy(s) = stats[s].packets + stats[s].errors + acc[s].packets + acc[s].errors
                       + Cardinality(sender[s].batch)
      BY <2>1 DEF BuiltBy
    <3>2. BuiltBy(s)' = stats[s].packets + stats[s].errors + acc[s].packets + acc[s].errors
                        + Cardinality(sender'[s].batch)
      BY <2>1 DEF BuiltBy
    <3> QED  BY <1>2, <1>3, <2>2, <3>1, <3>2
  <2>7. /\ \A d \in Dirs : \A v \in Ues : d # DirOf(s) \/ v # u => nextSeq'[d][v] = nextSeq[d][v]
        /\ nextSeq'[DirOf(s)][u] = nextSeq[DirOf(s)][u] + 1
    BY <2>1, DirIsOne DEF Types, TrafficTypes
  <2>8. BuiltKept'
    BY <1>1, <2>5, <2>6, <2>7, BuiltGrows DEF CountsAgree
  <2> QED  BY <1>1, <2>5, <2>8, CheckedStays DEF CountsAgree
<1> QED  BY <1>5, <1>6, <1>7, <1>8 DEF SenderSteps

\* Counting one packet more, a late one, or one of another tunnel.
LEMMA OneMore ==
  ASSUME CountTypes, NEW w \in Workers
  PROVE  /\ \A c \in {"late", "misrouted"} :
                LET x == [acc EXCEPT ![w][c] = @ + 1]
                IN  /\ x \in [Workers -> Counts] /\ x[w].packets = acc[w].packets
                    /\ \A v \in Workers \ {w} : x[v] = acc[v]
         /\ LET x == [acc EXCEPT ![w].packets = @ + 1]
            IN  /\ x \in [Workers -> Counts] /\ x[w].packets = acc[w].packets + 1
                /\ \A v \in Workers \ {w} : x[v] = acc[v]
         /\ LET x == [acc EXCEPT ![w].packets = @ + 1, ![w].late = @ + 1]
            IN  /\ x \in [Workers -> Counts] /\ x[w].packets = acc[w].packets + 1
                /\ \A v \in Workers \ {w} : x[v] = acc[v]
<1>1. acc[w] \in Counts /\ acc \in [Workers -> Counts]
  BY CountFields DEF CountTypes
<1> DEFINE p == acc[w].packets + 1
           l == acc[w].late + 1
           m == acc[w].misrouted + 1
<1>2. p \in Nat /\ l \in Nat /\ m \in Nat
  BY <1>1 DEF Counts
<1> HIDE DEF p, l, m
<1>3. /\ [acc[w] EXCEPT !.late = l] \in Counts /\ [acc[w] EXCEPT !.late = l].packets = acc[w].packets
      /\ [acc[w] EXCEPT !.misrouted = m] \in Counts
      /\ [acc[w] EXCEPT !.misrouted = m].packets = acc[w].packets
      /\ [acc[w] EXCEPT !.packets = p] \in Counts /\ [acc[w] EXCEPT !.packets = p].packets = p
      /\ [acc[w] EXCEPT !.packets = p, !.late = l] \in Counts
      /\ [acc[w] EXCEPT !.packets = p, !.late = l].packets = p
  BY <1>1, <1>2 DEF Counts
<1>4. \A x \in Counts : /\ [acc EXCEPT ![w] = x] \in [Workers -> Counts] /\ [acc EXCEPT ![w] = x][w] = x
                        /\ \A v \in Workers \ {w} : [acc EXCEPT ![w] = x][v] = acc[v]
  BY <1>1
<1>5. /\ [acc EXCEPT ![w].late = @ + 1] = [acc EXCEPT ![w] = [acc[w] EXCEPT !.late = l]]
      /\ [acc EXCEPT ![w].misrouted = @ + 1] = [acc EXCEPT ![w] = [acc[w] EXCEPT !.misrouted = m]]
      /\ [acc EXCEPT ![w].packets = @ + 1] = [acc EXCEPT ![w] = [acc[w] EXCEPT !.packets = p]]
      /\ [acc EXCEPT ![w].packets = @ + 1, ![w].late = @ + 1] =
             [acc EXCEPT ![w] = [acc[w] EXCEPT !.packets = p, !.late = l]]
  BY <1>1 DEF p, l, m
<1> QED  BY <1>3, <1>4, <1>5 DEF p

LEMMA ReaderKeepsCounts ==
  ASSUME Types, PacketsOnce, CountsAgree, NEW r \in Readers, ReaderSteps(r) \/ Reads(r)
  PROVE  CountsAgree'
<1>1. /\ r \in Workers /\ r \notin Senders /\ CountTypes /\ ReaderCounts(r)
      /\ UNCHANGED <<sender, nextSeq>> /\ \A q \in Readers : q # r => reader'[q] = reader[q]
  BY ReaderMoves, WorkersApart DEF CountsAgree, CountsKept
<1>2. acc[r].packets \in Nat /\ stats[r].packets \in Nat
  BY <1>1, CountFields
<1>3. reader[r] \in ReaderState /\ reader \in [Readers -> ReaderState]
  BY DEF Types, TrafficTypes
<1>4. ASSUME CountTypes', \A v \in Workers \ {r} : acc'[v] = acc[v] /\ stats'[v] = stats[v],
             ReaderCounts(r)'
      PROVE  /\ CountsKept' /\ BuiltKept'
             /\ \A q \in Readers : q # r => CheckedBy(q)' = CheckedBy(q)
  <2>1. /\ CountsKept'
        /\ \A s \in Senders : BuiltBy(s)' = BuiltBy(s)
        /\ \A q \in Readers : q # r => CheckedBy(q)' = CheckedBy(q)
    BY <1>1, <1>4, OthersCountsKept DEF CountsAgree
  <2> QED  BY <1>1, <2>1, BuiltStays DEF CountsAgree
<1>5. ASSUME CountTypes', \A v \in Workers \ {r} : acc'[v] = acc[v] /\ stats'[v] = stats[v],
             ReaderCounts(r)', CheckedBy(r)' = CheckedBy(r), seen' = seen
      PROVE  CountsAgree'
  BY <1>4, <1>5, CheckedStays DEF CountsAgree
<1>6. ASSUME CountTypes', \A v \in Workers \ {r} : acc'[v] = acc[v] /\ stats'[v] = stats[v],
             ReaderCounts(r)', CheckedBy(r)' = CheckedBy(r) + 1,
             NEW p, p \in reader[r].batch, seen' = [seen EXCEPT ![p.dir][p.ue] = @ \cup {p.seq}]
      PROVE  CountsAgree'
  BY <1>1, <1>4, <1>6, CheckedGrows DEF CountsAgree
<1>7. CASE Reads(r) \/ ReaderLeaves(r)
  <2>1. /\ UNCHANGED <<acc, stats, seen>> /\ reader[r].pc = "read" /\ reader'[r].pc # "cas"
    BY <1>3, <1>7 DEF Reads, Read, ReaderLeaves, ReaderState
  <2>2. ReaderCounts(r)' /\ CheckedBy(r)' = CheckedBy(r)
    BY <1>1, <2>1 DEF ReaderCounts, CheckedBy
  <2>3. CountTypes'
    BY <1>1, <2>1 DEF CountTypes
  <2> QED  BY <1>5, <2>1, <2>2, <2>3
<1>8. CASE ReaderPublishes(r)
  <2>1. Published(r) /\ reader[r].pc = "handle" /\ reader'[r].pc = "read" /\ seen' = seen
    BY <1>3, <1>8 DEF ReaderPublishes, ReaderState
  <2>2. /\ CountTypes'
        /\ \A v \in Workers \ {r} : acc'[v] = acc[v] /\ stats'[v] = stats[v]
        /\ acc'[r] = NoCounts
        /\ stats'[r].packets = stats[r].packets + acc[r].packets
    BY <1>1, <2>1, PublishedCounts
  <2>3. CheckedBy(r)' = CheckedBy(r)
    <3>1. acc'[r].packets = 0 /\ stats'[r].packets \in Nat
      BY <1>2, <2>2, NoCountsFields
    <3> QED  BY <1>2, <2>1, <2>2, <3>1 DEF CheckedBy
  <2> QED  BY <1>5, <2>1, <2>2, <2>3 DEF ReaderCounts
<1>9. ASSUME NEW p \in reader[r].batch, Receive(r, p) PROVE CountsAgree'
  <2>1. reader[r].pc = "handle" /\ stats' = stats
    BY <1>9 DEF Receive
  <2>2. CASE Unknown(r, p)
    <3>1. reader'[r].pc = "handle" /\ UNCHANGED <<acc, seen>>
      BY <1>3, <2>1, <2>2 DEF Unknown, ReaderState
    <3>2. ReaderCounts(r)' /\ CheckedBy(r)' = CheckedBy(r) /\ CountTypes'
      BY <1>1, <2>1, <3>1 DEF ReaderCounts, CheckedBy, CountTypes
    <3> QED  BY <1>5, <2>1, <3>1, <3>2
  <2>3. CASE Misrouted(r, p)
    <3>1. /\ reader'[r].pc = "handle" /\ seen' = seen
          /\ acc' = [acc EXCEPT ![r].misrouted = @ + 1]
      BY <1>3, <2>1, <2>3 DEF Misrouted, ReaderState
    <3>2. /\ acc' \in [Workers -> Counts] /\ acc'[r].packets = acc[r].packets
          /\ \A v \in Workers \ {r} : acc'[v] = acc[v]
      BY <1>1, <3>1, OneMore
    <3>3. ReaderCounts(r)' /\ CheckedBy(r)' = CheckedBy(r) /\ CountTypes'
      BY <1>1, <2>1, <3>1, <3>2 DEF ReaderCounts, CheckedBy, CountTypes
    <3> QED  BY <1>5, <2>1, <3>1, <3>2, <3>3
  <2>4. CASE Late(r, p)
    <3>1. /\ reader'[r].pc = "handle" /\ seen' = [seen EXCEPT ![p.dir][p.ue] = @ \cup {p.seq}]
          /\ acc' = [acc EXCEPT ![r].packets = @ + 1, ![r].late = @ + 1]
      BY <1>3, <2>1, <2>4 DEF Late, Handled, ReaderState
    <3>2. /\ acc' \in [Workers -> Counts] /\ acc'[r].packets = acc[r].packets + 1
          /\ \A v \in Workers \ {r} : acc'[v] = acc[v]
      BY <1>1, <3>1, OneMore
    <3>3. ReaderCounts(r)' /\ CountTypes'
      BY <1>1, <2>1, <3>1, <3>2 DEF ReaderCounts, CountTypes
    <3>4. CheckedBy(r)' = CheckedBy(r) + 1
      BY <1>2, <2>1, <3>1, <3>2 DEF CheckedBy
    <3> QED  BY <1>6, <2>1, <3>1, <3>2, <3>3, <3>4
  <2>5. CASE Newer(r, p)
    <3>1. /\ reader'[r].pc = "cas" /\ seen' = seen
          /\ acc' = [acc EXCEPT ![r].packets = @ + 1]
      BY <1>3, <2>1, <2>5 DEF Newer, ReaderState
    <3>2. /\ acc' \in [Workers -> Counts] /\ acc'[r].packets = acc[r].packets + 1
          /\ \A v \in Workers \ {r} : acc'[v] = acc[v]
      BY <1>1, <3>1, OneMore
    <3>3. ReaderCounts(r)' /\ CountTypes'
      BY <1>1, <2>1, <3>1, <3>2 DEF ReaderCounts, CountTypes
    <3>4. CheckedBy(r)' = CheckedBy(r)
      BY <1>2, <2>1, <3>1, <3>2 DEF CheckedBy
    <3> QED  BY <1>5, <2>1, <3>1, <3>2, <3>3, <3>4
  <2> QED  BY <1>9, <2>2, <2>3, <2>4, <2>5 DEF Receive
<1>10. CASE CompareAndSwap(r)
  <2> DEFINE p == reader[r].pkt
             Done == [reader EXCEPT ![r].pc = "handle", ![r].pkt = None, ![r].prev = -1,
                                    ![r].batch = @ \ {p}]
  <2>1. /\ reader[r].pc = "cas" /\ stats' = stats
        /\ \/ reader' = Done /\ seen' = [seen EXCEPT ![p.dir][p.ue] = @ \cup {p.seq}] /\ acc' = acc
           \/ /\ acc' = [acc EXCEPT ![r].late = @ + 1]
              /\ reader' = Done /\ seen' = [seen EXCEPT ![p.dir][p.ue] = @ \cup {p.seq}]
           \/ reader' = [reader EXCEPT ![r].prev = last[p.dir][p.ue]] /\ UNCHANGED <<acc, seen>>
    BY <1>10 DEF CompareAndSwap, Handled
  <2>2. p \in reader[r].batch
    BY <2>1 DEF PacketsOnce, ReaderWaits
  <2>3. Done[r].pc = "handle"
    BY <1>3 DEF ReaderState
  <2>4. acc' = acc \/ acc' = [acc EXCEPT ![r].late = @ + 1]
    BY <2>1
  <2>5. /\ acc' \in [Workers -> Counts] /\ acc'[r].packets = acc[r].packets
        /\ \A v \in Workers \ {r} : acc'[v] = acc[v]
    <3>1. CASE acc' = acc
      BY <1>1, <3>1 DEF CountTypes
    <3>2. CASE acc' = [acc EXCEPT ![r].late = @ + 1]
      BY <1>1, <3>2, OneMore
    <3> QED  BY <2>4, <3>1, <3>2
  <2>6. CountTypes'
    BY <1>1, <2>1, <2>5 DEF CountTypes
  <2>7. CASE reader' = Done /\ seen' = [seen EXCEPT ![p.dir][p.ue] = @ \cup {p.seq}]
    <3>1. reader'[r].pc = "handle"
      BY <2>3, <2>7
    <3>2. ReaderCounts(r)'
      BY <3>1 DEF ReaderCounts
    <3> HIDE DEF p
    <3>3. CheckedBy(r)' = CheckedBy(r) + 1
      <4>1. /\ stats' = stats /\ acc'[r].packets = acc[r].packets
        BY <2>1, <2>5
      <4>2. CheckedBy(r) = stats[r].packets + acc[r].packets - 1
        BY ONLY <2>1 DEF CheckedBy
      <4>3. CheckedBy(r)' = stats'[r].packets + acc'[r].packets - 0
        BY ONLY <3>1 DEF CheckedBy
      <4>4. CheckedBy(r)' = stats[r].packets + acc[r].packets - 0
        BY ONLY <4>1, <4>3
      <4> QED  BY ONLY <1>2, <4>2, <4>4
    <3> QED  BY <1>6, <2>1, <2>2, <2>5, <2>6, <2>7, <3>2, <3>3
  <2>8. CASE reader' = [reader EXCEPT ![r].prev = last[p.dir][p.ue]] /\ UNCHANGED <<acc, seen>>
    <3>1. reader'[r].pc = "cas"
      BY <1>3, <2>1, <2>8 DEF ReaderState
    <3>2. ReaderCounts(r)' /\ CheckedBy(r)' = CheckedBy(r)
      BY <2>1, <2>8, <3>1 DEF ReaderCounts, CheckedBy
    <3> QED  BY <1>5, <2>1, <2>5, <2>6, <2>8, <3>2
  <2> QED  BY <2>1, <2>7, <2>8
<1> QED  BY <1>7, <1>8, <1>9, <1>10 DEF ReaderSteps

LEMMA StepCountsAgree == Types /\ OwnFlows /\ PacketsOnce /\ CountsAgree /\ [Next]_vars => CountsAgree'
<1> SUFFICES ASSUME Types, OwnFlows, PacketsOnce, CountsAgree, [Next]_vars PROVE CountsAgree'
  OBVIOUS
<1>1. ASSUME UNCHANGED trafficVars PROVE CountsAgree'
  BY <1>1 DEF trafficVars, CountsAgree, CountsKept, CountTypes, BuiltKept, CheckedKept, SenderCounts,
     ReaderCounts, Builts, Checkeds, SeenCounts, BuiltBy, CheckedBy
<1>2. ASSUME NEW u \in Ues, AddUe(u) \/ Activates(u) PROVE UNCHANGED trafficVars
  BY <1>2 DEF AddUe, Activates, ActivateCheck, StoreFlow, ShardAdd, ShardBump
<1>3. CASE SamplerSteps \/ SamplerTicks \/ StopBegins \/ StopSteps \/ UNCHANGED vars
  BY <1>1, <1>3, OthersKeepTraffic
<1> QED  BY <1>1, <1>2, <1>3, SenderKeepsCounts, ReaderKeepsCounts DEF Next

\* What is counted, what is about to be, and what was built or checked agree at every step.
THEOREM CountsAgreeAlways == Spec => []CountsAgree
<1>1. Types /\ OwnFlows /\ PacketsOnce /\ CountsAgree /\ [Next]_vars => CountsAgree'
  BY StepCountsAgree
<1> QED  BY <1>1, InitCountsAgree, TypesAlways, PacketsOnceAlways, PTL DEF Spec

\* What is left in no accumulator is all in the statistics.
LEMMA AllPublished ==
  ASSUME Types, StopOrder, PacketsOnce, CountsAgree
  PROVE  CountersComplete
<1> SUFFICES ASSUME stop = "done"
             PROVE  /\ \A d \in Dirs :
                           /\ Total("packets", SendersOf(d)) + Total("errors", SendersOf(d)) = Built(d)
                           /\ Total("packets", ReadersOf(d)) = Checked(d)
                    /\ \A w \in Workers : acc[w] = NoCounts
  BY DEF CountersComplete
<1>1. (\A s \in Senders : sender[s].pc = "gone") /\ (\A r \in Readers : reader[r].pc = "gone")
  BY DEF StopOrder
<1>2. ASSUME NEW w \in Workers PROVE acc[w] = NoCounts
  BY <1>1, WorkersApart DEF CountsAgree, CountsKept, SenderCounts, ReaderCounts
<1>3. ASSUME NEW d \in Dirs
      PROVE  /\ Total("packets", SendersOf(d)) + Total("errors", SendersOf(d)) = Built(d)
             /\ Total("packets", ReadersOf(d)) = Checked(d)
  <2> DEFINE S == SendersOf(d)
             R == ReadersOf(d)
             f == [w \in S |-> stats[w].packets]
             g == [w \in S |-> stats[w].errors]
             h == Builts(d)
             k == [w \in R |-> stats[w].packets]
             l == Checkeds(d)
  <2>1. S \subseteq Senders /\ R \subseteq Readers /\ IsFiniteSet(S) /\ IsFiniteSet(R)
    BY WorkersOfDir
  <2>2. ASSUME NEW s \in S PROVE f[s] \in Int /\ g[s] \in Int /\ h[s] = f[s] + g[s]
    <3>1. s \in Workers /\ s \in Senders /\ acc[s] = NoCounts /\ sender[s].pc = "gone"
      BY <1>1, <1>2, <2>1, WorkersApart
    <3>2. stats[s].packets \in Nat /\ stats[s].errors \in Nat
      BY <3>1, CountFields DEF CountsAgree, CountsKept
    <3>3. Cardinality(sender[s].batch) = 0
      BY <3>1, FS_EmptySet DEF PacketsOnce, SenderPackets
    <3>4. acc[s].packets = 0 /\ acc[s].errors = 0
      BY <3>1, NoCountsFields
    <3>5. BuiltBy(s) = stats[s].packets + stats[s].errors
      BY <3>1, <3>2, <3>3, <3>4 DEF BuiltBy
    <3> QED  BY <3>2, <3>5 DEF Builts
  <2>3. ASSUME NEW r \in R PROVE l[r] = k[r]
    <3>1. r \in Workers /\ r \in Readers /\ acc[r] = NoCounts /\ reader[r].pc = "gone"
      BY <1>1, <1>2, <2>1, WorkersApart
    <3>2. stats[r].packets \in Nat /\ acc[r].packets = 0
      BY <3>1, CountFields, NoCountsFields DEF CountsAgree, CountsKept
    <3>3. CheckedBy(r) = stats[r].packets
      BY <3>1, <3>2 DEF CheckedBy
    <3> QED  BY <3>3 DEF Checkeds
  <2>4. SumOn(h, S) = SumOn(nextSeq[d], Ues) /\ SumOn(l, R) = SumOn(SeenCounts(d), Ues)
    BY DEF CountsAgree, BuiltKept, CheckedKept
  <2>5. /\ Total("packets", SendersOf(d)) = SumOn(f, S) /\ Total("errors", SendersOf(d)) = SumOn(g, S)
        /\ Total("packets", ReadersOf(d)) = SumOn(k, R)
        /\ Built(d) = SumOn(nextSeq[d], Ues) /\ Checked(d) = SumOn(SeenCounts(d), Ues)
    BY DEF Total, Built, Checked, SumOn, SumFrom, SeenCounts
  <2> HIDE DEF S, R, f, g, h, k, l
  <2>6. SumOn(h, S) = SumOn(f, S) + SumOn(g, S)
    BY <2>1, <2>2, SumAdd
  <2>7. SumOn(l, R) = SumOn(k, R)
    BY <2>1, <2>3, SumSame DEF SumOn
  <2> QED  BY <2>4, <2>5, <2>6, <2>7
<1> QED  BY <1>2, <1>3

-----------------------------------------------------------------------------
(* The rate curve.                                                         *)

\* Samples are taken one after the other, and the last one has every packet.
SamplesOrdered ==
    /\ SampleTypes /\ StopTypes
    /\ sampler = "first" => prev = 0 /\ base = 0
    /\ prev <= SentPackets
    /\ sampler = "commit" => prev <= taken["sampler"] /\ taken["sampler"] <= SentPackets
    /\ stop = "commit" => taken["stop"] = SentPackets
    /\ stop = "done" => prev = SentPackets

\* What each uplink sender has published.
Sents == [s \in UlSenders |-> stats[s].packets]

LEMMA SentSum == SentPackets = SumFrom(0, Sents, UlSenders)
  BY DEF SentPackets, SumFrom, Sents

LEMMA SentIsSum ==
  ASSUME CountTypes
  PROVE  /\ SentPackets = SumFrom(0, Sents, UlSenders) /\ SentPackets \in Int
         /\ IsFiniteSet(UlSenders) /\ UlSenders \subseteq Workers
         /\ \A s \in UlSenders : Sents[s] = stats[s].packets /\ Sents[s] \in Nat
<1>1. IsFiniteSet(UlSenders) /\ UlSenders \subseteq Workers
  BY DataplaneOK DEF Workers, Senders
<1>2. \A s \in UlSenders : Sents[s] = stats[s].packets /\ Sents[s] \in Nat
  BY <1>1, CountFields DEF Sents
<1>3. SentPackets = SumFrom(0, Sents, UlSenders)
  BY SentSum
<1>4. 0 \in Int /\ \A s \in UlSenders : Sents[s] \in Int
  BY <1>2
<1>5. SumFrom(0, Sents, UlSenders) \in Int
  BY <1>1, <1>4, SumInt
<1> QED  BY <1>1, <1>2, <1>3, <1>5

\* The counters never fall.
LEMMA SentGrows ==
  ASSUME CountTypes, CountTypes', NEW w \in Workers,
         \A v \in Workers \ {w} : stats'[v] = stats[v],
         stats'[w].packets >= stats[w].packets
  PROVE  SentPackets <= SentPackets'
<1> DEFINE f == Sents
           g == Sents'
<1>1. /\ SentPackets = SumFrom(0, f, UlSenders) /\ SentPackets \in Int
      /\ IsFiniteSet(UlSenders) /\ UlSenders \subseteq Workers
      /\ \A s \in UlSenders : f[s] = stats[s].packets /\ f[s] \in Nat
  BY SentIsSum
<1>2. /\ SentPackets' = SumFrom(0, g, UlSenders)
      /\ \A s \in UlSenders : g[s] = stats'[s].packets /\ g[s] \in Nat
  <2>1. \A s \in UlSenders : g[s] = stats'[s].packets
    BY DEF Sents
  <2>2. \A s \in Workers : stats'[s].packets \in Nat
    BY DEF CountTypes, Counts
  <2>3. (SentPackets = SumFrom(0, Sents, UlSenders))'
    BY SentSum, PTL
  <2> QED  BY <1>1, <2>1, <2>2, <2>3
<1> HIDE DEF f, g
<1>3. CASE w \in UlSenders
  <2>1. \A s \in UlSenders : f[s] \in Int
    BY <1>1
  <2>2. g[w] \in Int /\ 0 \in Int /\ \A s \in UlSenders \ {w} : g[s] = f[s]
    BY <1>1, <1>2, <1>3
  <2>3. SumFrom(0, g, UlSenders) = SumFrom(0, f, UlSenders) + (g[w] - f[w])
    BY <1>1, <1>3, <2>1, <2>2, SumAt
  <2>4. g[w] \in Nat /\ f[w] \in Nat /\ g[w] >= f[w]
    BY <1>1, <1>2, <1>3
  <2> QED  BY <1>1, <1>2, <2>3, <2>4
<1>4. CASE w \notin UlSenders
  <2>1. \A s \in UlSenders : f[s] = g[s]
    BY <1>1, <1>2, <1>4
  <2>2. SumFrom(0, f, UlSenders) = SumFrom(0, g, UlSenders)
    BY <1>1, <2>1, SumSame
  <2> QED  BY <1>1, <1>2, <2>2
<1> QED  BY <1>3, <1>4

LEMMA PublishedGrows ==
  ASSUME CountTypes, CountTypes', NEW w \in Workers, Published(w)
  PROVE  SentPackets <= SentPackets'
<1>1. /\ \A v \in Workers \ {w} : stats'[v] = stats[v]
      /\ stats'[w].packets = stats[w].packets + acc[w].packets
  BY PublishedCounts
<1>2. stats'[w].packets >= stats[w].packets
  BY <1>1, CountFields
<1> QED  BY <1>1, <1>2, SentGrows

LEMMA SentStays == ASSUME UNCHANGED stats PROVE SentPackets' = SentPackets
<1>1. Sents' = Sents
  BY DEF Sents
<1>2. (SentPackets = SumFrom(0, Sents, UlSenders))'
  BY SentSum, PTL
<1> QED  BY <1>1, <1>2, SentSum

LEMMA TrafficGrows ==
  ASSUME Types, CountTypes, CountTypes', NEW w \in Workers,
         \/ w \in Senders /\ (SenderSteps(w) \/ SenderLeaves(w))
         \/ w \in Readers /\ (ReaderSteps(w) \/ Reads(w))
  PROVE  SentPackets <= SentPackets' /\ UNCHANGED <<stopVars, sampleVars>>
<1>1. CASE w \in Senders /\ (SenderSteps(w) \/ SenderLeaves(w))
  <2>1. UNCHANGED stats \/ Published(w)
    BY <1>1 DEF SenderSteps, Tick, Load, SenderPublishes, SenderLeaves, Add, Flush
  <2> QED  BY <1>1, <2>1, SenderMoves, SentStays, PublishedGrows, SentIsSum
<1>2. CASE w \in Readers /\ (ReaderSteps(w) \/ Reads(w))
  <2>1. UNCHANGED stats \/ Published(w)
    BY <1>2 DEF ReaderSteps, Reads, Read, ReaderLeaves, ReaderPublishes, CompareAndSwap, Receive
  <2> QED  BY <1>2, <2>1, ReaderMoves, SentStays, PublishedGrows, SentIsSum
<1> QED  BY <1>1, <1>2

\* The history's values; the sum of its points; one that has room for a point and a sample.
Curves == [width : Nat, done : Seq(Int), sum : Int, filled : Nat]
CurveSum(h) == SumFrom(h.sum, h.done, DOMAIN h.done)
GoodCurve(h) ==
    /\ h \in Curves
    /\ h.sum >= 0 /\ \A i \in DOMAIN h.done : h.done[i] >= 0
    /\ Len(h.done) < HistoryPoints /\ h.filled < h.width

LEMMA CurveIsSum == \A h : FoldFunction(+, h.sum, h.done) = CurveSum(h)
  BY DEF FoldFunction, CurveSum, SumFrom, FoldFunctionOnSet

LEMMA SumOfSeq ==
  ASSUME NEW b \in Int, NEW d \in Seq(Int)
  PROVE  /\ SumFrom(b, d, DOMAIN d) = b + SumOn(d, DOMAIN d)
         /\ SumOn(d, DOMAIN d) \in Int
<1>1. DOMAIN d = 1..Len(d) /\ Len(d) \in Nat /\ \A i \in DOMAIN d : d[i] \in Int
  OBVIOUS
<1>2. IsFiniteSet(DOMAIN d)
  BY <1>1, FS_Interval
<1>3. 0 \in Int
  OBVIOUS
<1>4. SumFrom(0, d, DOMAIN d) \in Int
  BY <1>1, <1>2, <1>3, SumInt
<1> QED  BY <1>1, <1>2, <1>4, SumBase DEF SumOn

\* Halving a curve leaves its sum as it is.
LEMMA HalvedSum ==
  ASSUME NEW d \in Seq(Int), Len(d) = HistoryPoints, \A i \in DOMAIN d : d[i] >= 0
  PROVE  /\ Halved(d) \in Seq(Int) /\ Len(Halved(d)) < HistoryPoints
         /\ \A i \in DOMAIN Halved(d) : Halved(d)[i] >= 0
         /\ SumOn(Halved(d), DOMAIN Halved(d)) = SumOn(d, DOMAIN d)
<1>1. PICK n \in Nat : n = HistoryPoints \div 2 /\ HistoryPoints = 2 * n /\ n < HistoryPoints
  BY DataplaneOK
<1>2. Halved(d) = [i \in 1..n |-> d[2 * i - 1] + d[2 * i]]
  BY <1>1 DEF Halved
<1> DEFINE h == [i \in 1..n |-> d[2 * i - 1] + d[2 * i]]
<1>3. DOMAIN d = 1..(2 * n) /\ \A i \in 1..(2 * n) : d[i] \in Int /\ d[i] >= 0
  BY <1>1
<1>4. ASSUME NEW i \in 1..n PROVE 2 * i - 1 \in 1..(2 * n) /\ 2 * i \in 1..(2 * n)
  BY <1>4
<1>5. ASSUME NEW i \in 1..n
      PROVE  /\ h[i] = d[2 * i - 1] + d[2 * i]
             /\ h[i] \in Int /\ h[i] >= 0
  BY <1>3, <1>4
<1>6. DOMAIN h = 1..n
  OBVIOUS
<1> HIDE DEF h
<1>7. SumOn(h, 1..n) = SumOn(d, 1..(2 * n))
  <2>1. \A i \in 1..(2 * n) : d[i] \in Int
    BY <1>3
  <2>2. \A i \in 1..n : h[i] = d[2 * i - 1] + d[2 * i]
    BY <1>5
  <2> QED  BY <2>1, <2>2, SumPairs
<1>8. h \in Seq(Int) /\ Len(h) = n
  <2>1. h \in [1..n -> Int]
    BY <1>5, <1>6 DEF h
  <2> QED  BY <2>1, <1>6
<1>9. h = Halved(d)
  BY <1>2 DEF h
<1> QED  BY <1>1, <1>3, <1>5, <1>6, <1>7, <1>8, <1>9

\* However it is extended, a curve covers one sample more, and keeps its bounds.
LEMMA ExtendedKept ==
  ASSUME NEW h, GoodCurve(h), NEW x \in Nat
  PROVE  GoodCurve(Extended(h, x)) /\ CurveSum(Extended(h, x)) = CurveSum(h) + x
<1> DEFINE sum  == h.sum + x
           done == Append(h.done, sum)
           e    == Extended(h, x)
<1>1. /\ h.width \in Nat /\ h.done \in Seq(Int) /\ h.sum \in Int /\ h.filled \in Nat /\ h \in Curves
      /\ h.sum >= 0 /\ \A i \in DOMAIN h.done : h.done[i] >= 0
      /\ Len(h.done) < HistoryPoints /\ h.filled < h.width /\ Len(h.done) \in Nat
      /\ HistoryPoints \in Nat
  BY DataplaneOK DEF GoodCurve, Curves
<1>2. sum \in Int /\ sum >= 0 /\ sum = h.sum + x
  BY <1>1
<1>3. CurveSum(h) = h.sum + SumOn(h.done, DOMAIN h.done) /\ SumOn(h.done, DOMAIN h.done) \in Int
  BY <1>1, SumOfSeq DEF CurveSum
<1>4. /\ e = IF h.filled + 1 < h.width THEN [h EXCEPT !.sum = sum, !.filled = h.filled + 1]
             ELSE IF Len(done) < HistoryPoints THEN [h EXCEPT !.done = done, !.sum = 0, !.filled = 0]
             ELSE [width |-> 2 * h.width, done |-> Halved(done), sum |-> 0, filled |-> 0]
  BY DEF Extended
<1>5. /\ done \in Seq(Int) /\ Len(done) = Len(h.done) + 1
      /\ \A i \in DOMAIN done : done[i] >= 0
  <2>1. done \in Seq(Int) /\ Len(done) = Len(h.done) + 1
    BY <1>1, <1>2
  <2>2. ASSUME NEW i \in DOMAIN done PROVE done[i] >= 0
    <3>1. i \in 1..(Len(h.done) + 1)
      BY <2>1
    <3>2. CASE i = Len(h.done) + 1
      BY <1>1, <1>2, <3>2
    <3>3. CASE i # Len(h.done) + 1
      <4>1. i \in DOMAIN h.done /\ done[i] = h.done[i]
        BY <1>1, <3>1, <3>3
      <4> QED  BY <1>1, <4>1
    <3> QED  BY <3>2, <3>3
  <2> QED  BY <2>1, <2>2
<1>6. SumOn(done, DOMAIN done) = SumOn(h.done, DOMAIN h.done) + sum
  BY <1>1, <1>2, SumAppend DEF SumOn
<1> HIDE DEF done, sum, e
<1>7. CASE h.filled + 1 < h.width
  <2>1. e = [h EXCEPT !.sum = sum, !.filled = h.filled + 1]
    BY <1>4, <1>7
  <2>2. h.filled + 1 \in Nat
    BY <1>1
  <2>3. e \in Curves /\ e.done = h.done /\ e.sum = sum /\ e.filled = h.filled + 1 /\ e.width = h.width
    BY <1>1, <1>2, <2>1, <2>2 DEF Curves
  <2>4. CurveSum(e) = sum + SumOn(h.done, DOMAIN h.done)
    BY <1>1, <1>2, <2>3, SumOfSeq DEF CurveSum
  <2>5. CurveSum(e) = CurveSum(h) + x
    BY <1>1, <1>2, <1>3, <2>4
  <2> QED  BY <1>1, <1>2, <1>7, <2>3, <2>5 DEF GoodCurve, e
<1>8. CASE ~(h.filled + 1 < h.width) /\ Len(done) < HistoryPoints
  <2>1. e = [h EXCEPT !.done = done, !.sum = 0, !.filled = 0]
    BY <1>4, <1>8
  <2>2. e \in Curves /\ e.done = done /\ e.sum = 0 /\ e.filled = 0 /\ e.width = h.width
    <3>1. h \in Curves /\ done \in Seq(Int) /\ 0 \in Int /\ 0 \in Nat
      BY <1>1, <1>5
    <3> QED  BY ONLY <2>1, <3>1 DEF Curves
  <2>3. CurveSum(e) = 0 + SumOn(done, DOMAIN done) /\ SumOn(done, DOMAIN done) \in Int
    BY <1>5, <2>2, SumOfSeq DEF CurveSum
  <2>4. CurveSum(e) = CurveSum(h) + x
    BY <1>1, <1>2, <1>3, <1>6, <2>3
  <2> QED  BY <1>1, <1>5, <1>8, <2>2, <2>4 DEF GoodCurve, e
<1>9. CASE ~(h.filled + 1 < h.width) /\ ~(Len(done) < HistoryPoints)
  <2>1. e = [width |-> 2 * h.width, done |-> Halved(done), sum |-> 0, filled |-> 0]
    BY <1>4, <1>9
  <2>2. Len(done) = HistoryPoints
    BY <1>1, <1>5, <1>9
  <2>3. /\ Halved(done) \in Seq(Int) /\ Len(Halved(done)) < HistoryPoints
        /\ \A i \in DOMAIN Halved(done) : Halved(done)[i] >= 0
        /\ SumOn(Halved(done), DOMAIN Halved(done)) = SumOn(done, DOMAIN done)
    BY <1>5, <2>2, HalvedSum
  <2>4. 2 * h.width \in Nat /\ 0 < 2 * h.width
    BY <1>1
  <2>5. e \in Curves /\ e.done = Halved(done) /\ e.sum = 0 /\ e.filled = 0 /\ e.width = 2 * h.width
    BY <2>1, <2>3, <2>4 DEF Curves
  <2>6. CurveSum(e) = 0 + SumOn(Halved(done), DOMAIN Halved(done)) /\ SumOn(done, DOMAIN done) \in Int
    BY <1>5, <2>3, <2>5, SumOfSeq DEF CurveSum
  <2>7. CurveSum(e) = CurveSum(h) + x
    BY <1>1, <1>2, <1>3, <1>6, <2>3, <2>6
  <2> QED  BY <2>3, <2>4, <2>5, <2>7 DEF GoodCurve, e
<1> QED  BY <1>7, <1>8, <1>9

\* The curve has as many packets as were sampled since the first sample.
CurveKept == GoodCurve(curve) /\ CurveSum(curve) = prev - base

LEMMA InitSamples == Init => SamplesOrdered /\ CurveKept
<1> SUFFICES ASSUME Init PROVE SamplesOrdered /\ CurveKept
  OBVIOUS
<1>1. CountTypes
  BY InitCountsAgree DEF CountsAgree, CountsKept
<1>2. SentPackets = 0
  <2> DEFINE B == {t \in SUBSET UlSenders : SumFrom(0, Sents, t) = 0}
  <2>2. IsFiniteSet(UlSenders) /\ \A s \in UlSenders : Sents[s] = 0
    <3>1. \A s \in UlSenders : stats[s] = NoCounts
      BY <1>1, SentIsSum DEF Init
    <3> QED  BY <1>1, <3>1, SentIsSum, NoCountsFields
  <2>3. {} \in B
    BY SumEmpty
  <2>4. ASSUME NEW t \in SUBSET UlSenders, NEW x \in t, t \ {x} \in B PROVE t \in B
    <3>1. IsFiniteSet(t) /\ 0 \in Int /\ \A y \in t : Sents[y] \in Int
      BY <2>2, FS_Subset
    <3>2. SumFrom(0, Sents, t) = Sents[x] + SumFrom(0, Sents, t \ {x})
      BY <3>1, SumTake
    <3>3. Sents[x] = 0 /\ SumFrom(0, Sents, t \ {x}) = 0
      BY <2>2, <2>4
    <3> QED  BY <3>2, <3>3
  <2>5. B \in SUBSET SUBSET UlSenders
    OBVIOUS
  <2>6. UlSenders \in B
    <3> HIDE DEF B
    <3> QED  BY <2>2, <2>3, <2>4, <2>5, SetsByOne
  <2> QED  BY <2>6, SentSum
<1>3. SampleTypes /\ StopTypes
  <2>1. StopTypes
    BY DEF Init, StopTypes
  <2>2. sampler = "first" /\ ticks = 0 /\ base = 0 /\ prev = 0
    BY DEF Init
  <2>3. taken \in [{"sampler", "stop"} -> Nat]
    BY DEF Init
  <2>4. curve \in [width : Nat, done : Seq(Int), sum : Int, filled : Nat]
    <3>1. <<>> \in Seq(Int) /\ 0 \in Nat /\ 1 \in Nat /\ 0 \in Int
      OBVIOUS
    <3> QED  BY <3>1 DEF Init
  <2> QED  BY <2>1, <2>2, <2>3, <2>4 DEF SampleTypes
<1>4. SamplesOrdered
  BY <1>2, <1>3 DEF Init, SamplesOrdered
<1>5. /\ curve \in Curves /\ curve.sum = 0 /\ curve.done = <<>> /\ curve.filled = 0 /\ curve.width = 1
      /\ prev - base = 0
  BY DEF Init, Curves
<1>6. Len(<<>>) = 0 /\ DOMAIN <<>> = {} /\ <<>> \in Seq(Int) /\ 0 < HistoryPoints
  BY DataplaneOK
<1>7. CurveSum(curve) = 0
  BY <1>5, <1>6, SumEmpty DEF CurveSum
<1>8. GoodCurve(curve)
  BY <1>5, <1>6 DEF GoodCurve
<1> QED  BY <1>4, <1>5, <1>7, <1>8 DEF CurveKept

\* A sample that is not before the last one extends the curve as it should.
LEMMA CommitKeepsCurve ==
  ASSUME CurveKept, NEW t \in {"sampler", "stop"}, TakeCommit(t),
         prev \in Nat, base \in Nat, taken \in [{"sampler", "stop"} -> Nat], prev <= taken[t]
  PROVE  CurveKept' /\ prev' = taken[t] /\ base' = base
         /\ taken' = [taken EXCEPT ![t] = 0] /\ UNCHANGED stats
<1>1. /\ curve' = Extended(curve, taken[t] - prev) /\ prev' = taken[t]
      /\ taken' = [taken EXCEPT ![t] = 0] /\ base' = base /\ UNCHANGED stats
  BY DEF TakeCommit, trafficVars
<1>2. taken[t] \in Nat
  OBVIOUS
<1>3. PICK x \in Nat : x = taken[t] - prev
  BY <1>2
<1>4. GoodCurve(curve') /\ CurveSum(curve') = CurveSum(curve) + x
  BY <1>1, <1>3, ExtendedKept DEF CurveKept
<1>5. CurveSum(curve') = prev' - base'
  BY <1>1, <1>2, <1>3, <1>4 DEF CurveKept
<1> QED  BY <1>1, <1>4, <1>5 DEF CurveKept, GoodCurve, CurveSum

LEMMA SampleNats ==
  ASSUME CountTypes, SamplesOrdered
  PROVE  /\ prev \in Nat /\ base \in Nat /\ taken \in [{"sampler", "stop"} -> Nat] /\ ticks \in Nat
         /\ prev <= SentPackets /\ SentPackets \in Nat /\ curve \in Curves
         /\ sampler \in {"first", "wait", "commit", "gone"}
<1>1. /\ prev \in Nat /\ base \in Nat /\ taken \in [{"sampler", "stop"} -> Nat] /\ ticks \in Nat
      /\ prev <= SentPackets /\ curve \in Curves /\ sampler \in {"first", "wait", "commit", "gone"}
  BY DEF SamplesOrdered, SampleTypes, Curves
<1> QED  BY <1>1, SentIsSum

LEMMA SentIsInt == CountTypes => SentPackets \in Int
  BY SentIsSum

LEMMA SamplesAsTheyWere ==
  ASSUME CountTypes, SamplesOrdered, CurveKept, UNCHANGED <<stopVars, sampleVars>>,
         CountTypes', SentPackets <= SentPackets',
         stop \in {"commit", "done"} => SentPackets' = SentPackets
  PROVE  SamplesOrdered' /\ CurveKept'
<1>1. SentPackets' \in Int
  <2>1. (CountTypes => SentPackets \in Int)'
    BY SentIsInt, PTL
  <2> QED  BY <2>1
<1>2. CurveKept'
  BY DEF CurveKept, GoodCurve, CurveSum, sampleVars
<1>3. SampleTypes' /\ StopTypes'
  BY DEF SamplesOrdered, SampleTypes, StopTypes, stopVars, sampleVars
<1>4. UNCHANGED <<sampler, prev, base, taken, stop>>
  BY DEF stopVars, sampleVars
<1>5. prev' <= SentPackets'
  BY <1>1, <1>4, SampleNats
<1>6. sampler' = "commit" => prev' <= taken'["sampler"] /\ taken'["sampler"] <= SentPackets'
  BY <1>1, <1>4, SampleNats DEF SamplesOrdered
<1>7. (stop' = "commit" => taken'["stop"] = SentPackets') /\ (stop' = "done" => prev' = SentPackets')
  BY <1>4 DEF SamplesOrdered
<1>8. sampler' = "first" => prev' = 0 /\ base' = 0
  BY <1>4 DEF SamplesOrdered
<1> QED  BY <1>2, <1>3, <1>5, <1>6, <1>7, <1>8 DEF SamplesOrdered

LEMMA SamplerKeeps ==
  ASSUME CountTypes, StopOrder, SamplesOrdered, CurveKept, SamplerSteps \/ SamplerTicks
  PROVE  SamplesOrdered' /\ CurveKept'
<1>1. sampler # "gone" /\ UNCHANGED stopVars /\ UNCHANGED stats
  BY DEF SamplerSteps, SamplerStarts, SamplerCommits, SamplerLeaves, SamplerTicks, TakeRead, TakeCommit,
     trafficVars
<1>2. stop' \notin {"commit", "done"} /\ StopTypes'
  BY <1>1 DEF StopOrder, stopVars, SamplesOrdered, StopTypes
<1>3. SentPackets' = SentPackets
  BY <1>1, SentStays
<1>4. CASE SamplerStarts
  <2>1. /\ sampler = "first" /\ prev' = SentPackets /\ base' = SentPackets /\ sampler' = "wait"
        /\ UNCHANGED <<taken, ticks, curve>>
    BY <1>4 DEF SamplerStarts
  <2>2. SampleTypes' /\ prev' <= SentPackets
    BY <2>1, SampleNats DEF SampleTypes, Curves
  <2>3. CurveSum(curve) = 0
    BY <2>1 DEF CurveKept, SamplesOrdered
  <2>4. prev' - base' = 0
    BY <2>1, SampleNats
  <2>5. CurveKept'
    BY <2>1, <2>3, <2>4 DEF CurveKept, GoodCurve, CurveSum
  <2> QED  BY <1>2, <1>3, <2>1, <2>2, <2>5 DEF SamplesOrdered
<1>5. CASE SamplerTicks
  <2>1. /\ sampler = "wait" /\ taken' = [taken EXCEPT !["sampler"] = SentPackets]
        /\ sampler' = "commit" /\ ticks' = ticks + 1 /\ UNCHANGED <<base, prev, curve>>
    BY <1>5 DEF SamplerTicks, TakeRead
  <2>2. SampleTypes' /\ prev' <= SentPackets /\ taken'["sampler"] = SentPackets
    BY <2>1, SampleNats DEF SampleTypes, Curves
  <2>3. CurveKept'
    BY <2>1 DEF CurveKept, GoodCurve, CurveSum
  <2>4. SentPackets <= SentPackets
    BY SampleNats
  <2> QED  BY <1>2, <1>3, <2>1, <2>2, <2>3, <2>4 DEF SamplesOrdered
<1>6. CASE SamplerCommits
  <2>1. sampler = "commit" /\ TakeCommit("sampler") /\ sampler' = "wait" /\ UNCHANGED ticks
    BY <1>6 DEF SamplerCommits
  <2>2. prev <= taken["sampler"] /\ taken["sampler"] <= SentPackets
    BY <2>1 DEF SamplesOrdered
  <2>3. /\ CurveKept' /\ prev' = taken["sampler"] /\ base' = base
        /\ taken' = [taken EXCEPT !["sampler"] = 0]
    BY <2>1, <2>2, SampleNats, CommitKeepsCurve
  <2>4. SampleTypes'
    <3>1. curve' \in Curves
      BY <2>3 DEF CurveKept, GoodCurve
    <3>2. /\ prev' \in Nat /\ base' \in Nat /\ ticks' \in Nat /\ taken' \in [{"sampler", "stop"} -> Nat]
      BY <2>1, <2>3, SampleNats
    <3> QED  BY <2>1, <3>1, <3>2 DEF SampleTypes, Curves
  <2> QED  BY <1>2, <1>3, <2>1, <2>2, <2>3, <2>4 DEF SamplesOrdered
<1>7. CASE SamplerLeaves
  <2>1. sampler' = "gone" /\ UNCHANGED <<ticks, taken, base, prev, curve>>
    BY <1>7 DEF SamplerLeaves
  <2>2. SampleTypes' /\ prev' <= SentPackets
    BY <2>1, SampleNats DEF SampleTypes, Curves
  <2>3. CurveKept'
    BY <2>1 DEF CurveKept, GoodCurve, CurveSum
  <2> QED  BY <1>2, <1>3, <2>1, <2>2, <2>3 DEF SamplesOrdered
<1> QED  BY <1>4, <1>5, <1>6, <1>7 DEF SamplerSteps

LEMMA StopKeeps ==
  ASSUME CountTypes, StopOrder, SamplesOrdered, CurveKept, StopBegins \/ StopSteps
  PROVE  SamplesOrdered' /\ CurveKept'
<1>1. UNCHANGED <<sampler, ticks, base, stats>>
  BY DEF StopBegins, StopSteps, StopCancels, SendersGone, CloseSockets, ReadersGone, SamplerGone, StopReads,
     StopCommits, TakeRead, TakeCommit, trafficVars, sampleVars
<1>2. SentPackets' = SentPackets
  BY <1>1, SentStays
<1>3. StopTypes'
  BY DEF SamplesOrdered, StopTypes, StopBegins, StopSteps, StopCancels, SendersGone, CloseSockets,
     ReadersGone, SamplerGone, StopReads, StopCommits
<1>4. CASE StopBegins \/ StopCancels \/ SendersGone \/ CloseSockets \/ ReadersGone \/ SamplerGone
  <2>1. stop' \notin {"commit", "done"} /\ UNCHANGED <<taken, prev, curve>>
    BY <1>4 DEF StopBegins, StopCancels, SendersGone, CloseSockets, ReadersGone, SamplerGone, sampleVars
  <2>2. SampleTypes' /\ CurveKept'
    BY <1>1, <2>1 DEF SamplesOrdered, SampleTypes, CurveKept, GoodCurve, CurveSum
  <2> QED  BY <1>1, <1>2, <1>3, <2>1, <2>2 DEF SamplesOrdered
<1>5. CASE StopReads
  <2>1. /\ stop = "read" /\ stop' = "commit" /\ taken' = [taken EXCEPT !["stop"] = SentPackets]
        /\ UNCHANGED <<prev, curve>>
    BY <1>5 DEF StopReads, TakeRead
  <2>2. sampler = "gone"
    BY <2>1 DEF StopOrder
  <2>3. SampleTypes' /\ taken'["stop"] = SentPackets
    BY <1>1, <2>1, SampleNats DEF SampleTypes, Curves
  <2>4. CurveKept'
    BY <1>1, <2>1 DEF CurveKept, GoodCurve, CurveSum
  <2>5. prev' <= SentPackets
    BY <2>1, SampleNats
  <2> QED  BY <1>1, <1>2, <1>3, <2>1, <2>2, <2>3, <2>4, <2>5 DEF SamplesOrdered
<1>6. CASE StopCommits
  <2>1. stop = "commit" /\ stop' = "done" /\ TakeCommit("stop")
    BY <1>6 DEF StopCommits
  <2>2. sampler = "gone" /\ taken["stop"] = SentPackets
    BY <2>1 DEF StopOrder, SamplesOrdered
  <2>3. prev <= taken["stop"]
    BY <2>2, SampleNats
  <2>4. /\ CurveKept' /\ prev' = SentPackets
        /\ taken' = [taken EXCEPT !["stop"] = 0]
    BY <2>1, <2>2, <2>3, SampleNats, CommitKeepsCurve
  <2>5. SampleTypes'
    <3>1. curve' \in Curves
      BY <2>4 DEF CurveKept, GoodCurve
    <3>2. prev' \in Nat /\ taken' \in [{"sampler", "stop"} -> Nat]
      BY <2>4, SampleNats
    <3> QED  BY <1>1, <3>1, <3>2, SampleNats DEF SampleTypes, Curves
  <2>6. prev' <= SentPackets
    BY <2>4, SampleNats
  <2> QED  BY <1>1, <1>2, <1>3, <2>1, <2>2, <2>4, <2>5, <2>6 DEF SamplesOrdered
<1> QED  BY <1>4, <1>5, <1>6 DEF StopSteps

LEMMA StepSamples ==
  ASSUME Types, CountTypes, CountTypes', StopOrder, SamplesOrdered, CurveKept, [Next]_vars
  PROVE  SamplesOrdered' /\ CurveKept'
<1>1. ASSUME UNCHANGED <<stats, stopVars, sampleVars>> PROVE SamplesOrdered' /\ CurveKept'
  <2>1. SentPackets' = SentPackets /\ SentPackets <= SentPackets
    BY <1>1, SentStays, SentIsSum
  <2> QED  BY <1>1, <2>1, SamplesAsTheyWere
<1>2. ASSUME NEW w \in Workers,
             \/ w \in Senders /\ (SenderSteps(w) \/ SenderLeaves(w))
             \/ w \in Readers /\ (ReaderSteps(w) \/ Reads(w))
      PROVE  SamplesOrdered' /\ CurveKept'
  <2>1. SentPackets <= SentPackets' /\ UNCHANGED <<stopVars, sampleVars>>
    BY <1>2, TrafficGrows
  <2>2. stop \notin {"commit", "done"}
    BY <1>2, SenderMoves, ReaderMoves DEF StopOrder
  <2> QED  BY <2>1, <2>2, SamplesAsTheyWere
<1>3. ASSUME NEW u \in Ues, AddUe(u) \/ Activates(u) PROVE UNCHANGED <<stats, stopVars, sampleVars>>
  BY <1>3 DEF AddUe, Activates, ActivateCheck, StoreFlow, ShardAdd, ShardBump, trafficVars
<1>4. CASE UNCHANGED vars
  BY <1>1, <1>4 DEF vars, trafficVars
<1>5. CASE \E s \in Senders : SenderSteps(s) \/ SenderLeaves(s)
  BY <1>2, <1>5, WorkersApart
<1>6. CASE \E r \in Readers : ReaderSteps(r) \/ Reads(r)
  BY <1>2, <1>6, WorkersApart
<1> QED  BY <1>1, <1>3, <1>4, <1>5, <1>6, SamplerKeeps, StopKeeps DEF Next

\* However often it was halved, the curve covers every sample, whenever the sampler and Stop
\* took them (takeSample and history.add).
THEOREM CurveKeptAlways == Spec => [](SamplesOrdered /\ CurveKept)
<1>1. CountsAgree => CountTypes
  BY DEF CountsAgree, CountsKept
<1>2. Types /\ CountTypes /\ CountTypes' /\ StopOrder /\ SamplesOrdered /\ CurveKept /\ [Next]_vars
          => SamplesOrdered' /\ CurveKept'
  BY StepSamples
<1> QED  BY <1>1, <1>2, InitSamples, TypesAlways, StopOrderAlways, CountsAgreeAlways, PTL DEF Spec

\* Once the engine is over its counters hold every packet, once, and its curve every
\* sample, for any number of senders and readers (publish, and Stop's waits).
THEOREM NothingUncountedAlways == Spec => []NothingUncounted
<1>1. Types /\ StopOrder /\ PacketsOnce /\ CountsAgree /\ SamplesOrdered /\ CurveKept => NothingUncounted
  <2> SUFFICES ASSUME Types, StopOrder, PacketsOnce, CountsAgree, SamplesOrdered, CurveKept
               PROVE  NothingUncounted
    OBVIOUS
  <2>1. TypeOK
    BY DEF TypeOK, Types, CountsAgree, CountsKept, SamplesOrdered
  <2>2. CountersComplete
    BY AllPublished
  <2>3. CurveCovers
    <3>1. FoldFunction(+, curve.sum, curve.done) = CurveSum(curve)
      BY CurveIsSum
    <3> QED  BY <3>1 DEF CurveKept, GoodCurve, CurveCovers, SamplesOrdered
  <2> QED  BY <2>1, <2>2, <2>3 DEF NothingUncounted
<1> QED  BY <1>1, TypesAlways, StopOrderAlways, PacketsOnceAlways, CountsAgreeAlways, CurveKeptAlways, PTL

=============================================================================
