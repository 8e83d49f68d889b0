----------------------------- MODULE Dataplane -----------------------------
(***************************************************************************)
(* fru-tester's traffic engine over UDP sockets (tester/dataplane): UEs    *)
(* are activated while the run goes on, one goroutine per sender paces     *)
(* their packets out in batches, readers check and count what comes back   *)
(* through the UPF, a sampler draws the rate curve, and Stop ends them all.*)
(*                                                                         *)
(* Rates and sizes are left out: how many packets a tick's budget allows,  *)
(* and which flow's turn it is, are any choice.  The UPF and the network   *)
(* may lose packets (nobody ever reads them), reorder them and forward     *)
(* downlink to a wrong tunnel.                                             *)
(***************************************************************************)
EXTENDS Integers, Sequences, FiniteSets, Functions

CONSTANTS
    Ues,
    UlSenders, DlSenders,   \* one per shard of a direction's flows
    UlReaders,              \* the sink's SO_REUSEPORT group
    DlReaders,              \* one per gNB's N3 address
    UlShard, DlShard,       \* the sender that serves a UE
    N3Reader,               \* the reader of the UE's gNB
    None,                   \* no packet
    MaxBatch,               \* packets one batch can hold
    MaxSeq,                 \* bound: direction -> packets of one flow
    MaxTicks,               \* bound: ticks of the sampler
    HistoryPoints           \* historyPoints: the longest curve

Dirs    == {"ul", "dl"}
Senders == UlSenders \cup DlSenders
Readers == UlReaders \cup DlReaders
Workers == Senders \cup Readers

SendersOf(d) == IF d = "ul" THEN UlSenders ELSE DlSenders
ReadersOf(d) == IF d = "ul" THEN UlReaders ELSE DlReaders
DirOf(w)     == IF w \in UlSenders \cup UlReaders THEN "ul" ELSE "dl"
ShardOf(d)   == IF d = "ul" THEN UlShard ELSE DlShard

ASSUME DataplaneOK ==
    /\ \A S \in {Ues, UlSenders, DlSenders, UlReaders, DlReaders} : IsFiniteSet(S)
    /\ Senders \cap Readers = {}
    /\ UlSenders \cap DlSenders = {} /\ UlReaders \cap DlReaders = {}
    /\ UlShard \in [Ues -> UlSenders] /\ DlShard \in [Ues -> DlSenders]
    /\ N3Reader \in [Ues -> DlReaders]
    /\ MaxBatch \in Nat \ {0} /\ MaxTicks \in Nat
    /\ MaxSeq \in [Dirs -> Nat]
    /\ HistoryPoints \in Nat \ {0} /\ HistoryPoints % 2 = 0

Packet == [dir : Dirs, ue : Ues, seq : Nat]
ASSUME NoneOK == None \notin Packet

\* What a worker counts: sent or received, and the rest.
Counts   == [packets : Nat, errors : Nat, late : Nat, misrouted : Nat]
NoCounts == [packets |-> 0, errors |-> 0, late |-> 0, misrouted |-> 0]

VARIABLES
    activation,     \* UE -> how far AddUE and activate are
    flows,          \* UEs whose flow is in core.flows
    shard,          \* sender -> its shard's flows and version
    sender, reader, \* worker -> its goroutine's state
    acc, stats,     \* worker -> accumulator, published workerStats
    nextSeq,        \* direction -> UE -> ulSeq, dlSeq
    last,           \* direction -> UE -> ulLast, dlLast; -1 = none
    net,            \* packets not read: on their way, buffered or lost
    stopped, cancelled, open, stop,     \* Stop: its flags and its position
    sampler, ticks, taken,  \* who runs takeSample, and what it has read
    base, prev, curve,      \* first and previous sample, and history
    seen            \* history variable: direction -> UE -> sequence numbers handled

trafficVars == <<sender, reader, acc, stats, nextSeq, last, net, seen>>
ueVars      == <<activation, flows, shard>>
stopVars    == <<stopped, cancelled, open, stop>>
sampleVars  == <<sampler, ticks, taken, base, prev, curve>>
vars == <<trafficVars, ueVars, stopVars, sampleVars>>

ActivationSteps == {"none", "waiting", "flow", "ulAdd", "ulBump", "dlAdd", "dlBump",
                    "active", "refused"}

Shards      == [flows : SUBSET Ues, version : Nat]
SenderState == [pc : {"tick", "load", "fill", "publish", "gone"},
                version : Nat, flows : SUBSET Ues, batch : SUBSET Packet]
ReaderState == [pc : {"read", "handle", "cas", "gone"},
                batch : SUBSET Packet, pkt : Packet \cup {None}, prev : Int]

UeTypes ==
    /\ activation \in [Ues -> ActivationSteps]
    /\ flows \in SUBSET Ues
    /\ shard \in [Senders -> Shards]

TrafficTypes ==
    /\ sender \in [Senders -> SenderState]
    /\ reader \in [Readers -> ReaderState]
    /\ nextSeq \in [Dirs -> [Ues -> Nat]]
    /\ last \in [Dirs -> [Ues -> Int]]
    /\ net \in SUBSET Packet
    /\ seen \in [Dirs -> [Ues -> SUBSET Nat]]

CountTypes == acc \in [Workers -> Counts] /\ stats \in [Workers -> Counts]

StopTypes ==
    /\ stopped \in BOOLEAN /\ cancelled \in BOOLEAN /\ open \in BOOLEAN
    /\ stop \in {"off", "cancel", "senders", "drain", "readers", "sampler",
                 "read", "commit", "done"}

SampleTypes ==
    /\ sampler \in {"first", "wait", "commit", "gone"}
    /\ ticks \in Nat
    /\ taken \in [{"sampler", "stop"} -> Nat]
    /\ base \in Nat /\ prev \in Nat
    /\ curve \in [width : Nat, done : Seq(Int), sum : Int, filled : Nat]

TypeOK == UeTypes /\ TrafficTypes /\ CountTypes /\ StopTypes /\ SampleTypes

Init ==
    /\ activation = [u \in Ues |-> "none"]
    /\ flows = {}
    /\ shard = [s \in Senders |-> [flows |-> {}, version |-> 0]]
    /\ sender = [s \in Senders |-> [pc |-> "tick", version |-> 0, flows |-> {}, batch |-> {}]]
    /\ reader = [r \in Readers |-> [pc |-> "read", batch |-> {}, pkt |-> None, prev |-> -1]]
    /\ acc = [w \in Workers |-> NoCounts] /\ stats = [w \in Workers |-> NoCounts]
    /\ nextSeq = [d \in Dirs |-> [u \in Ues |-> 0]]
    /\ last = [d \in Dirs |-> [u \in Ues |-> -1]]
    /\ net = {}
    /\ stopped = FALSE /\ cancelled = FALSE /\ open = TRUE /\ stop = "off"
    /\ sampler = "first" /\ ticks = 0
    /\ taken = [t \in {"sampler", "stop"} |-> 0]
    /\ base = 0 /\ prev = 0
    /\ curve = [width |-> 1, done |-> <<>>, sum |-> 0, filled |-> 0]
    /\ seen = [d \in Dirs |-> [u \in Ues |-> {}]]

-----------------------------------------------------------------------------
(* A UE's PDU session is up.                                               *)

\* AddUE: refused once Stop has begun, else activate is called after the start delay.
AddUe(u) ==
    /\ activation[u] = "none"
    /\ activation' = [activation EXCEPT ![u] = IF stopped THEN "refused" ELSE "waiting"]
    /\ UNCHANGED <<flows, shard, trafficVars, stopVars, sampleVars>>

\* Mutants of ActivationOrder: the version is bumped before the flow is added; the flow is
\* stored last.
ActivationOrderBumpFirst ==
    [waiting |-> "flow", flow |-> "ulBump", ulBump |-> "ulAdd",
     ulAdd |-> "dlBump", dlBump |-> "dlAdd", dlAdd |-> "active"]
ActivationOrderFlowLast ==
    [waiting |-> "ulAdd", ulAdd |-> "ulBump", ulBump |-> "dlAdd",
     dlAdd |-> "dlBump", dlBump |-> "flow", flow |-> "active"]

\* What follows what: the flow is stored before any sender can see it, and appended to a
\* shard before the shard's version says so.
ActivationOrder == [waiting |-> "flow", flow |-> "ulAdd", ulAdd |-> "ulBump",
                    ulBump |-> "dlAdd", dlAdd |-> "dlBump", dlBump |-> "active"]

\* activate checks again: the timer may fire during Stop.
ActivateCheck(u) ==
    /\ activation[u] = "waiting"
    /\ activation' = [activation EXCEPT ![u] = IF stopped THEN "refused"
                                               ELSE ActivationOrder["waiting"]]
    /\ UNCHANGED <<flows, shard, trafficVars, stopVars, sampleVars>>

AdvanceActivation(u, step) ==
    /\ activation[u] = step
    /\ activation' = [activation EXCEPT ![u] = ActivationOrder[step]]

StoreFlow(u) ==
    /\ AdvanceActivation(u, "flow")
    /\ flows' = flows \cup {u}
    /\ UNCHANGED <<shard, trafficVars, stopVars, sampleVars>>

ShardAdd(u, d) ==
    /\ AdvanceActivation(u, IF d = "ul" THEN "ulAdd" ELSE "dlAdd")
    /\ shard' = [shard EXCEPT ![ShardOf(d)[u]].flows = @ \cup {u}]
    /\ UNCHANGED <<flows, trafficVars, stopVars, sampleVars>>

ShardBump(u, d) ==
    /\ AdvanceActivation(u, IF d = "ul" THEN "ulBump" ELSE "dlBump")
    /\ shard' = [shard EXCEPT ![ShardOf(d)[u]].version = @ + 1]
    /\ UNCHANGED <<flows, trafficVars, stopVars, sampleVars>>

-----------------------------------------------------------------------------
(* pace: a sender's goroutine.                                             *)

\* The select on ctx.Done() and the tick picks at random when both are ready.
Tick(s) ==
    /\ sender[s].pc = "tick"
    /\ LET v == shard[s].version
       IN  sender' = IF v # sender[s].version
                     THEN [sender EXCEPT ![s].pc = "load", ![s].version = v]
                     ELSE [sender EXCEPT ![s].pc = "fill"]
    /\ UNCHANGED <<reader, acc, stats, nextSeq, last, net, seen, ueVars, stopVars, sampleVars>>

\* Mutant of SenderLeaves: a sender that has sent its batch leaves at once.
SenderLeavesUnpublished(s) ==
    /\ sender[s].pc \in {"tick", "publish"} /\ cancelled
    /\ sender' = [sender EXCEPT ![s].pc = "gone"]
    /\ UNCHANGED <<reader, acc, stats, nextSeq, last, net, seen, ueVars, stopVars, sampleVars>>

SenderLeaves(s) ==
    /\ sender[s].pc = "tick" /\ cancelled
    /\ sender' = [sender EXCEPT ![s].pc = "gone"]
    /\ UNCHANGED <<reader, acc, stats, nextSeq, last, net, seen, ueVars, stopVars, sampleVars>>

Load(s) ==
    /\ sender[s].pc = "load"
    /\ sender' = [sender EXCEPT ![s].pc = "fill", ![s].flows = shard[s].flows]
    /\ UNCHANGED <<reader, acc, stats, nextSeq, last, net, seen, ueVars, stopVars, sampleVars>>

\* batcher.add: the flow's next packet takes a slot.
Add(s, u) ==
    LET d == DirOf(s)
    IN  /\ sender[s].pc = "fill"
        /\ u \in sender[s].flows
        /\ Cardinality(sender[s].batch) < MaxBatch
        /\ nextSeq[d][u] < MaxSeq[d]
        /\ sender' = [sender EXCEPT ![s].batch =
                          @ \cup {[dir |-> d, ue |-> u, seq |-> nextSeq[d][u]]}]
        /\ nextSeq' = [nextSeq EXCEPT ![d][u] = @ + 1]
        /\ UNCHANGED <<reader, acc, stats, last, net, seen, ueVars, stopVars, sampleVars>>

\* flush, because the budget is used or the batch full: the kernel takes some of the
\* packets and refuses the rest.
Flush(s, sent) ==
    /\ sender[s].pc = "fill"
    /\ net' = net \cup sent
    /\ acc' = [acc EXCEPT ![s].packets = @ + Cardinality(sent),
                          ![s].errors = @ + Cardinality(sender[s].batch \ sent)]
    /\ sender' = [sender EXCEPT ![s].pc = IF sender[s].batch = {} THEN "tick" ELSE "publish"]
    /\ UNCHANGED <<reader, stats, nextSeq, last, seen, ueVars, stopVars, sampleVars>>

\* accumulator.publish
Published(w) ==
    /\ stats' = [stats EXCEPT ![w] = [c \in DOMAIN @ |-> @[c] + acc[w][c]]]
    /\ acc' = [acc EXCEPT ![w] = NoCounts]

\* The batch was full and add goes on with the packet that did not fit, or pace waits
\* for a tick.
SenderPublishes(s) ==
    /\ sender[s].pc = "publish"
    /\ Published(s)
    /\ \E pc \in {"fill", "tick"} :
           /\ pc = "fill" => Cardinality(sender[s].batch) = MaxBatch
           /\ sender' = [sender EXCEPT ![s].pc = pc, ![s].batch = {}]
    /\ UNCHANGED <<reader, nextSeq, last, net, seen, ueVars, stopVars, sampleVars>>

-----------------------------------------------------------------------------
(* A reader's goroutine.                                                   *)

\* ReadBatch: what has arrived at the reader's socket.
Read(r, batch) ==
    /\ reader[r].pc = "read" /\ open
    /\ net' = net \ batch
    /\ reader' = [reader EXCEPT ![r].pc = "handle", ![r].batch = batch]
    /\ UNCHANGED <<sender, acc, stats, nextSeq, last, seen, ueVars, stopVars, sampleVars>>

ReaderLeaves(r) ==
    /\ reader[r].pc = "read" /\ ~open
    /\ reader' = [reader EXCEPT ![r].pc = "gone"]
    /\ UNCHANGED <<sender, acc, stats, nextSeq, last, net, seen, ueVars, stopVars, sampleVars>>

\* receive: is the packet of a known flow, and in its own tunnel at its own gNB?
Unknown(r, p) ==
    /\ p.ue \notin flows
    /\ reader' = [reader EXCEPT ![r].batch = @ \ {p}]
    /\ UNCHANGED <<acc, seen>>

Misrouted(r, p) ==
    /\ p.ue \in flows /\ p.dir = "dl"
    /\ reader' = [reader EXCEPT ![r].batch = @ \ {p}]
    /\ acc' = [acc EXCEPT ![r].misrouted = @ + 1]
    /\ UNCHANGED seen

\* A packet's sequence number has been compared with the last one for good.
Handled(p) == seen' = [seen EXCEPT ![p.dir][p.ue] = @ \cup {p.seq}]

Late(r, p) ==
    /\ p.ue \in flows /\ (p.dir = "dl" => N3Reader[p.ue] = r)
    /\ p.seq <= last[p.dir][p.ue]
    /\ reader' = [reader EXCEPT ![r].batch = @ \ {p}]
    /\ acc' = [acc EXCEPT ![r].packets = @ + 1, ![r].late = @ + 1]
    /\ Handled(p)

\* A newer one than last.Load() is to replace it.
Newer(r, p) ==
    /\ p.ue \in flows /\ (p.dir = "dl" => N3Reader[p.ue] = r)
    /\ p.seq > last[p.dir][p.ue]
    /\ reader' = [reader EXCEPT ![r].pc = "cas", ![r].pkt = p,
                                ![r].prev = last[p.dir][p.ue]]
    /\ acc' = [acc EXCEPT ![r].packets = @ + 1]
    /\ UNCHANGED seen

Receive(r, p) ==
    /\ reader[r].pc = "handle"
    /\ Unknown(r, p) \/ Misrouted(r, p) \/ Late(r, p) \/ Newer(r, p)
    /\ UNCHANGED <<sender, stats, nextSeq, last, net, ueVars, stopVars, sampleVars>>

\* Mutant of CompareAndSwap: last.Store(seq).
StoreLast(r) ==
    LET p == reader[r].pkt
    IN  /\ reader[r].pc = "cas"
        /\ last' = [last EXCEPT ![p.dir][p.ue] = p.seq]
        /\ reader' = [reader EXCEPT ![r].pc = "handle", ![r].pkt = None, ![r].prev = -1,
                                    ![r].batch = @ \ {p}]
        /\ Handled(p)
        /\ UNCHANGED <<sender, acc, stats, nextSeq, net, ueVars, stopVars, sampleVars>>

\* last.CompareAndSwap(prev, seq), unless another reader's packet of the flow came between;
\* then last is read again.
CompareAndSwap(r) ==
    LET p == reader[r].pkt
        l == last[p.dir][p.ue]
        Rest == [reader EXCEPT ![r].pc = "handle", ![r].pkt = None, ![r].prev = -1,
                                ![r].batch = @ \ {p}]
    IN  /\ reader[r].pc = "cas"
        /\ \/ /\ l = reader[r].prev
              /\ last' = [last EXCEPT ![p.dir][p.ue] = p.seq]
              /\ reader' = Rest /\ Handled(p) /\ UNCHANGED acc
           \/ /\ l # reader[r].prev /\ p.seq <= l
              /\ acc' = [acc EXCEPT ![r].late = @ + 1]
              /\ reader' = Rest /\ Handled(p) /\ UNCHANGED last
           \/ /\ l # reader[r].prev /\ p.seq > l
              /\ reader' = [reader EXCEPT ![r].prev = l]
              /\ UNCHANGED <<acc, last, seen>>
        /\ UNCHANGED <<sender, stats, nextSeq, net, ueVars, stopVars, sampleVars>>

ReaderPublishes(r) ==
    /\ reader[r].pc = "handle" /\ reader[r].batch = {}
    /\ Published(r)
    /\ reader' = [reader EXCEPT ![r].pc = "read"]
    /\ UNCHANGED <<sender, nextSeq, last, net, seen, ueVars, stopVars, sampleVars>>

-----------------------------------------------------------------------------
(* The rate curve.  Its four rates are treated alike: the one modelled is  *)
(* the uplink's sent packets.  A point of the curve is kept as the sum of  *)
(* its samples, which is its rate times the seconds it covers; samples     *)
(* are taken at different times (dt > 0).                                  *)

SentPackets == FoldFunctionOnSet(+, 0, [s \in UlSenders |-> stats[s].packets], UlSenders)

\* history.add: a point that is full is done; a full curve is halved.
Halved(done) == [i \in 1..(Len(done) \div 2) |-> done[2 * i - 1] + done[2 * i]]

Extended(h, sample) ==
    LET sum    == h.sum + sample
        filled == h.filled + 1
        done   == Append(h.done, sum)
    IN  IF filled < h.width THEN [h EXCEPT !.sum = sum, !.filled = filled]
        ELSE IF Len(done) < HistoryPoints
        THEN [h EXCEPT !.done = done, !.sum = 0, !.filled = 0]
        ELSE [width |-> 2 * h.width, done |-> Halved(done), sum |-> 0, filled |-> 0]

\* takeSample reads the counters without a lock ...
TakeRead(t) ==
    /\ taken' = [taken EXCEPT ![t] = SentPackets]
    /\ UNCHANGED <<base, prev, curve, trafficVars, ueVars>>

\* ... and extends the curve under one.
TakeCommit(t) ==
    /\ curve' = Extended(curve, taken[t] - prev)
    /\ prev' = taken[t]
    /\ taken' = [taken EXCEPT ![t] = 0]
    /\ UNCHANGED <<base, trafficVars, ueVars>>

SamplerStarts ==
    /\ sampler = "first"
    /\ prev' = SentPackets /\ base' = SentPackets
    /\ sampler' = "wait"
    /\ UNCHANGED <<taken, ticks, curve, trafficVars, ueVars, stopVars>>

SamplerTicks ==
    /\ sampler = "wait" /\ ticks < MaxTicks
    /\ TakeRead("sampler")
    /\ sampler' = "commit" /\ ticks' = ticks + 1
    /\ UNCHANGED stopVars

SamplerCommits ==
    /\ sampler = "commit"
    /\ TakeCommit("sampler")
    /\ sampler' = "wait"
    /\ UNCHANGED <<ticks, stopVars>>

SamplerLeaves ==
    /\ sampler = "wait" /\ cancelled
    /\ sampler' = "gone"
    /\ UNCHANGED <<ticks, taken, base, prev, curve, trafficVars, ueVars, stopVars>>

-----------------------------------------------------------------------------
(* Stop, called once.                                                      *)

StopBegins ==
    /\ stop = "off"
    /\ stopped' = TRUE /\ stop' = "cancel"
    /\ UNCHANGED <<cancelled, open, trafficVars, ueVars, sampleVars>>

StopCancels ==
    /\ stop = "cancel"
    /\ cancelled' = TRUE /\ stop' = "senders"
    /\ UNCHANGED <<stopped, open, trafficVars, ueVars, sampleVars>>

\* Mutant of SendersGone: the drain begins at once.
SendersGoneOrNot ==
    /\ stop = "senders"
    /\ stop' = "drain"
    /\ UNCHANGED <<stopped, cancelled, open, trafficVars, ueVars, sampleVars>>

\* senders.Wait()
SendersGone ==
    /\ stop = "senders" /\ \A s \in Senders : sender[s].pc = "gone"
    /\ stop' = "drain"
    /\ UNCHANGED <<stopped, cancelled, open, trafficVars, ueVars, sampleVars>>

\* closeSockets, after the drain time
CloseSockets ==
    /\ stop = "drain"
    /\ open' = FALSE /\ stop' = "readers"
    /\ UNCHANGED <<stopped, cancelled, trafficVars, ueVars, sampleVars>>

\* readers.Wait()
ReadersGone ==
    /\ stop = "readers" /\ \A r \in Readers : reader[r].pc = "gone"
    /\ stop' = "sampler"
    /\ UNCHANGED <<stopped, cancelled, open, trafficVars, ueVars, sampleVars>>

\* sampler.Wait()
SamplerGone ==
    /\ stop = "sampler" /\ sampler = "gone"
    /\ stop' = "read"
    /\ UNCHANGED <<stopped, cancelled, open, trafficVars, ueVars, sampleVars>>

StopReads ==
    /\ stop = "read"
    /\ TakeRead("stop")
    /\ stop' = "commit"
    /\ UNCHANGED <<stopped, cancelled, open, sampler, ticks>>

StopCommits ==
    /\ stop = "commit"
    /\ TakeCommit("stop")
    /\ stop' = "done"
    /\ UNCHANGED <<stopped, cancelled, open, sampler, ticks>>

Activates(u) ==
    \/ ActivateCheck(u) \/ StoreFlow(u)
    \/ \E d \in Dirs : ShardAdd(u, d) \/ ShardBump(u, d)

SenderSteps(s) ==
    \/ Tick(s) \/ Load(s) \/ SenderPublishes(s)
    \/ \E u \in Ues : Add(s, u)
    \/ \E sent \in SUBSET sender[s].batch : Flush(s, sent)

ReaderSteps(r) ==
    \/ ReaderLeaves(r) \/ CompareAndSwap(r) \/ ReaderPublishes(r)
    \/ \E p \in reader[r].batch : Receive(r, p)

Reads(r) ==
    \E batch \in SUBSET {p \in net : p.dir = DirOf(r)} :
        /\ batch # {} /\ Cardinality(batch) <= MaxBatch
        /\ Read(r, batch)

SamplerSteps == SamplerStarts \/ SamplerCommits \/ SamplerLeaves

StopSteps == StopCancels \/ SendersGone \/ CloseSockets \/ ReadersGone
             \/ SamplerGone \/ StopReads \/ StopCommits

Next ==
    \/ \E u \in Ues : AddUe(u) \/ Activates(u)
    \/ \E s \in Senders : SenderSteps(s) \/ SenderLeaves(s)
    \/ \E r \in Readers : ReaderSteps(r) \/ Reads(r)
    \/ SamplerSteps \/ SamplerTicks
    \/ StopBegins \/ StopSteps
    \/ stop = "done" /\ UNCHANGED vars     \* the engine is over

Spec == Init /\ [][Next]_vars

-----------------------------------------------------------------------------
(* Properties.                                                             *)

\* However many readers see a flow's packets at once, the last sequence number is the
\* newest of those handled and one of them, so no packet is taken for late or in order
\* against a number that went backwards (receive's compare-and-swap loop).
NewestSeen ==
    \A d \in Dirs, u \in Ues :
        /\ \A q \in seen[d][u] : q <= last[d][u]
        /\ last[d][u] = -1 \/ last[d][u] \in seen[d][u]

\* When Stop has returned every packet that was built is counted, once, as sent or
\* refused, every packet that was checked is counted as received, and no worker has
\* counts it did not publish: the final report needs no correction.
Total(count, workers) ==
    FoldFunctionOnSet(+, 0, [w \in workers |-> stats[w][count]], workers)
Built(d)   == FoldFunctionOnSet(+, 0, nextSeq[d], Ues)
Checked(d) == FoldFunctionOnSet(+, 0, [u \in Ues |-> Cardinality(seen[d][u])], Ues)

CountersComplete ==
    stop = "done" =>
        /\ \A d \in Dirs :
               /\ Total("packets", SendersOf(d)) + Total("errors", SendersOf(d)) = Built(d)
               /\ Total("packets", ReadersOf(d)) = Checked(d)
        /\ \A w \in Workers : acc[w] = NoCounts

\* However often it was halved, the curve covers every sample from the first on, with no
\* rate below zero, stays within its length, and after Stop reaches the last packet: the
\* sampler and Stop never take a sample at the same time.
CurveCovers ==
    /\ FoldFunction(+, curve.sum, curve.done) = prev - base
    /\ curve.sum >= 0 /\ \A i \in DOMAIN curve.done : curve.done[i] >= 0
    /\ Len(curve.done) < HistoryPoints /\ curve.filled < curve.width
    /\ stop = "done" => prev = SentPackets

\* A packet that is on its way is of a flow its reader will find: activate stores the flow
\* before a sender can use it.
OwnPacketsKnown ==
    \A p \in net \cup UNION {reader[r].batch : r \in Readers} : p.ue \in flows

\* Once Stop goes on to the drain, nothing more is built or sent.
HaltedAtOnce ==
    [][ stop \notin {"off", "cancel", "senders"} =>
            net' \subseteq net /\ nextSeq' = nextSeq ]_vars

\* A sender that has seen its shard's version has every flow added up to it: no UE is left
\* without traffic because it was added while its sender loaded the list.
Bumped(d) == {u \in Ues : activation[u] \in
                 IF d = "ul" THEN {"dlAdd", "dlBump", "active"} ELSE {"active"}}

NoFlowBehind ==
    \A d \in Dirs : \A u \in Bumped(d) :
        LET s == ShardOf(d)[u]
        IN  sender[s].pc # "load" /\ sender[s].version = shard[s].version
                => u \in sender[s].flows


=============================================================================
