------------------------------- MODULE RRQueue -------------------------------
(***************************************************************************)
(* rrQueue (tester/run/rrqueue.go): the UEs waiting for a stage, one FIFO  *)
(* per gNB, handed out a gNB at a time in turn.  Attempts that want a      *)
(* retry and stages that hand a UE over push; one dispatcher pops.  push   *)
(* unlocks before it signals, and pop tries before it waits, so a push and *)
(* a pop interleave as two steps each.                                     *)
(***************************************************************************)
EXTENDS Naturals, Sequences, FiniteSets, SequencesExt

CONSTANTS
    Gnbs,
    Ues,
    GnbOf,      \* rrQueue.group
    Pushers,    \* goroutines that push
    Reclaim     \* the ring's front is reclaimed beyond this many taken turns (1024)

ASSUME RRQueueOK ==
    /\ GnbOf \in [Ues -> Gnbs]
    /\ Reclaim \in Nat

VARIABLES
    fifos,      \* gNB -> its queued UEs
    ring, head, \* gNBs with queued UEs in turn order, ring[head + 1] the next
    n,          \* UEs queued
    ready,      \* the channel ready has a value
    push,       \* each pusher: at rest, or between its unlock and its signal
    pop,        \* the dispatcher: trying, waiting, gone, draining
    ctxDone,
    turns       \* turns[g][h]: turns of gNB h since gNB g began to wait

vars == <<fifos, ring, head, n, ready, push, pop, ctxDone, turns>>

Queued  == UNION { ToSet(fifos[g]) : g \in Gnbs }
Waiting == SubSeq(ring, head + 1, Len(ring))    \* the live part of ring

Init ==
    /\ fifos = [g \in Gnbs |-> <<>>]
    /\ ring = <<>> /\ head = 0 /\ n = 0
    /\ ready = FALSE
    /\ push = [p \in Pushers |-> "idle"]
    /\ pop = "try" /\ ctxDone = FALSE
    /\ turns = [g \in Gnbs |-> [h \in Gnbs |-> 0]]

\* The ring after a push: a gNB without queued UEs joins the end.
Joined(u) == IF fifos[GnbOf[u]] = <<>> THEN Append(ring, GnbOf[u]) ELSE ring

\* Mutant of Rejoined: a gNB with more UEs is the next one again.
RejoinedInFront(g) ==
    IF Len(fifos[g]) = 1 THEN ring
    ELSE SubSeq(ring, 1, head + 1) \o <<g>> \o SubSeq(ring, head + 2, Len(ring))

\* The ring after gNB g's turn: it goes to the end if it has more.
Rejoined(g) == IF Len(fifos[g]) = 1 THEN ring ELSE Append(ring, g)

\* push up to its unlock: a gNB without queued UEs joins the end of the ring.
\* No UE is pushed while it is queued (Pipeline's OnePlace).
Push(p, u) ==
    LET g == GnbOf[u]
    IN  /\ push[p] = "idle" /\ pop # "drain" /\ u \notin Queued
        /\ ring' = Joined(u)
        /\ fifos' = [fifos EXCEPT ![g] = Append(@, u)]
        /\ n' = n + 1
        /\ push' = [push EXCEPT ![p] = "signal"]
        /\ UNCHANGED <<head, ready, pop, ctxDone, turns>>

\* Mutant of Signal: only the push that found the queue empty signals.
SignalFirst(p) ==
    /\ push[p] = "signal"
    /\ ready' = (ready \/ n = 1)
    /\ push' = [push EXCEPT ![p] = "idle"]
    /\ UNCHANGED <<fifos, ring, head, n, pop, ctxDone, turns>>

\* push's send that does not block
Signal(p) ==
    /\ push[p] = "signal"
    /\ ready' = TRUE
    /\ push' = [push EXCEPT ![p] = "idle"]
    /\ UNCHANGED <<fifos, ring, head, n, pop, ctxDone, turns>>

\* tryPop, when something is queued: the next gNB's first UE.  The gNB goes to
\* the end of the ring if it has more.
Take ==
    LET g     == ring[head + 1]
        ring2 == Rejoined(g)
        taken == head + 1
        cut   == taken > Reclaim /\ taken * 2 > Len(ring2)
    IN  /\ n > 0
        /\ fifos' = [fifos EXCEPT ![g] = Tail(@)]
        /\ ring' = IF cut THEN SubSeq(ring2, taken + 1, Len(ring2)) ELSE ring2
        /\ head' = IF cut THEN 0 ELSE taken
        /\ n' = n - 1
        /\ turns' = [x \in Gnbs |-> IF x = g \/ fifos[x] = <<>> THEN [h \in Gnbs |-> 0]
                                ELSE [turns[x] EXCEPT ![g] = @ + 1]]

\* pop: try, and wait for ready if there is nothing.
TryPop ==
    /\ pop = "try"
    /\ \/ Take /\ UNCHANGED pop
       \/ n = 0 /\ pop' = "wait" /\ UNCHANGED <<fifos, ring, head, n, turns>>
    /\ UNCHANGED <<ready, push, ctxDone>>

Wake ==
    /\ pop = "wait"
    /\ \/ ready /\ ready' = FALSE /\ pop' = "try"
       \/ ctxDone /\ pop' = "gone" /\ UNCHANGED ready
    /\ UNCHANGED <<fifos, ring, head, n, push, ctxDone, turns>>

Cancel ==
    /\ ~ctxDone /\ ctxDone' = TRUE
    /\ UNCHANGED <<fifos, ring, head, n, ready, push, pop, turns>>

DrainStarts ==
    /\ pop = "gone" /\ \A p \in Pushers : push[p] = "idle"
    /\ pop' = "drain"
    /\ UNCHANGED <<fifos, ring, head, n, ready, push, ctxDone, turns>>

\* Mutant of Drain: what is left is not taken.
DrainNothing == DrainStarts

\* drain, when the attempts in flight have returned too
Drain ==
    \/ DrainStarts
    \/ /\ pop = "drain" /\ Take
       /\ UNCHANGED <<ready, push, pop, ctxDone>>

Next ==
    \/ \E p \in Pushers : (\E u \in Ues : Push(p, u)) \/ Signal(p)
    \/ TryPop \/ Wake \/ Drain \/ Cancel

Spec == Init /\ [][Next]_vars

\* A pusher past its unlock signals, and the dispatcher runs when it can.  A stage
\* that has stopped gets no more pushes in the end, so drain may start.
FairSpec ==
    /\ Spec
    /\ \A p \in Pushers : WF_vars(Signal(p))
    /\ WF_vars(TryPop) /\ WF_vars(Wake) /\ SF_vars(Drain)

-----------------------------------------------------------------------------
TypeOK ==
    /\ fifos \in [Gnbs -> Seq(Ues)]
    /\ ring \in Seq(Gnbs) /\ head \in Nat /\ n \in Nat
    /\ ready \in BOOLEAN /\ ctxDone \in BOOLEAN
    /\ push \in [Pushers -> {"idle", "signal"}]
    /\ pop \in {"try", "wait", "gone", "drain"}
    /\ turns \in [Gnbs -> [Gnbs -> Nat]]

\* The ring's live part names each gNB with queued UEs once and no other, and n
\* counts the queued UEs, also when the ring's front has been reclaimed.
RingMatchesFifos ==
    /\ head <= Len(ring)
    /\ ToSet(Waiting) = { g \in Gnbs : fifos[g] # <<>> }
    /\ Len(Waiting) = Cardinality(ToSet(Waiting))
    /\ n = Cardinality(Queued)

\* rrqueue.go's comment: a gNB waits at most one round.  While gNB g has UEs
\* queued, no other gNB gets two turns before g gets one.
OneRound ==
    \A g, h \in Gnbs : fifos[g] # <<>> /\ g # h => turns[g][h] <= 1

\* The ring stays in step with the FIFOs and a gNB waits at most one round (rrqueue.go).
TurnsKept == TypeOK /\ RingMatchesFifos /\ OneRound

\* The dispatcher never sleeps on a queue that has UEs in it with nobody about to
\* wake it: a signal sent between its try and its wait is not lost.
NoSleepOnWork ==
    pop = "wait" /\ n > 0 => ready \/ \E p \in Pushers : push[p] = "signal"

\* Every queued UE is handed out, to the dispatcher or by drain.
AllHandedOut == \A u \in Ues : u \in Queued ~> u \notin Queued

\* What the queue promises, without ring, head and signals.
Turns == INSTANCE TurnQueue WITH queue <- fifos, turn <- Waiting

ImplementsTurnQueue == Turns!Spec

=============================================================================
