------------------------------ MODULE TurnQueue ------------------------------
(***************************************************************************)
(* What rrQueue promises: per gNB first in, first out; the gNBs with       *)
(* queued UEs take turns, and one that gets UEs joins the end of the round.*)
(***************************************************************************)
EXTENDS Sequences

CONSTANTS Gnbs, Ues, GnbOf

VARIABLES
    queue,  \* gNB -> its queued UEs
    turn    \* the gNBs with queued UEs, the next one first

vars == <<queue, turn>>

Init ==
    /\ queue = [g \in Gnbs |-> <<>>]
    /\ turn = <<>>

Push(u) ==
    LET g == GnbOf[u]
    IN  /\ queue' = [queue EXCEPT ![g] = Append(@, u)]
        /\ turn' = IF queue[g] = <<>> THEN Append(turn, g) ELSE turn

Pop ==
    LET g == Head(turn)
    IN  /\ turn # <<>>
        /\ queue' = [queue EXCEPT ![g] = Tail(@)]
        /\ turn' = IF Tail(queue[g]) = <<>> THEN Tail(turn) ELSE Append(Tail(turn), g)

Next == Pop \/ \E u \in Ues : Push(u)

Spec == Init /\ [][Next]_vars

=============================================================================
