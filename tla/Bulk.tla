-------------------------------- MODULE Bulk --------------------------------
(***************************************************************************)
(* runLimited (bulk.ts), by which the subscriber pages create or delete    *)
(* many subscribers: as many workers as Limit take the items one after     *)
(* another, go on past failures, and end when there is nothing left to     *)
(* take.  A worker that finds an item takes it without giving way to the   *)
(* others, so taking is one step with finishing the item before.           *)
(***************************************************************************)
EXTENDS Integers, FiniteSets

CONSTANT Limit      \* BULK_CONCURRENCY

VARIABLES
    size,           \* how many items there are
    next,           \* how many have been taken
    at,             \* worker -> the item it runs, 0 once it has ended
    done,           \* how many have finished
    failed,         \* the items that failed
    finished        \* the items that ran to an end, for the properties

bulkVars == <<size, next, at, done, failed, finished>>

Workers == 1 .. Limit

\* Start with n items: each worker takes one, up to as many as there are.
BulkStart(n) ==
    /\ size' = n
    /\ at' = [w \in Workers |-> IF w <= n THEN w ELSE 0]
    /\ next' = IF n < Limit THEN n ELSE Limit
    /\ done' = 0 /\ failed' = {} /\ finished' = {}

NoBulk ==
    /\ size = 0 /\ next = 0 /\ at = [w \in Workers |-> 0]
    /\ done = 0 /\ failed = {} /\ finished = {}

\* Mutant of Take: the item to take is counted by those that are done.
TakeDone(w) ==
    IF next < size THEN at' = [at EXCEPT ![w] = done + 1] /\ next' = next + 1
                   ELSE at' = [at EXCEPT ![w] = 0] /\ UNCHANGED next

Take(w) ==
    IF next < size THEN at' = [at EXCEPT ![w] = next + 1] /\ next' = next + 1
                   ELSE at' = [at EXCEPT ![w] = 0] /\ UNCHANGED next

\* Worker w's item ends, and w takes another or ends.
BulkFinish(w, ok) ==
    /\ at[w] # 0
    /\ done' = done + 1
    /\ failed' = IF ok THEN failed ELSE failed \cup {at[w]}
    /\ finished' = finished \cup {at[w]}
    /\ Take(w)
    /\ UNCHANGED size

\* All its workers return; Promise.all.
BulkEnded == \A w \in Workers : at[w] = 0

BulkTypeOK ==
    /\ size \in Nat /\ next \in 0 .. size /\ done \in Nat
    /\ at \in [Workers -> 0 .. size]
    /\ failed \subseteq finished /\ finished \subseteq 1 .. size

\* Every item is run once: no two workers run the same item, none runs a
\* finished one, those taken are the first, and when the workers have ended
\* nothing is left (bulk.ts:12-14: "calls run for every item").
EachItemOnce ==
    /\ \A v, w \in Workers : at[v] # 0 /\ at[v] = at[w] => v = w
    /\ \A w \in Workers : at[w] \notin finished
    /\ 1 .. next = finished \cup ({at[w] : w \in Workers} \ {0})
    /\ next < size => ~BulkEnded

=============================================================================
