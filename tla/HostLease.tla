------------------------------ MODULE HostLease ------------------------------
(***************************************************************************)
(* What the controller promises the host it runs on: the network           *)
(* configuration is leased to one user at a time (a run, or a ping test),  *)
(* only that user changes it, and the lease ends with the configuration it *)
(* began with -- unless the kernel refused to take back what was added.    *)
(***************************************************************************)

CONSTANTS
    Users,      \* everything that may hold the lease
    Free,       \* the lease is not held
    Configs     \* the network configurations the host can be in

VARIABLES
    owner,      \* the user holding the lease, or Free
    config,     \* the host's addresses and routes
    base,       \* the configuration before any lease, never changed
    refused     \* an undo failed; the promise to restore is off

vars == <<owner, config, base, refused>>

TypeOK ==
    /\ owner \in Users \cup {Free}
    /\ config \in Configs
    /\ base \in Configs
    /\ refused \in BOOLEAN

Init ==
    /\ owner = Free
    /\ config \in Configs
    /\ base = config
    /\ refused = FALSE

Acquire(u) ==
    /\ owner = Free
    /\ owner' = u
    /\ UNCHANGED <<config, base, refused>>

Use ==
    /\ owner # Free
    /\ config' \in Configs
    /\ refused' \in BOOLEAN
    /\ refused => refused'
    /\ UNCHANGED <<owner, base>>

Release ==
    /\ owner # Free
    /\ config = base \/ refused
    /\ owner' = Free
    /\ UNCHANGED <<config, base, refused>>

Next ==
    \/ \E u \in Users : Acquire(u)
    \/ Use
    \/ Release

Spec == Init /\ [][Next]_vars

=============================================================================
