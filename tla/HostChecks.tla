----------------------------- MODULE HostChecks -----------------------------
(***************************************************************************)
(* What the test plan's form shows of the tester's host: its interfaces    *)
(* (InterfaceField.tsx), the ping tests (PingTest.tsx) and the pre-flight  *)
(* checks made of both (TesterSetupPage.tsx).  A list or a ping is asked   *)
(* of the tester the form names at that moment; the answer says nothing of *)
(* whom it came from, and the form may name another one by then.           *)
(***************************************************************************)
EXTENDS Naturals, FiniteSets

CONSTANTS
    Testers, DefaultTester,
    Ifaces,         \* interface names
    IfacesOf,       \* tester -> the interfaces of its host
    Planes,         \* "n2", "n3", "n6"
    HostEvents,     \* bound: what the user does
    None

VARIABLES
    testerList,     \* useTesters' list, None while loading
    chosen, iface,  \* the form's tester and its interface of each plane
    menu,           \* interfaces: whose are shown, "loading", or "unlisted"
    listings,       \* testers whose list is still to come
    pinging,        \* PingTest's state: what a busy one is asked for
    verdict,        \* pings: what the last one was asked for, and if it answered
    hostEvents

hostVars == <<testerList, chosen, iface, menu, listings, pinging, verdict, hostEvents>>

Targets == [tester : Testers, iface : Ifaces \cup {""}]

HostTypeOK ==
    /\ testerList \in (SUBSET Testers) \cup {None}
    /\ chosen \in Testers /\ iface \in [Planes -> Ifaces \cup {""}]
    /\ menu \in Testers \cup {"loading", "unlisted"} /\ listings \subseteq Testers
    /\ pinging \in [Planes -> Targets \cup {None}]
    /\ verdict \in [Planes -> [target : Targets, ok : BOOLEAN] \cup {None}]
    /\ hostEvents \in 0 .. HostEvents

Happens == hostEvents < HostEvents /\ hostEvents' = hostEvents + 1

\* testerKnown for tester t and list ts.
Removed(t, ts) == ts # None /\ t \notin ts

\* loadInterfaces, run again for another tester and when its being known changes.
LoadInterfaces(t, ts) ==
    IF Removed(t, ts) THEN menu' = "unlisted" /\ UNCHANGED listings
                      ELSE menu' = "loading" /\ listings' = listings \cup {t}

Init ==
    /\ testerList = None /\ chosen \in Testers
    /\ iface \in [Planes -> Ifaces \cup {""}]
    /\ menu = "loading" /\ listings = {chosen}
    /\ pinging = [p \in Planes |-> None] /\ verdict = [p \in Planes |-> None]
    /\ hostEvents = 0

TestersListed ==
    /\ testerList = None
    /\ testerList' \in {Testers, Testers \ {DefaultTester}, {}}
    /\ LoadInterfaces(chosen, testerList')
    /\ UNCHANGED <<chosen, iface, pinging, verdict, hostEvents>>

ListingAnswered(t) ==
    /\ t \in listings /\ listings' = listings \ {t}
    /\ menu' \in {t, "unlisted"}
    /\ UNCHANGED <<testerList, chosen, iface, pinging, verdict, hostEvents>>

\* The select next to Start run.
PickTester ==
    /\ testerList # None /\ Happens
    /\ \E t \in testerList \ {chosen} : chosen' = t /\ LoadInterfaces(t, testerList)
    /\ UNCHANGED <<testerList, iface, pinging, verdict>>

\* "Refresh list", hidden while the list is loading.
Refresh ==
    /\ menu # "loading" /\ Happens
    /\ LoadInterfaces(chosen, testerList)
    /\ UNCHANGED <<testerList, chosen, iface, pinging, verdict>>

\* The menu offers the host's interfaces; without a list the name is typed.
Offered == IF menu = "loading" THEN {} ELSE IF menu = "unlisted" THEN Ifaces ELSE IfacesOf[menu]

PickInterface(p) ==
    /\ Happens
    /\ \E i \in Offered \ {iface[p]} : iface' = [iface EXCEPT ![p] = i]
    /\ UNCHANGED <<testerList, chosen, menu, listings, pinging, verdict>>

\* handlePing; the button is off while a ping of the plane is under way.
HandlePing(p) ==
    /\ pinging[p] = None /\ Happens
    /\ pinging' = [pinging EXCEPT ![p] = [tester |-> chosen, iface |-> iface[p]]]
    /\ UNCHANGED <<testerList, chosen, iface, menu, listings, verdict>>

\* An interface the host does not have cannot be pinged from.
PingAnswered(p) ==
    /\ pinging[p] # None
    /\ pinging' = [pinging EXCEPT ![p] = None]
    /\ \E ok \in IF pinging[p].iface \in IfacesOf[pinging[p].tester] THEN BOOLEAN ELSE {FALSE} :
        verdict' = [verdict EXCEPT ![p] = [target |-> pinging[p], ok |-> ok]]
    /\ UNCHANGED <<testerList, chosen, iface, menu, listings, hostEvents>>

Next ==
    \/ TestersListed \/ PickTester \/ Refresh
    \/ \E t \in Testers : ListingAnswered(t)
    \/ \E p \in Planes : PickInterface(p) \/ HandlePing(p) \/ PingAnswered(p)

-----------------------------------------------------------------------------
(* The pre-flight checks. *)

\* A plane's interface: none while there is no list.
InterfaceCheck(p) ==
    IF menu \in {"loading", "unlisted"} THEN "none"
    ELSE IF iface[p] \in IfacesOf[menu] THEN "passed" ELSE "warning"

PeerCheck(p) == IF verdict[p] = None THEN "none" ELSE IF verdict[p].ok THEN "passed" ELSE "warning"

(* Properties. *)

\* The menu does not stay at "Loading interfaces...": while it does, a list
\* is on its way (TesterSetupPage.tsx:177-191).
MenuComes == menu = "loading" => listings # {}

=============================================================================
