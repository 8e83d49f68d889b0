------------------------------- MODULE Figures -------------------------------
(***************************************************************************)
(* The figures the run page shows (RunBody in TesterRunPage.tsx) of UEs    *)
(* that register and establish their PDU sessions.  An attempt counts in   *)
(* its stage's card, which has a lock of its own (stage.go), and sets the  *)
(* UE's state under the run's lock, in steps of their own                  *)
(* (attemptRegistration, attemptPdu in controller.go); a snapshot holds    *)
(* the run's lock and reads the cards one after another (snapshotPage).    *)
(* What the page computes from it relates figures read at different        *)
(* moments.  The model ends where the run is stopped.                      *)
(***************************************************************************)
EXTENDS Integers, FiniteSets, Functions

CONSTANTS
    Ues,
    Retries,        \* rates.retries
    Causes,
    None

VARIABLES
    at,             \* UE -> the stage and the step it is at
    attempts,       \* UE -> attempts made in its stage
    state,          \* UE -> UeState
    failures,       \* r.failures: the UEs listed as failed
    card,           \* stage -> its counters
    snap,           \* the snapshot being read; None when r.mu is free
    shown           \* the snapshot the page shows, or None

runVars == <<at, attempts, state, failures, card>>
figuresVars == <<runVars, snap, shown>>

Stages   == {"registration", "pdu"}
Outcomes == {"accepted", "rejected", "timedOut"}
UeStates == {"pending", "registering", "registered", "establishing", "established", "failed"}
Steps    == {"queued", "begin", "run", "accepted", "again", "refused", "settling", "over"}

Card == [attempted |-> 0, inFlight |-> 0, skipped |-> 0,
         outcomes |-> [o \in Outcomes |-> 0], causes |-> [c \in Causes |-> 0]]

FiguresTypeOK ==
    /\ at \in [Ues -> [stage : Stages, step : Steps]] /\ state \in [Ues -> UeStates]
    /\ attempts \in [Ues -> 0 .. Retries + 1] /\ failures \subseteq Ues
    /\ DOMAIN card = Stages
    /\ \A s \in Stages : card[s].attempted \in 0 .. Cardinality(Ues) /\ card[s].inFlight \in 0 .. Cardinality(Ues)

Init ==
    /\ at = [u \in Ues |-> [stage |-> "registration", step |-> "queued"]]
    /\ attempts = [u \in Ues |-> 0] /\ state = [u \in Ues |-> "pending"] /\ failures = {}
    /\ card = [s \in Stages |-> Card] /\ snap = None /\ shown = None

-----------------------------------------------------------------------------
(* The attempts. *)

RunLockFree == snap = None
At(u, step) == at[u].step = step
Goes(u, stage, step) == at' = [at EXCEPT ![u] = [stage |-> stage, step |-> step]]

\* Under r.mu: the attempt is counted and the UE's state set; Begin follows.
Attempt(u) ==
    /\ At(u, "queued") /\ RunLockFree
    /\ attempts' = [attempts EXCEPT ![u] = @ + 1]
    /\ state' = [state EXCEPT ![u] = IF at[u].stage = "pdu" THEN "establishing" ELSE "registering"]
    /\ Goes(u, at[u].stage, "begin")
    /\ UNCHANGED <<failures, card, snap, shown>>

\* Retries are not counted as attempts.
Begin(u) ==
    /\ At(u, "begin") /\ Goes(u, at[u].stage, "run")
    /\ card' = [card EXCEPT ![at[u].stage].inFlight = @ + 1,
                            ![at[u].stage].attempted = IF attempts[u] > 1 THEN @ ELSE @ + 1]
    /\ UNCHANGED <<attempts, state, failures, snap, shown>>

\* Retrying, and Finish.
Retrying(s) == card' = [card EXCEPT ![s].inFlight = @ - 1]
Finish(s, outcome, cause) ==
    card' = [card EXCEPT ![s].inFlight = @ - 1, ![s].outcomes[outcome] = @ + 1,
                         ![s].causes[cause] = IF outcome = "accepted" THEN @ ELSE @ + 1]

\* The procedure ends, and is tried again if it failed and may be.
Answered(u) ==
    /\ At(u, "run")
    /\ \E outcome \in Outcomes, cause \in Causes :
         IF outcome = "accepted" THEN Finish(at[u].stage, outcome, cause) /\ Goes(u, at[u].stage, "accepted")
         ELSE IF attempts[u] <= Retries THEN Retrying(at[u].stage) /\ Goes(u, at[u].stage, "again")
         ELSE Finish(at[u].stage, outcome, cause) /\ Goes(u, at[u].stage, "refused")
    /\ UNCHANGED <<attempts, state, failures, snap, shown>>

\* A UE that did not register skips the PDU stage.
Skip(u) ==
    /\ At(u, "refused") /\ Goes(u, at[u].stage, "settling")
    /\ card' = IF at[u].stage = "pdu" THEN card ELSE [card EXCEPT !["pdu"].skipped = @ + 1]
    /\ UNCHANGED <<attempts, state, failures, snap, shown>>

\* Under r.mu: what the attempt came to.
Accepted(u) ==
    /\ At(u, "accepted") /\ RunLockFree
    /\ IF at[u].stage = "pdu" THEN Goes(u, "pdu", "over") /\ state' = [state EXCEPT ![u] = "established"]
                              ELSE Goes(u, "pdu", "queued") /\ state' = [state EXCEPT ![u] = "registered"]
    /\ attempts' = [attempts EXCEPT ![u] = 0]
    /\ UNCHANGED <<failures, card, snap, shown>>

Requeued(u) ==
    /\ At(u, "again") /\ RunLockFree /\ Goes(u, at[u].stage, "queued")
    /\ state' = [state EXCEPT ![u] = IF at[u].stage = "pdu" THEN "registered" ELSE "pending"]
    /\ UNCHANGED <<attempts, failures, card, snap, shown>>

Failed(u) ==
    /\ At(u, "settling") /\ RunLockFree /\ Goes(u, at[u].stage, "over")
    /\ state' = [state EXCEPT ![u] = "failed"] /\ failures' = failures \cup {u}
    /\ UNCHANGED <<attempts, card, snap, shown>>

-----------------------------------------------------------------------------
(* A snapshot: the cards in turn, then what r.mu guards. *)

Counts == [s \in UeStates |-> Cardinality({u \in Ues : state[u] = s})]

ReadRegistration ==
    /\ snap = None /\ snap' = [registration |-> card["registration"]]
    /\ UNCHANGED <<runVars, shown>>

Show ==
    /\ snap # None /\ snap' = None
    /\ shown' = [registration |-> snap.registration, pdu |-> card["pdu"], failedUes |-> failures, ues |-> Counts]
    /\ UNCHANGED runVars

UeStep(u) == Attempt(u) \/ Begin(u) \/ Answered(u) \/ Skip(u) \/ Accepted(u) \/ Requeued(u) \/ Failed(u)
Next == ReadRegistration \/ Show \/ \E u \in Ues : UeStep(u)

-----------------------------------------------------------------------------
(* What the page makes of it. *)

Expected == Cardinality(Ues)
FailuresOf(s) == s.outcomes["rejected"] + s.outcomes["timedOut"]
Shown == {shown.registration, shown.pdu}
Total(f(_)) == f(shown.registration) + f(shown.pdu)
AttemptedOf(s) == s.attempted

\* A row of the procedures' table; a bar of the progress strip, in percent.
ProcRow(s) == [attempts |-> s.attempted, ended |-> s.outcomes["accepted"] + FailuresOf(s), inFlight |-> s.inFlight]
Bar(s) == (100 * s.outcomes["accepted"]) \div Expected

\* mergeCauses, and the bars of the causes, in percent of their total.
MergedCauses == [c \in Causes |-> shown.registration.causes[c] + shown.pdu.causes[c]]
CauseTotal == FoldFunctionOnSet(+, 0, MergedCauses, Causes)
CauseBar(c) == IF CauseTotal = 0 THEN 0 ELSE (100 * MergedCauses[c]) \div CauseTotal

\* The key figures: registered UEs and PDU sessions in percent, failures.
Percent(n, of) == IF of = 0 THEN 0 ELSE (100 * n) \div of
Kpis == [registered |-> Percent(shown.registration.outcomes["accepted"], Expected),
         sessions   |-> Percent(shown.ues["established"], shown.registration.outcomes["accepted"]),
         failures   |-> Percent(Total(FailuresOf), Total(AttemptedOf))]

\* The pill while the run goes on.
Done(s) == ProcRow(s).ended + s.skipped = Expected
Pill == IF ~Done(shown.registration) THEN "Registration" ELSE IF ~Done(shown.pdu) THEN "PDU sessions" ELSE "Traffic"

\* The chips of the UEs' states, and the list of failed UEs.
Chips == shown.ues
FailedRows == shown.failedUes

-----------------------------------------------------------------------------
(* Properties. *)

\* The figures of a snapshot fit each other although UEs go on while it is
\* read: no share passes 100 %, each failure has its cause and each failed UE
\* its row, every UE is in one state, none is past a stage that has not
\* accepted it, and none is pending once the pill says registration is over
\* (controller.go:503-542, TesterRunPage.tsx:511-635).
FiguresFit == shown # None =>
    /\ Range(Kpis) \subseteq 0 .. 100
    /\ \A s \in Shown : Bar(s) <= 100 /\ ProcRow(s).ended + ProcRow(s).inFlight <= Expected
                        /\ ProcRow(s).ended <= ProcRow(s).attempts
    /\ CauseTotal = Total(FailuresOf) /\ \A c \in Causes : CauseBar(c) <= 100
    /\ Cardinality(FailedRows) = Chips["failed"] /\ Chips["failed"] <= Total(FailuresOf)
    /\ FoldFunctionOnSet(+, 0, Chips, UeStates) = Expected
    /\ Chips["established"] <= shown.pdu.outcomes["accepted"]
    /\ Chips["registered"] + Chips["establishing"] + Chips["established"] <= shown.registration.outcomes["accepted"]
    /\ Pill # "Registration" => Chips["pending"] = 0
=============================================================================
