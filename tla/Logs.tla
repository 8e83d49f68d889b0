-------------------------------- MODULE Logs --------------------------------
(***************************************************************************)
(* The logs page (LogsPage.tsx): its list of sources comes from the core's *)
(* status and from the UEs' two lists, each polled on its own; the first   *)
(* selection follows the link that led here, the later ones are clicks,    *)
(* and each selection fetches the source's log.                            *)
(***************************************************************************)
EXTENDS Naturals, FiniteSets

CONSTANTS
    Ues,
    LogEvents,      \* bound: what the user does, and reads that fail
    None

VARIABLES
    core,           \* the template deployed, None for no core
    subs, deployed, \* the webconsole's subscribers; the UEs ever deployed
    link,           \* ?target=&instance=, None for neither
    template,       \* the template the core's services show
    subsRead, instRead,     \* the two UE lists: "loading", "failed" or "read"
    selected, nf,   \* the source; whether one network function is picked
    fetches,        \* fetches under way
    lines,          \* the fetch the lines shown came from
    loading,        \* isLoading
    logEvents

logVars == <<core, subs, deployed, link, template, subsRead, instRead, selected, nf, fetches, lines, loading, logEvents>>

Gnbs == {"gnb", "slice1", "slice2"}
Kinds == {"core"} \cup Gnbs
Templates == {"basic", "ulcl-2slice"}
Fetches == [on : Kinds \cup Ues, nf : BOOLEAN]
ReadStates == {"loading", "failed", "read"}

LogsTypeOK ==
    /\ core \in Templates \cup {None} /\ template \in Templates \cup {None}
    /\ subs \subseteq Ues /\ deployed \subseteq Ues
    /\ link \in Kinds \cup Ues \cup {None} /\ selected \in Kinds \cup Ues \cup {None}
    /\ subsRead \in ReadStates /\ instRead \in ReadStates
    /\ nf \in BOOLEAN /\ fetches \subseteq Fetches /\ lines \in Fetches \cup {None}
    /\ loading \in BOOLEAN /\ logEvents \in 0 .. LogEvents

Happens == logEvents < LogEvents /\ logEvents' = logEvents + 1

Init ==
    /\ core \in Templates \cup {None} /\ deployed \in SUBSET Ues
    /\ subs \in IF core = None THEN {{}} ELSE SUBSET Ues
    /\ link \in Kinds \cup Ues \cup {None}
    /\ template = None /\ subsRead = "loading" /\ instRead = "loading"
    /\ selected = None /\ nf = FALSE /\ fetches = {} /\ lines = None /\ loading = FALSE /\ logEvents = 0

-----------------------------------------------------------------------------
\* targets: the core, the gNBs the template has, and the UEs in both lists.
TargetsOf(tmpl, s, i) ==
    {"core"} \cup (IF tmpl = "ulcl-2slice" THEN {"slice1", "slice2"} ELSE {"gnb"})
             \cup (IF s = "read" /\ i = "read" THEN subs \cap deployed ELSE {})
Targets == TargetsOf(template, subsRead, instRead)

Ask(target, one) ==
    /\ fetches' = fetches \cup {[on |-> target, nf |-> target = "core" /\ one]}
    /\ loading' = TRUE

Ready(s, i) == s # "loading" /\ i # "loading"

\* The first selection, once both UE lists have been tried: what the link
\* names if that is among the targets, else the core.
Resolve(tmpl, s, i) ==
    IF selected # None \/ ~Ready(s, i) THEN UNCHANGED <<selected, fetches, loading>>
    ELSE /\ selected' = IF link # None /\ link \in TargetsOf(tmpl, s, i) THEN link ELSE "core"
         /\ Ask(selected', FALSE)

\* A poll of the core's status is answered; one that fails changes nothing.
CoreRead ==
    /\ template' = core
    /\ Resolve(core, subsRead, instRead)
    /\ UNCHANGED <<core, subs, deployed, link, subsRead, instRead, nf, lines, logEvents>>

\* A read that fails after one that succeeded leaves its list as it is.
After(old, ok) == IF ok THEN "read" ELSE IF old = "read" THEN old ELSE "failed"

SubscribersRead(ok) ==
    /\ ok => core # None
    /\ ok \/ Happens
    /\ subsRead' = After(subsRead, ok) /\ Resolve(template, subsRead', instRead)
    /\ logEvents' = IF ok THEN logEvents ELSE logEvents + 1
    /\ UNCHANGED <<core, subs, deployed, link, template, instRead, nf, lines>>

InstancesRead(ok) ==
    /\ ok \/ Happens
    /\ instRead' = After(instRead, ok) /\ Resolve(template, subsRead, instRead')
    /\ logEvents' = IF ok THEN logEvents ELSE logEvents + 1
    /\ UNCHANGED <<core, subs, deployed, link, template, subsRead, nf, lines>>

-----------------------------------------------------------------------------
\* A source is clicked, a network function picked, or Refresh pressed.
HandleSelect ==
    /\ Happens
    /\ \E t \in Targets \ {selected} : selected' = t /\ nf' = FALSE /\ Ask(t, FALSE)
    /\ UNCHANGED <<core, subs, deployed, link, template, subsRead, instRead, lines>>

PickNf ==
    /\ selected = "core" /\ template # None /\ Happens
    /\ nf' = ~nf /\ Ask("core", nf')
    /\ UNCHANGED <<core, subs, deployed, link, template, subsRead, instRead, selected, lines>>

Refresh ==
    /\ selected # None /\ ~loading /\ Happens
    /\ Ask(selected, nf)
    /\ UNCHANGED <<core, subs, deployed, link, template, subsRead, instRead, selected, nf, lines>>

\* fetchLogs ends; whatever is selected by now, its lines are shown, and a
\* failure leaves the lines there are.
FetchEnds(f, ok) ==
    /\ f \in fetches /\ fetches' = fetches \ {f}
    /\ lines' = IF ok THEN f ELSE lines
    /\ loading' = FALSE
    /\ UNCHANGED <<core, subs, deployed, link, template, subsRead, instRead, selected, nf, logEvents>>

Next ==
    \/ CoreRead \/ HandleSelect \/ PickNf \/ Refresh
    \/ \E ok \in BOOLEAN : \/ SubscribersRead(ok) \/ InstancesRead(ok)
                           \/ \E f \in fetches : FetchEnds(f, ok)

-----------------------------------------------------------------------------
(* Properties. *)

\* The page selects another source than the link's by itself.
StraysFrom(l) == selected = None /\ selected' # None /\ link = l /\ selected' # l /\ ~HandleSelect

\* A link to a deployed UE is followed: the first selection is the UE unless
\* one of its two lists could not be read (LogsPage.tsx:120-138).
UeLinkKept ==
    \A u \in subs \cap deployed : StraysFrom(u) => subsRead' = "failed" \/ instRead' = "failed"

=============================================================================
