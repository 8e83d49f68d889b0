----------------------------- MODULE SetupPage -----------------------------
(***************************************************************************)
(* The test plan's form (TesterSetupPage.tsx) and the saved profiles it    *)
(* edits (tester profiles in fru-lab's backend, which other browsers       *)
(* change too).  The form is validated by the tester 400 ms after the last *)
(* edit, saved over the open profile or as a new one, and a run is started *)
(* from it.  Nothing of the form is locked while a request is under way:   *)
(* only the buttons that would send a second one are.                      *)
(*                                                                         *)
(* A form keeps its name (a number: freeName counts up, 0 is the empty     *)
(* name), its tester and whether the tester finds it valid.                *)
(***************************************************************************)
EXTENDS Naturals, FiniteSets, Functions, FiniteSetsExt

CONSTANTS
    Names,          \* names a profile may have, without 0
    Ids,            \* identifiers of saved profiles
    Testers,        \* testers a profile may name
    DefaultTester,  \* DEFAULT_TESTER_ID
    SetupEvents,    \* bound: what the user and other browsers do
    None

VARIABLES
    saved,          \* the backend's profiles: id -> form
    list,           \* profiles: the page's copy, None while loading
    form, savedForm, curId,     \* profile, savedJson, currentId
    remembered,     \* the profile this browser had open last (localStorage)
    busy,           \* isBusy
    modal,          \* "none", "choose" (isChoosingSave), or what rename is for
    op,             \* the save or start under way
    timer,          \* the 400 ms of the last edit are not over
    checks,         \* validations under way; newest: its seq is the current one
    validation,     \* the answer shown
    testers,        \* useTesters' list, None while loading
    left,           \* the user has been taken to another page
    setupEvents

setupVars == <<saved, list, form, savedForm, curId, remembered, busy, modal, op, timer, checks,
               validation, testers, left, setupEvents>>

Forms == [name : Names \cup {0}, tester : Testers, valid : BOOLEAN]
Profiles == UNION {[S -> Forms] : S \in SUBSET Ids}
NoOp == [kind |-> "none", form |-> None, id |-> None, then |-> "save"]
Ops  == {NoOp} \cup [kind : {"create", "update", "start"}, form : Forms, id : Ids \cup {None},
                     then : {"save", "start"}]

DefaultForm == [name |-> Min(Names), tester |-> DefaultTester, valid |-> TRUE]

\* nameOwner: the profiles other than except that have the name.
NameOwner(l, name, except) == {id \in DOMAIN l \ {except} : l[id].name = name}

\* freeName: base, or the first of its successors nobody has.
FreeName(l, base) == Min({n \in Names : n >= base /\ NameOwner(l, n, None) = {}})
HasFreeName(l, base) == \E n \in Names : n >= base /\ NameOwner(l, n, None) = {}

Loading == list = None
Dirty   == form # savedForm
NameError == form.name = 0 \/ NameOwner(list, form.name, curId) # {}

\* testerKnown for form f: whether the list of testers ts has its tester.
TesterKnown(f, ts) == IF ts = None THEN "asking" ELSE IF f.tester \in ts THEN "yes" ELSE "removed"

SetupTypeOK ==
    /\ saved \in Profiles /\ list \in Profiles \cup {None}
    /\ form \in Forms /\ savedForm \in Forms \cup {None} /\ curId \in Ids \cup {None}
    /\ remembered \in Ids \cup {None}
    /\ busy \in BOOLEAN /\ timer \in BOOLEAN
    /\ modal \in {"none", "choose", "save", "start"}
    /\ op \in Ops
    /\ checks \subseteq [form : Forms, newest : BOOLEAN]
    /\ validation \in Forms \cup {None} /\ left \in BOOLEAN
    /\ testers \in (SUBSET Testers) \cup {None}
    /\ setupEvents \in 0 .. SetupEvents

Happens == setupEvents < SetupEvents /\ setupEvents' = setupEvents + 1

-----------------------------------------------------------------------------
(* Effects: what a change of the form or of the list of testers starts. *)

Outdated == {[c EXCEPT !.newest = FALSE] : c \in checks}

\* Validate again in 400 ms, dropping the answers still to come; the answer
\* shown stays, unless the form's tester is gone.
Revalidate(f, ts) ==
    LET gone == TesterKnown(f, ts) = "removed" IN
    /\ timer' = ~gone
    /\ checks' = Outdated
    /\ validation' = IF gone THEN None ELSE validation

\* The form becomes f.
FormBecomes(f) == form' = f /\ Revalidate(f, testers)

\* openProfile and openNew.
OpenProfile(id, f) ==
    /\ FormBecomes(f)
    /\ savedForm' = f /\ curId' = id /\ remembered' = id

OpenNew(l) ==
    LET f == [DefaultForm EXCEPT !.name = FreeName(l, @)] IN
    /\ HasFreeName(l, DefaultForm.name)
    /\ FormBecomes(f)
    /\ savedForm' = f /\ curId' = None /\ UNCHANGED remembered

Init ==
    /\ saved \in {p \in Profiles : \A i, j \in DOMAIN p : i # j => p[i].name # p[j].name}
    /\ \A id \in DOMAIN saved : saved[id].name # 0 /\ saved[id].valid
    /\ Cardinality(DOMAIN saved) < Cardinality(Ids)
    /\ list = None
    /\ form = DefaultForm /\ savedForm = None /\ curId = None
    /\ remembered \in DOMAIN saved \cup {None}
    /\ busy = FALSE /\ modal = "none" /\ op = NoOp
    /\ timer = FALSE /\ checks = {} /\ validation = None
    /\ testers = None /\ left = FALSE
    /\ setupEvents = 0

\* The profile to open on arrival: the URL's or the remembered one, else the
\* first by name; "new" asks for none.
ListLoaded ==
    /\ Loading
    /\ \E wanted \in Ids \cup {remembered, "new"} :
        /\ list' = saved
        /\ IF wanted \in DOMAIN saved THEN OpenProfile(wanted, saved[wanted])
           ELSE IF wanted # "new" /\ DOMAIN saved # {}
           THEN LET first == CHOOSE id \in DOMAIN saved :
                                \A i \in DOMAIN saved : saved[id].name <= saved[i].name
                IN  OpenProfile(first, saved[first])
           ELSE OpenNew(saved)
    /\ UNCHANGED <<saved, busy, modal, op, testers, left, setupEvents>>

\* The list cannot be read: the form keeps its defaults and is validated.
ListFailed ==
    /\ Loading /\ Happens
    /\ list' = [i \in {} |-> None]
    /\ FormBecomes(form)
    /\ UNCHANGED <<saved, savedForm, curId, remembered, busy, modal, op, testers, left>>

\* useTesters answers, with an empty list if it failed; the form's effects
\* depend on whether its tester is among them.
TestersListed ==
    /\ testers = None
    /\ \E ts \in {Testers, Testers \ {DefaultTester}, {}} :
        /\ testers' = ts
        /\ IF Loading THEN UNCHANGED <<timer, checks, validation>> ELSE Revalidate(form, ts)
    /\ UNCHANGED <<saved, list, form, savedForm, curId, remembered, busy, modal, op,
                   left, setupEvents>>

TimerFires ==
    /\ timer
    /\ timer' = FALSE
    /\ checks' = checks \cup {[form |-> form, newest |-> TRUE]}
    /\ UNCHANGED <<saved, list, form, savedForm, curId, remembered, busy, modal, op, validation,
                   testers, left, setupEvents>>

\* An answer counts if nothing was asked for after it; a failure shows none.
CheckAnswered(c) ==
    /\ checks' = checks \ {c}
    /\ validation' \in IF c.newest THEN {c.form, None} ELSE {validation}
    /\ UNCHANGED <<saved, list, form, savedForm, curId, remembered, busy, modal, op, timer, testers, left, setupEvents>>

-----------------------------------------------------------------------------
(* The user. *)

\* What the name field, the select next to Start run and the other fields may
\* make of the form; the others only tell whether the tester will find it valid.
TypedName    == {[form EXCEPT !.name = n] : n \in Names \cup {0}}
PickedTester == {[form EXCEPT !.tester = t] : t \in IF testers = None THEN {} ELSE testers}
TypedField   == {[form EXCEPT !.valid = ~@]}

HandleChange ==
    /\ ~Loading /\ modal = "none" /\ Happens
    /\ \E f \in TypedName \cup PickedTester \cup TypedField : f # form /\ FormBecomes(f)
    /\ UNCHANGED <<saved, list, savedForm, curId, remembered, busy, modal, op, testers, left>>

\* Another profile is picked or a new one begun; leave asked about edits.
Switch ==
    /\ ~Loading /\ modal = "none" /\ Happens
    /\ \/ \E id \in DOMAIN list \ {curId} : OpenProfile(id, list[id])
       \/ OpenNew(list)
    /\ UNCHANGED <<saved, list, busy, modal, op, testers, left>>

\* Cancel drops a new profile for the one open before it; without one it
\* leaves the page.
HandleCancel ==
    /\ ~Loading /\ curId = None /\ ~busy /\ modal = "none" /\ Happens
    /\ IF remembered \in DOMAIN list
       THEN OpenProfile(remembered, list[remembered]) /\ UNCHANGED left
       ELSE left' = TRUE /\ UNCHANGED <<form, savedForm, curId, remembered, timer, checks, validation>>
    /\ UNCHANGED <<saved, list, busy, modal, op, testers>>

Send(kind, f, id, then) == op' = [kind |-> kind, form |-> f, id |-> id, then |-> then] /\ busy' = TRUE

\* saveNew: ask for another name if this one is empty or taken.
SaveNew(name, then) ==
    IF name = 0 \/ NameOwner(list, name, None) # {}
    THEN modal' = then /\ UNCHANGED <<op, busy>>
    ELSE modal' = "none" /\ Send("create", [form EXCEPT !.name = name], None, then)

unedited == <<saved, list, form, savedForm, curId, remembered, timer, checks, validation, testers, left>>

HandleSave ==
    /\ ~Loading /\ ~busy /\ modal = "none" /\ Happens
    /\ IF curId = None THEN SaveNew(form.name, "save") ELSE modal' = "choose" /\ UNCHANGED <<op, busy>>
    /\ UNCHANGED unedited

HandleUpdate ==
    /\ modal = "choose" /\ ~NameError
    /\ modal' = "none" /\ Send("update", form, curId, "save")
    /\ UNCHANGED <<unedited, setupEvents>>

HandleSaveAsNew ==
    /\ modal = "choose" /\ SaveNew(form.name, "save")
    /\ UNCHANGED <<unedited, setupEvents>>

HandleRename ==
    /\ modal \in {"save", "start"}
    /\ \E n \in Names : NameOwner(list, n, None) = {} /\ SaveNew(n, modal)
    /\ UNCHANGED <<unedited, setupEvents>>

CloseModal ==
    /\ modal # "none" /\ modal' = "none"
    /\ UNCHANGED <<unedited, op, busy, setupEvents>>

\* The plan is worked out from a valid form only.
PlanShown == validation # None /\ validation.valid

CanStart ==
    /\ ~Loading /\ ~busy /\ PlanShown
    /\ TesterKnown(form, testers) # "removed"
    /\ curId # None => ~NameError

\* handleStart: a new profile is created first, unsaved edits are saved first.
HandleStart ==
    /\ CanStart /\ modal = "none" /\ Happens
    /\ IF curId = None THEN SaveNew(form.name, "start")
       ELSE /\ Send(IF Dirty THEN "update" ELSE "start", form, curId, "start")
            /\ UNCHANGED modal
    /\ UNCHANGED unedited

-----------------------------------------------------------------------------
(* Answers of the backend. *)

\* putProfile refuses a name that is missing or another profile's.
Accepts(id) ==
    /\ op.form.name # 0 /\ NameOwner(saved, op.form.name, id) = {}
    /\ op.kind = "update" => id \in DOMAIN saved

Stored(id) == saved' = [i \in DOMAIN saved \cup {id} |-> IF i = id THEN op.form ELSE saved[i]]

SaveIds == IF op.kind = "create" THEN Ids \ (DOMAIN saved \cup DOMAIN list) ELSE {op.id}

\* stored puts the answer into the list and opens it; then the run starts.
SaveAnswered ==
    /\ op.kind \in {"create", "update"}
    /\ \E id \in SaveIds :
        /\ Accepts(id) /\ Stored(id)
        /\ list' = [i \in DOMAIN list \cup {id} |-> IF i = id THEN op.form ELSE list[i]]
        /\ OpenProfile(id, op.form)
    /\ IF op.then = "start" THEN op' = [op EXCEPT !.kind = "start"] /\ UNCHANGED busy
                            ELSE op' = NoOp /\ busy' = FALSE
    /\ UNCHANGED <<modal, testers, left, setupEvents>>

\* The save is refused, or it is done and its answer gets lost.
SaveFailed ==
    /\ op.kind \in {"create", "update"} /\ Happens
    /\ UNCHANGED saved \/ \E id \in SaveIds : Accepts(id) /\ Stored(id)
    /\ op' = NoOp /\ busy' = FALSE
    /\ UNCHANGED <<list, form, savedForm, curId, remembered, modal, timer, checks, validation, testers, left>>

\* A started run takes the user to its page.
StartAnswered ==
    /\ op.kind = "start"
    /\ \/ left' = TRUE /\ UNCHANGED <<op, busy>>
       \/ op' = NoOp /\ busy' = FALSE /\ UNCHANGED left
    /\ UNCHANGED <<saved, list, form, savedForm, curId, remembered, modal, timer, checks, validation,
                   testers, setupEvents>>

\* Another browser saves or deletes a profile.
Elsewhere ==
    /\ Happens
    /\ \/ \E id \in DOMAIN saved : saved' = [i \in DOMAIN saved \ {id} |-> saved[i]]
       \/ \E id \in DOMAIN saved, n \in Names :
            /\ NameOwner(saved, n, None) = {}
            /\ saved' = [saved EXCEPT ![id].name = n]
    /\ UNCHANGED <<list, form, savedForm, curId, remembered, busy, modal, op, timer, checks, validation,
                   testers, left>>

-----------------------------------------------------------------------------
User == \/ HandleChange \/ Switch \/ HandleCancel \/ HandleSave \/ HandleUpdate \/ HandleSaveAsNew
        \/ HandleRename \/ CloseModal \/ HandleStart
Answers == \/ ListLoaded \/ ListFailed \/ TestersListed \/ TimerFires
           \/ SaveAnswered \/ SaveFailed \/ StartAnswered
           \/ \E c \in checks : CheckAnswered(c)

\* Once the page is left, nothing that is still to come counts.
Next == ~left /\ (User \/ Answers \/ Elsewhere)

-----------------------------------------------------------------------------
(* Properties. *)

\* A verdict is about the form it stands beside: when no validation is due
\* or under way that counts, the answer shown is the current form's
\* (TesterSetupPage.tsx:249-250).
ValidationIsOfForm ==
    ~Loading /\ ~timer /\ (\A c \in checks : ~c.newest) => validation \in {None, form}

\* The open profile is the listed one, as last opened or saved, so what
\* counts as an unsaved edit is told from it.
OpenIsListed == ~Loading /\ curId # None => curId \in DOMAIN list /\ list[curId] = savedForm

\* handleStart saves first: what a run is started with is the profile as it
\* was last saved or opened, never edits that are only in the form or that
\* were typed while it was being saved (TesterSetupPage.tsx:368).
RunsWhatIsSaved == op'.kind = "start" /\ op.kind # "start" => op'.form = savedForm'

=============================================================================
