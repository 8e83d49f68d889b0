--------------------------- MODULE SubscriberForm ---------------------------
(***************************************************************************)
(* The subscriber form (SubscriberFormPage.tsx) and the conversions between*)
(* its rows and the webconsole's subscription (subscriberForm.ts).  A row  *)
(* is a slice and one of its DNNs with the flow rules of the session; the  *)
(* subscription keeps them apart: slices with their DNNs, and three lists  *)
(* of rules, QoS flows and charging data joined by slice, DNN and a number *)
(* (qosRef).  The form creates one subscriber, edits one, or creates many  *)
(* with consecutive IMSIs; SubscriberViewPage.tsx shows one, and leads to  *)
(* its form.                                                               *)
(*                                                                         *)
(* A rule keeps its filter and its QoS and charging fields, 0 when they    *)
(* are all empty; a row's other DNN settings travel as its UP security.    *)
(***************************************************************************)
EXTENDS Bulk, Ranked

CONSTANTS
    Slices, Dnns,
    Filters,        \* IP filters
    Fields,         \* what the QoS or the charging fields of a rule may hold
    LastImsi,       \* the last number with as many digits as the form's
    Counts,         \* how many subscribers the form may be for
    FormEvents,     \* bound: what the user edits and opens
    None

VARIABLES
    stored,         \* the webconsole's subscribers, by IMSI
    source,         \* the rows each was saved from, for the properties
    mode,           \* "create", "edit", or the page that shows one, "view"
    count,          \* how many to create
    first,          \* ueId: the IMSI typed in
    sessions,       \* the form's rows; None while loading or not loaded
    saving,         \* isSaving, with what is being saved
    failures,       \* bulkFailures
    open,           \* the page is open
    formEvents

formVars == <<stored, source, mode, count, first, sessions, saving, failures, open, bulkVars, formEvents>>

Happens == formEvents < FormEvents /\ formEvents' = formEvents + 1

Imsis == 1 .. LastImsi
Rules == [filter : Filters, qos : Fields \cup {0}, charge : Fields \cup {0}]
SessionRows == [slice : Slices, default : BOOLEAN, dnn : Dnns, up : {"off", "blank", "set"}, rules : Seq(Rules)]

DefaultRule == [filter |-> 1, qos |-> 1, charge |-> 1]
\* makeSessionRow, and the one row of emptySubscriberForm.
NewRow == [slice |-> CHOOSE s \in Slices : TRUE, default |-> FALSE, dnn |-> CHOOSE d \in Dnns : TRUE,
           up |-> "off", rules |-> <<DefaultRule>>]
EmptyForm == <<[NewRow EXCEPT !.default = TRUE]>>
\* The form once a second DNN of the slice has been typed in.
TwoDnns == EmptyForm \o <<[NewRow EXCEPT !.default = TRUE, !.dnn = CHOOSE d \in Dnns \ {NewRow.dnn} : TRUE]>>

-----------------------------------------------------------------------------
(* toSubscription *)

\* sliceMap: a slice comes where its first row is, which says whether it is a default.
SliceRows(rows) == {i \in DOMAIN rows : \A j \in 1 .. i - 1 : rows[j].slice # rows[i].slice}

\* dnnConfigurations: a DNN of a slice comes where its first row is, and is as its last says.
Session(rows, i) == {j \in DOMAIN rows : rows[j].slice = rows[i].slice /\ rows[j].dnn = rows[i].dnn}
DnnRows(rows, s) == {i \in DOMAIN rows : rows[i].slice = s /\ \A j \in Session(rows, i) : i <= j}
LastOf(rows, i)  == CHOOSE j \in Session(rows, i) : \A k \in Session(rows, i) : k <= j
Config(rows, i)  == [dnn |-> rows[i].dnn, up |-> rows[LastOf(rows, i)].up = "set"]

SliceOf(rows, s) ==
    LET dnns == InOrder(DnnRows(rows, s))
    IN  [slice |-> s, dnns |-> [k \in DOMAIN dnns |-> Config(rows, dnns[k])]]

\* The flow rules of row, numbered, each with the fields f picks.
Numbered(row, f(_)) ==
    [i \in DOMAIN row.rules |-> [slice |-> row.slice, dnn |-> row.dnn, ref |-> i, has |-> f(row.rules[i])]]
FlatRules(rows, f(_)) == Flat([i \in DOMAIN rows |-> Numbered(rows[i], f)])
FilterOf(r) == r.filter
QosOf(r) == r.qos
ChargeOf(r) == r.charge
HavingAny(flat) == Picked(flat, {k \in DOMAIN flat : flat[k].has # 0})

ToSubscription(rows) ==
    LET slices == InOrder(SliceRows(rows)) IN
    [defaults |-> {rows[i].slice : i \in {j \in SliceRows(rows) : rows[j].default}},
     slices   |-> [k \in DOMAIN slices |-> SliceOf(rows, rows[slices[k]].slice)],
     rules    |-> FlatRules(rows, FilterOf),
     qos      |-> HavingAny(FlatRules(rows, QosOf)),
     charging |-> HavingAny(FlatRules(rows, ChargeOf))]

(* fromSubscription *)

\* Mutant of Joined: the DNN is not compared.
JoinedBySlice(entries, rule) ==
    LET match == {i \in DOMAIN entries : entries[i].slice = rule.slice /\ entries[i].ref = rule.ref}
    IN  IF match = {} THEN 0 ELSE entries[CHOOSE i \in match : \A j \in match : i <= j].has

\* The fields of the first entry that belongs to rule, 0 if none does.
Joined(entries, rule) ==
    LET match == {i \in DOMAIN entries : entries[i].slice = rule.slice /\ entries[i].dnn = rule.dnn
                                         /\ entries[i].ref = rule.ref}
    IN  IF match = {} THEN 0 ELSE entries[CHOOSE i \in match : \A j \in match : i <= j].has

RowOf(sub, slice, config) ==
    LET mine == Picked(sub.rules, {k \in DOMAIN sub.rules :
                                        sub.rules[k].slice = slice /\ sub.rules[k].dnn = config.dnn})
    IN [slice |-> slice, dnn |-> config.dnn, up |-> IF config.up THEN "set" ELSE "off",
        default |-> sub.defaults = {} \/ slice \in sub.defaults,
        rules |-> [i \in DOMAIN mine |-> [filter |-> mine[i].has, qos |-> Joined(sub.qos, mine[i]),
                                          charge |-> Joined(sub.charging, mine[i])]]]

FromSubscription(sub) ==
    LET RowsOf(s) == [i \in DOMAIN s.dnns |-> RowOf(sub, s.slice, s.dnns[i])]
        rows == Flat([i \in DOMAIN sub.slices |-> RowsOf(sub.slices[i])])
    IN  IF rows = <<>> THEN <<NewRow>> ELSE rows

\* The view's table of rules.
ViewRules(rows) ==
    Flat([i \in DOMAIN rows |-> [j \in DOMAIN rows[i].rules |->
        [slice |-> rows[i].slice, dnn |-> rows[i].dnn, rule |-> rows[i].rules[j]]]])

\* bulkUeIds: count IMSIs from the first, as long as the digits suffice.
BulkUeIds == IF first + count - 1 > LastImsi THEN <<>> ELSE [i \in 1 .. count |-> first + i - 1]

-----------------------------------------------------------------------------
IsBulk == count > 1
NoSave == [kind |-> "none", ids |-> <<>>, sub |-> None, rows |-> None]

FormTypeOK ==
    /\ DOMAIN stored \subseteq Imsis /\ DOMAIN source = DOMAIN stored
    /\ mode \in {"create", "edit", "view"} /\ count \in Counts /\ first \in Imsis
    /\ sessions # None => sessions \in Seq(SessionRows) /\ sessions # <<>>
    /\ saving.kind \in {"none", "one", "many"} /\ failures \subseteq Imsis /\ open \in BOOLEAN
    /\ BulkTypeOK /\ formEvents \in 0 .. FormEvents

Init ==
    /\ stored = [i \in {} |-> None] /\ source = stored
    /\ mode = "create" /\ count \in Counts /\ first \in {1, LastImsi} /\ sessions \in {EmptyForm, TwoDnns}
    /\ saving = NoSave /\ failures = {} /\ open = TRUE
    /\ NoBulk /\ formEvents = 0

\* A subscriber that is there is opened, to be seen or to be edited.
Open ==
    /\ ~open /\ Happens
    /\ first' \in DOMAIN stored /\ mode' \in {"view", "edit"}
    /\ open' = TRUE /\ count' = 1 /\ sessions' = None /\ failures' = {}
    /\ UNCHANGED <<stored, source, saving, bulkVars>>

\* The view's Edit.
ToEdit ==
    /\ open /\ mode = "view" /\ sessions # None
    /\ mode' = "edit" /\ sessions' = None
    /\ UNCHANGED <<stored, source, count, first, saving, failures, open, bulkVars, formEvents>>

\* startAdd: one more, or count more, are added from a new form.
StartAdd ==
    /\ ~open /\ Happens
    /\ open' = TRUE /\ mode' = "create" /\ count' \in Counts
    /\ first' = 1 /\ sessions' = EmptyForm /\ failures' = {}
    /\ UNCHANGED <<stored, source, saving, bulkVars>>

\* loadForEdit, and the view's load; one that fails shows only the way back.
Loaded ==
    /\ open /\ sessions = None
    /\ sessions' = FromSubscription(stored[first])
    /\ UNCHANGED <<stored, source, mode, count, first, saving, failures, open, bulkVars, formEvents>>

Back ==
    /\ open /\ saving = NoSave /\ DOMAIN stored # {} /\ open' = FALSE
    /\ UNCHANGED <<stored, source, mode, count, first, sessions, saving, failures, bulkVars, formEvents>>

-----------------------------------------------------------------------------
(* Editing; a request under way does not lock the form. *)

Without(s, i) == Picked(s, DOMAIN s \ {i})

SliceFields(row) == {[row EXCEPT !.slice = s] : s \in Slices} \cup {[row EXCEPT !.default = ~@]}
DnnFields(row) == {[row EXCEPT !.dnn = d] : d \in Dnns}
UpSecurity(row) ==
    IF row.up = "off" THEN {[row EXCEPT !.up = "set"]}
                      ELSE {[row EXCEPT !.up = u] : u \in {"off", "blank", "set"}}

\* updateFlowRule, and a rule's Delete.
RuleFields(row) ==
    {[row EXCEPT !.rules = Without(@, i)] : i \in DOMAIN row.rules}
    \cup {[row EXCEPT !.rules[i].qos = f] : i \in DOMAIN row.rules, f \in Fields \cup {0}}
    \cup {[row EXCEPT !.rules[i].charge = f] : i \in DOMAIN row.rules, f \in Fields \cup {0}}
    \cup {[row EXCEPT !.rules[i].filter = f] : i \in DOMAIN row.rules, f \in Filters}
NewRule(row) == {[row EXCEPT !.rules = Append(@, DefaultRule)]}

Editing == open /\ mode # "view" /\ sessions # None /\ Happens

EditRow ==
    /\ Editing
    /\ \E i \in DOMAIN sessions :
         \E row \in (SliceFields(sessions[i]) \cup DnnFields(sessions[i]) \cup UpSecurity(sessions[i])
                    \cup RuleFields(sessions[i]) \cup NewRule(sessions[i])) \ {sessions[i]} :
            sessions' = [sessions EXCEPT ![i] = row]
    /\ UNCHANGED <<stored, source, mode, count, first, saving, failures, open, bulkVars>>

AddSlice ==
    /\ Editing /\ sessions' = Append(sessions, NewRow)
    /\ UNCHANGED <<stored, source, mode, count, first, saving, failures, open, bulkVars>>

DeleteSlice ==
    /\ Editing /\ Len(sessions) > 1
    /\ \E i \in DOMAIN sessions : sessions' = Without(sessions, i)
    /\ UNCHANGED <<stored, source, mode, count, first, saving, failures, open, bulkVars>>

EditImsi ==
    /\ open /\ mode = "create" /\ Happens
    /\ first' \in Imsis \ {first}
    /\ UNCHANGED <<stored, source, mode, count, sessions, saving, failures, open, bulkVars>>

-----------------------------------------------------------------------------
(* handleSubmit *)

Submit ==
    /\ open /\ mode # "view" /\ sessions # None /\ saving = NoSave
    /\ IF IsBulk THEN BulkUeIds # <<>> /\ BulkStart(count) /\ failures' = {}
                 ELSE UNCHANGED <<bulkVars, failures>>
    /\ saving' = [kind |-> IF IsBulk THEN "many" ELSE "one",
                  ids |-> IF IsBulk THEN BulkUeIds ELSE <<first>>, sub |-> ToSubscription(sessions), rows |-> sessions]
    /\ UNCHANGED <<stored, source, mode, count, first, sessions, open, formEvents>>

Store(imsi) ==
    /\ stored' = [i \in DOMAIN stored \cup {imsi} |-> IF i = imsi THEN saving.sub ELSE stored[i]]
    /\ source' = [i \in DOMAIN stored \cup {imsi} |-> IF i = imsi THEN saving.rows ELSE source[i]]

\* The webconsole stores it and answers, or refuses it.
SaveAnswered(ok) ==
    /\ saving.kind = "one" /\ saving' = NoSave
    /\ IF ok THEN Store(saving.ids[1]) /\ open' = FALSE ELSE UNCHANGED <<stored, source, open>>
    /\ UNCHANGED <<mode, count, first, sessions, failures, bulkVars, formEvents>>

BulkItem(w, ok) ==
    /\ saving.kind = "many" /\ BulkFinish(w, ok)
    /\ IF ok THEN Store(saving.ids[at[w]]) ELSE UNCHANGED <<stored, source>>
    /\ UNCHANGED <<mode, count, first, sessions, saving, failures, open, formEvents>>

BulkDone ==
    /\ saving.kind = "many" /\ BulkEnded /\ saving' = NoSave
    /\ failures' = {saving.ids[i] : i \in failed} /\ open' = (failed # {})
    /\ UNCHANGED <<stored, source, mode, count, first, sessions, bulkVars, formEvents>>

Next ==
    \/ Open \/ ToEdit \/ StartAdd \/ Loaded \/ Back
    \/ EditRow \/ AddSlice \/ DeleteSlice \/ EditImsi \/ Submit
    \/ \E ok \in BOOLEAN : SaveAnswered(ok) \/ \E w \in Workers : BulkItem(w, ok)
    \/ BulkDone

-----------------------------------------------------------------------------
(* Properties. *)

\* Rows the subscription has room for: each slice with a DNN once, a slice's
\* rows of one mind about its being a default, and a default slice.
Storable(rows) ==
    /\ \A i, j \in DOMAIN rows : rows[i].slice = rows[j].slice =>
            rows[i].default = rows[j].default /\ (rows[i].dnn = rows[j].dnn => i = j)
    /\ \E i \in DOMAIN rows : rows[i].default

AsStored(rows) == {[rows[i] EXCEPT !.up = IF @ = "set" THEN "set" ELSE "off"] : i \in DOMAIN rows}

\* A subscriber opened again has the rows it was saved with, each rule with
\* its own QoS and charging, and its view lists every rule once
\* (subscriberForm.ts:177-390, SubscriberViewPage.tsx:63).
ReopensAsSaved ==
    \A u \in DOMAIN stored : Storable(source[u]) =>
        LET rows == FromSubscription(stored[u]) IN
        /\ AsStored(rows) = AsStored(source[u])
        /\ Len(ViewRules(rows)) = Len(stored[u].rules)

\* A bulk create that ends without failures has created count subscribers
\* with consecutive IMSIs from the first, all alike (SubscriberFormPage.tsx:90-117).
BulkCreatesAll ==
    saving.kind = "many" /\ open /\ ~open' =>
        \A i \in 0 .. count - 1 : LET u == saving.ids[1] + i IN
            u \in DOMAIN stored' /\ stored'[u] = saving.sub

=============================================================================
