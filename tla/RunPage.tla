------------------------------ MODULE RunPage ------------------------------
(***************************************************************************)
(* The page of a tester's run (TesterRunPage.tsx) and the stream it shows  *)
(* (handleStream in tester/api): the page asks for the run once, then      *)
(* keeps a WebSocket open on which the tester pushes a snapshot whenever   *)
(* something changed.  The gNB table is paged at the tester: the page and  *)
(* filter wanted travel in the socket's URL when it is opened and as a     *)
(* message afterwards.  Sockets break, testers restart, the user follows   *)
(* the browser's history from one tester's run to another's.               *)
(*                                                                         *)
(* A snapshot keeps the run's state and how many gNBs match the filter; a  *)
(* page of the table holds PageSize of them.  fru-lab's proxy in between   *)
(* only copies frames.                                                     *)
(***************************************************************************)
EXTENDS Integers, Sequences, FiniteSets, FiniteSetsExt

CONSTANTS
    Testers,
    Active,         \* testers whose runs change while the page is open
    Gnbs,           \* gNBs of a run
    PageSize,       \* GNB_PAGE
    Sockets,        \* bound: sockets not closed yet
    MaxFrames,      \* bound: frames or requests on their way on a socket
    MaxEvents,      \* bound: what the user, the network and the runs do
    NoSnapshot, NoSocket

ASSUME RunPageOK ==
    /\ Active \subseteq Testers
    /\ Gnbs \in Nat /\ PageSize \in Nat \ {0}
    /\ Sockets # {}
    /\ MaxFrames \in Nat /\ MaxEvents \in Nat
    /\ NoSocket \notin Sockets

\* The filters of the gNB table: every gNB, or those not up.
Filters == {"all", "bad"}

RunStates == {"idle", "running", "stopping", "stopped"}
ActiveStates == {"running"}    \* ACTIVE_STATES: configuring and n2 included

\* gnbQuery, the page request (GnbPageRequest).
Query(page, filter) == [offset |-> (page - 1) * PageSize, filter |-> filter]
Queries == [offset : Nat, filter : Filters]

\* A tester's run: its state, whether somebody asked it to stop, gNBs not up.
Hosts == [st : RunStates, asked : BOOLEAN, bad : 0 .. Gnbs]

IdleRun == [st |-> "idle", asked |-> FALSE, bad |-> 0]

Snapshot == [tester : Testers, st : RunStates, offset : Nat, total : 0 .. Gnbs]
ASSUME NoSnapshotOK == NoSnapshot \notin Snapshot

\* SnapshotPage: the gNBs the filter picks, from the page asked for.
SnapshotOf(t, h, q) ==
    LET total == IF h.st = "idle" THEN 0 ELSE IF q.filter = "all" THEN Gnbs ELSE h.bad
    IN  [tester |-> t, st |-> h.st, offset |-> Min({q.offset, total}), total |-> total]

\* How many pages a table of total gNBs has (RunBody).
Pages(total) == Max({1, (total + PageSize - 1) \div PageSize})

VARIABLES
    host,           \* tester -> its run
    tid,            \* testerId, from the URL
    shown,          \* snapshot
    connected,      \* isConnected
    page, filter,   \* gnbPage, gnbStates
    query,          \* query.current
    current,        \* socketRef.current, which is the effect's socket too
    retry,          \* retryTimer is set
    conn,           \* socket -> its connection
    gets,           \* first reads of the run not answered yet
    stop,           \* handleStop's request, and isStopping
    events          \* how much has happened so far

pageVars == <<tid, shown, connected, page, filter, query, current, retry>>
vars     == <<host, pageVars, conn, gets, stop, events>>

\* A connection: the client's socket (state, mine: not closed by the page),
\* frames down, requests up, and the tester's goroutines: where the sender
\* is, the page it lists, the notifications it has, and what it sent last.
Conn == [state : {"free", "connecting", "open", "lost", "closing"}, mine : BOOLEAN,
         tester : Testers, up : Seq(Queries), down : Seq(Snapshot),
         pc : {"off", "write", "wait"}, q : Queries, taken : Queries,
         paged : BOOLEAN, changed : BOOLEAN, sent : Snapshot \cup {NoSnapshot}]

Dial(t, q) == [state |-> "connecting", mine |-> TRUE, tester |-> t, up |-> <<>>, down |-> <<>>,
               pc |-> "off", q |-> q, taken |-> q, paged |-> FALSE, changed |-> FALSE,
               sent |-> NoSnapshot]
FreeConn == [Dial(CHOOSE t \in Testers : TRUE, Query(1, "all")) EXCEPT !.state = "free", !.mine = FALSE]

Free == {s \in Sockets : conn[s].state = "free"}
NextFree == CHOOSE s \in Free : TRUE

Get == [tester : Testers, st : {"sent"}, snap : {NoSnapshot}]
       \cup [tester : Testers, st : {"answered"}, snap : Snapshot]
NewGet(t) == [tester |-> t, st |-> "sent", snap |-> NoSnapshot]

Stop == [st : {"none", "sent", "answered"}, tester : Testers, confirmed : BOOLEAN,
         did : {"none", "stopped", "skipped", "refused"}]
NoStop == [st |-> "none", tester |-> CHOOSE t \in Testers : TRUE, confirmed |-> FALSE, did |-> "none"]

TypeOK ==
    /\ host \in [Testers -> Hosts]
    /\ tid \in Testers
    /\ shown \in Snapshot \cup {NoSnapshot}
    /\ connected \in BOOLEAN /\ retry \in BOOLEAN
    /\ page \in Nat \ {0} /\ filter \in Filters /\ query \in Queries
    /\ current \in Sockets \cup {NoSocket}
    /\ conn \in [Sockets -> Conn]
    /\ gets \subseteq Get
    /\ stop \in Stop
    /\ events \in Nat

Init ==
    /\ host \in [Testers -> {IdleRun} \cup [st : {"running"}, asked : {FALSE}, bad : {0, Gnbs}]]
    /\ \A t \in Testers \ Active : host[t] = IdleRun
    /\ tid \in Testers
    /\ shown = NoSnapshot /\ connected = FALSE /\ retry = FALSE
    /\ page = 1 /\ filter = "all" /\ query = Query(1, "all")
    /\ current = CHOOSE s \in Sockets : TRUE
    /\ conn = [s \in Sockets |-> IF s = current THEN Dial(tid, query) ELSE FreeConn]
    /\ gets = {NewGet(tid)}
    /\ stop = NoStop
    /\ events = 0

Happens == events < MaxEvents /\ events' = events + 1

-----------------------------------------------------------------------------
(* The tester's run, and the notifications its changes cause. *)

\* Changed(): every stream of the tester that took the channel is woken.
Notified(t) == [s \in Sockets |-> IF conn[s].tester = t /\ conn[s].pc # "off"
                                  THEN [conn[s] EXCEPT !.changed = TRUE] ELSE conn[s]]

RunBecomes(t, h) ==
    /\ host' = [host EXCEPT ![t] = h]
    /\ conn' = Notified(t)
    /\ UNCHANGED <<pageVars, gets, stop>>

\* Somebody starts a run.
Launch(t) ==
    /\ host[t].st \in {"idle", "stopped"} /\ Happens
    /\ RunBecomes(t, [st |-> "running", asked |-> FALSE, bad |-> 0])

\* gNBs fail, are lost, or come up again.
GnbsChange(t) ==
    /\ host[t].st = "running" /\ Happens
    /\ \E n \in 0 .. Gnbs : n # host[t].bad /\ RunBecomes(t, [host[t] EXCEPT !.bad = n])

\* The maximum run time is over, or another client stops the run.
StoppedElsewhere(t) ==
    /\ host[t].st = "running" /\ ~host[t].asked /\ Happens
    /\ host' = [host EXCEPT ![t].asked = TRUE]
    /\ UNCHANGED <<pageVars, conn, gets, stop>>

\* The run's goroutine takes the stop up: it deregisters the UEs.
CleansUp(t) ==
    /\ host[t].st = "running" /\ host[t].asked /\ UNCHANGED events
    /\ RunBecomes(t, [host[t] EXCEPT !.st = "stopping"])

RunEnds(t) ==
    /\ host[t].st = "stopping" /\ UNCHANGED events
    /\ RunBecomes(t, [host[t] EXCEPT !.st = "stopped"])

\* Controller.Stop: a run that cleans up already is told to skip the rest.
StopHandled ==
    LET h == host[stop.tester] IN
    /\ stop.st = "sent"
    /\ stop' = [stop EXCEPT !.st = "answered",
                            !.did = CASE h.st \in {"idle", "stopped"} -> "refused"
                                      [] h.st = "stopping" -> "skipped"
                                      [] OTHER -> "stopped"]
    /\ host' = [host EXCEPT ![stop.tester].asked = @ \/ h.st = "running"]
    /\ UNCHANGED <<pageVars, conn, gets, events>>

-----------------------------------------------------------------------------
(* handleStream: the sending and the reading goroutine of a connection. *)

\* The sender takes the notification channel and the page wanted, and only
\* then the snapshot it writes.
Captured(c) == [c EXCEPT !.pc = "write", !.changed = FALSE, !.taken = c.q, !.sent = NoSnapshot]

Write(s) ==
    LET frame == SnapshotOf(conn[s].tester, host[conn[s].tester], conn[s].taken) IN
    /\ conn[s].pc = "write" /\ Len(conn[s].down) < MaxFrames
    /\ conn' = [conn EXCEPT ![s].pc = "wait", ![s].taken = conn[s].q,
                            ![s].sent = frame, ![s].down = Append(@, frame)]
    /\ UNCHANGED <<host, pageVars, gets, stop, events>>

\* A new page wanted, a change or the ticker ends the wait.
Wake(s) ==
    /\ conn[s].pc = "wait"
    /\ \/ conn[s].paged /\ conn' = [conn EXCEPT ![s] = Captured([@ EXCEPT !.paged = FALSE])]
       \/ conn[s].changed /\ conn' = [conn EXCEPT ![s] = Captured(@)]
    /\ UNCHANGED <<host, pageVars, gets, stop, events>>

Tick(s) ==
    /\ conn[s].pc = "wait"
    /\ conn' = [conn EXCEPT ![s] = Captured(@)]
    /\ UNCHANGED <<host, pageVars, gets, stop, events>>

\* Mutant of ReadRequest: the page is stored, but the sender is not told.
ReadRequestOnly(s) ==
    /\ conn[s].pc # "off" /\ conn[s].up # <<>>
    /\ conn' = [conn EXCEPT ![s].up = Tail(@), ![s].q = Head(conn[s].up)]
    /\ UNCHANGED <<host, pageVars, gets, stop, events>>

ReadRequest(s) ==
    /\ conn[s].pc # "off" /\ conn[s].up # <<>>
    /\ conn' = [conn EXCEPT ![s].up = Tail(@), ![s].q = Head(conn[s].up), ![s].paged = TRUE]
    /\ UNCHANGED <<host, pageVars, gets, stop, events>>

-----------------------------------------------------------------------------
(* Connections. *)

\* The tester upgrades the request and the page's socket opens (onopen).
Opened(s) ==
    /\ conn[s].state = "connecting"
    /\ conn' = [conn EXCEPT ![s] = Captured([@ EXCEPT !.state = "open"])]
    /\ connected' = TRUE
    /\ UNCHANGED <<host, tid, shown, page, filter, query, current, retry, gets, stop, events>>

\* The handshake fails, the tester restarts or the network breaks.
Dropped(s) ==
    /\ conn[s].state \in {"connecting", "open"} /\ Happens
    /\ conn' = [conn EXCEPT ![s] = [FreeConn EXCEPT !.state = "lost", !.mine = TRUE, !.tester = conn[s].tester]]
    /\ UNCHANGED <<host, pageVars, gets, stop>>

\* Mutant of OnClose: connect again only after a connection that was open.
OnCloseOpened(s) ==
    /\ conn[s].state \in {"lost", "closing"}
    /\ conn' = [conn EXCEPT ![s] = FreeConn]
    /\ connected' = FALSE
    /\ retry' = (retry \/ (conn[s].mine /\ connected))
    /\ UNCHANGED <<host, tid, shown, page, filter, query, current, gets, stop, events>>

\* onclose: the page sets a timer to connect again unless it closed the socket.
OnClose(s) ==
    /\ conn[s].state \in {"lost", "closing"}
    /\ conn' = [conn EXCEPT ![s] = FreeConn]
    /\ connected' = FALSE
    /\ retry' = (retry \/ conn[s].mine)
    /\ UNCHANGED <<host, tid, shown, page, filter, query, current, gets, stop, events>>

\* The timer fires: connect, with the page wanted now in the URL.
Reconnect ==
    /\ retry /\ Free # {}
    /\ LET s == NextFree IN
        /\ conn' = [conn EXCEPT ![s] = Dial(tid, query)]
        /\ current' = s
    /\ retry' = FALSE
    /\ UNCHANGED <<host, tid, shown, connected, page, filter, query, gets, stop, events>>

-----------------------------------------------------------------------------
(* The page. *)

\* showGnbs on connections c: remember the page, and send it if the socket is open.
ShowGnbs(p, f, c) ==
    /\ page' = p /\ filter' = f /\ query' = Query(p, f)
    /\ conn' = IF current # NoSocket /\ c[current].state = "open"
               THEN [c EXCEPT ![current].up = Append(@, Query(p, f))] ELSE c

\* Mutant of Render: RunBody has no effect.
RenderOnly(snap, c) ==
    /\ shown' = snap /\ conn' = c
    /\ UNCHANGED <<page, filter, query>>

\* A snapshot is rendered; if it leaves fewer pages than the one shown,
\* RunBody's effect goes to the last.
Render(snap, c) ==
    /\ shown' = snap
    /\ IF snap.st # "idle" /\ page > Pages(snap.total)
       THEN ShowGnbs(Pages(snap.total), filter, c)
       ELSE conn' = c /\ UNCHANGED <<page, filter, query>>

OnMessage(s) ==
    /\ conn[s].state = "open" /\ conn[s].down # <<>>
    /\ Len(conn[s].up) < MaxFrames
    /\ Render(Head(conn[s].down), [conn EXCEPT ![s].down = Tail(@)])
    /\ UNCHANGED <<host, tid, connected, current, retry, gets, stop, events>>

\* The first read is answered by the tester, then reaches the page.
GetAnswered(g) ==
    /\ g.st = "sent"
    /\ gets' = (gets \ {g}) \cup
               {[g EXCEPT !.st = "answered", !.snap = SnapshotOf(g.tester, host[g.tester], Query(1, "all"))]}
    /\ UNCHANGED <<host, pageVars, conn, stop, events>>

GetShown(g) ==
    /\ g.st = "answered"
    /\ gets' = gets \ {g}
    /\ current = NoSocket \/ Len(conn[current].up) < MaxFrames
    /\ Render(g.snap, conn)
    /\ UNCHANGED <<host, tid, connected, current, retry, stop, events>>

GetFailed(g) ==
    /\ Happens
    /\ gets' = gets \ {g}
    /\ UNCHANGED <<host, pageVars, conn, stop>>

HasRun == shown # NoSnapshot /\ shown.st # "idle"

\* The user turns the table's page, or picks a filter.
PickPage ==
    /\ HasRun /\ Happens
    /\ current = NoSocket \/ Len(conn[current].up) < MaxFrames
    /\ \/ \E p \in 1 .. Pages(shown.total) : p # page /\ ShowGnbs(p, filter, conn)
       \/ \E f \in Filters : f # filter /\ ShowGnbs(1, f, conn)
    /\ UNCHANGED <<host, tid, shown, connected, current, retry, gets, stop>>

IsActive     == shown # NoSnapshot /\ shown.st \in ActiveStates
IsCleaningUp == shown # NoSnapshot /\ shown.st = "stopping"

\* Stop run, or after a question Skip cleanup.
HandleStop ==
    /\ stop.st = "none" /\ (IsActive \/ IsCleaningUp) /\ Happens
    /\ stop' = [st |-> "sent", tester |-> tid, confirmed |-> IsCleaningUp, did |-> "none"]
    /\ UNCHANGED <<host, pageVars, conn, gets>>

StopAnswered ==
    /\ stop.st = "answered"
    /\ stop' = NoStop
    /\ UNCHANGED <<host, pageVars, conn, gets, events>>

\* The cleanup of the stream's effect: no timer, and the socket is closed.
\* A close in CONNECTING or OPEN ends the connection for the tester too.
Closed(c) == [s \in Sockets |->
                IF c[s].mine /\ c[s].state \in {"connecting", "open"}
                THEN [FreeConn EXCEPT !.state = "closing"]
                ELSE [c[s] EXCEPT !.mine = FALSE]]

\* Mutant of Visit: the cleanup forgets the timer.
VisitWithTimer(t) ==
    /\ t # tid /\ Happens /\ Free # {}
    /\ tid' = t
    /\ shown' = NoSnapshot
    /\ page' = 1 /\ filter' = "all" /\ query' = Query(1, "all")
    /\ gets' = gets \cup {NewGet(t)}
    /\ LET s == NextFree IN
        /\ current' = s
        /\ conn' = [Closed(conn) EXCEPT ![s] = Dial(t, query')]
    /\ UNCHANGED <<host, connected, retry, stop>>

\* The URL names another tester: both effects run again.
Visit(t) ==
    /\ t # tid /\ Happens /\ Free # {}
    /\ tid' = t
    /\ shown' = NoSnapshot
    /\ page' = 1 /\ filter' = "all" /\ query' = Query(1, "all")
    /\ gets' = gets \cup {NewGet(t)}
    /\ retry' = FALSE
    /\ LET s == NextFree IN
        /\ current' = s
        /\ conn' = [Closed(conn) EXCEPT ![s] = Dial(t, query')]
    /\ UNCHANGED <<host, connected, stop>>

-----------------------------------------------------------------------------
Server(s) == Write(s) \/ Wake(s) \/ Tick(s) \/ ReadRequest(s)
Browser(s) == Opened(s) \/ OnClose(s) \/ OnMessage(s)
Answers   == StopHandled \/ StopAnswered \/ \E g \in gets : GetAnswered(g) \/ GetShown(g)
RunMoves(t) == Launch(t) \/ GnbsChange(t) \/ StoppedElsewhere(t)
Tester(t) == CleansUp(t) \/ RunEnds(t)

Next ==
    \/ \E s \in Sockets : Server(s) \/ Browser(s) \/ Dropped(s)
    \/ \E t \in Active : RunMoves(t)
    \/ \E t \in Testers : Tester(t) \/ Visit(t)
    \/ \E g \in gets : GetFailed(g)
    \/ Answers \/ Reconnect \/ PickPage \/ HandleStop

Spec == Init /\ [][Next]_vars

\* Goroutines, the browser's events and its timer are not put off for ever;
\* nobody has to click, and the runs may stay as they are.
FairSpec ==
    /\ Spec
    /\ \A s \in Sockets : WF_vars(Write(s)) /\ WF_vars(Wake(s) \/ Tick(s))
                          /\ WF_vars(ReadRequest(s)) /\ WF_vars(Browser(s))
    /\ WF_vars(Reconnect)
    /\ \A t \in Testers : WF_vars(CleansUp(t) \/ RunEnds(t))

-----------------------------------------------------------------------------
(* Properties. *)

Live(s) == conn[s].mine /\ conn[s].state \in {"connecting", "open", "lost"}

\* One stream: whatever breaks and wherever the user goes, the page has a
\* connection it did not close or a timer to make one ("so the numbers never
\* silently freeze", TesterRunPage.tsx:461), never both and never two; the
\* connection is the one showGnbs writes to, and the shown tester's.
OneStream ==
    /\ retry \/ \E s \in Sockets : Live(s)
    /\ \A s \in Sockets : Live(s) => s = current /\ conn[s].tester = tid /\ ~retry

\* The page has one stream at a time, of the tester it shows (TesterRunPage.tsx).
OneStreamAtMost == TypeOK /\ OneStream

\* The table's page exists: a filter, a run that restarts or gNBs that come
\* up may leave fewer pages than the one shown, and the page never stays
\* beyond the last (TesterRunPage.tsx:591-594).
PageExists == HasRun => page <= Pages(shown.total)

\* No change is missed: a sender that waits without a notification has sent
\* the run as it is, for the page last asked for (api.go:415-431).
NoChangeMissed ==
    \A s \in Sockets :
        conn[s].pc = "wait" /\ ~conn[s].changed /\ ~conn[s].paged =>
            conn[s].sent = SnapshotOf(conn[s].tester, host[conn[s].tester], conn[s].q)

\* The page ends up showing the run as it is, on whichever tester the user
\* stays: its state, and how many gNBs match the filter it asked for.
ShowsRun(t) == tid = t /\ shown # NoSnapshot /\ shown.tester = t /\ shown.st = host[t].st
EndIsSeen ==
    \A t \in Testers : <>[](tid = t /\ host[t].st = "stopped") => <>[]ShowsRun(t)

=============================================================================
