--------------------------- MODULE RunPageProofs ---------------------------
(***************************************************************************)
(* The run page's stream, for any testers, gNBs and connections.           *)
(***************************************************************************)
EXTENDS RunPage, TLAPS

\* Min and Max of two numbers.
LEMMA MinOfTwo ==
    ASSUME NEW a \in Nat, NEW b \in Nat
    PROVE  Min({a, b}) \in {a, b}
<1>1. \E x \in {a, b} : \A y \in {a, b} : x =< y
  OBVIOUS
<1> QED
  BY <1>1 DEF Min

LEMMA MaxOfTwo ==
    ASSUME NEW a \in Nat, NEW b \in Nat
    PROVE  Max({a, b}) \in {a, b} /\ Max({a, b}) >= a
<1>1. \E x \in {a, b} : \A y \in {a, b} : x >= y
  <2>1. CASE a >= b
    BY <2>1
  <2>2. CASE b >= a
    BY <2>2
  <2> QED
    BY <2>1, <2>2
<1>2. /\ Max({a, b}) \in {a, b}
      /\ \A y \in {a, b} : Max({a, b}) >= y
  BY <1>1 DEF Max
<1> QED
  BY <1>2

\* The page request of a page, and the number of pages.
LEMMA QueryType ==
    ASSUME NEW p \in Nat \ {0}, NEW f \in Filters
    PROVE  Query(p, f) \in Queries
<1>1. p - 1 \in Nat /\ PageSize \in Nat
  BY RunPageOK
<1>2. (p - 1) * PageSize \in Nat
  BY <1>1
<1> QED
  BY <1>2 DEF Query, Queries

LEMMA PagesType ==
    ASSUME NEW n \in Nat
    PROVE  Pages(n) \in Nat \ {0}
<1>1. n + PageSize - 1 \in Nat /\ PageSize \in Nat \ {0}
  BY RunPageOK
<1>2. (n + PageSize - 1) \div PageSize \in Nat
  BY <1>1
<1>3. Max({1, (n + PageSize - 1) \div PageSize}) \in {1, (n + PageSize - 1) \div PageSize}
      /\ Max({1, (n + PageSize - 1) \div PageSize}) >= 1
  BY <1>2, MaxOfTwo
<1> QED
  BY <1>2, <1>3 DEF Pages

\* A snapshot of a tester's run.
LEMMA SnapshotType ==
    ASSUME NEW t \in Testers, NEW h \in Hosts, NEW q \in Queries
    PROVE  SnapshotOf(t, h, q) \in Snapshot
<1> DEFINE total == IF h.st = "idle" THEN 0 ELSE IF q.filter = "all" THEN Gnbs ELSE h.bad
<1>1. total \in 0 .. Gnbs /\ q.offset \in Nat /\ h.st \in RunStates
  BY RunPageOK DEF Hosts, Queries
<1> HIDE DEF total
<1>2. Min({q.offset, total}) \in Nat
  BY <1>1, MinOfTwo, RunPageOK
<1>3. SnapshotOf(t, h, q) = [tester |-> t, st |-> h.st, offset |-> Min({q.offset, total}), total |-> total]
  BY DEF SnapshotOf, total
<1> QED
  BY <1>1, <1>2, <1>3 DEF Snapshot

\* The first page is the one the page opens with.
LEMMA FirstQuery == Query(1, "all") \in Queries
BY QueryType DEF Filters

-----------------------------------------------------------------------------
\* Connections are made of a tester and a page.
LEMMA DialType ==
    ASSUME NEW t \in Testers, NEW q \in Queries
    PROVE  Dial(t, q) \in Conn
BY DEF Dial, Conn

LEMMA FreeConnType ==
    ASSUME Testers # {}
    PROVE  /\ FreeConn \in Conn
           /\ FreeConn.state = "free" /\ ~FreeConn.mine /\ FreeConn.pc = "off"
<1>1. Dial(CHOOSE t \in Testers : TRUE, Query(1, "all")) \in Conn
  BY DialType, FirstQuery
<1>2. FreeConn = [[Dial(CHOOSE t \in Testers : TRUE, Query(1, "all")) EXCEPT !.state = "free"] EXCEPT !.mine = FALSE]
  BY DEF FreeConn
<1> QED
  BY <1>1, <1>2 DEF Conn, Dial, FreeConn

\* A connection with some of its fields replaced is a connection.
LEMMA ConnFields ==
    ASSUME NEW c \in Conn
    PROVE  /\ c.state \in {"free", "connecting", "open", "lost", "closing"} /\ c.mine \in BOOLEAN
           /\ c.tester \in Testers /\ c.up \in Seq(Queries) /\ c.down \in Seq(Snapshot)
           /\ c.pc \in {"off", "write", "wait"} /\ c.q \in Queries /\ c.taken \in Queries
           /\ c.sent \in Snapshot \cup {NoSnapshot}
BY DEF Conn

LEMMA ConnWithPages ==
    ASSUME NEW c \in Conn, NEW u \in Seq(Queries), NEW q \in Queries, NEW b \in BOOLEAN
    PROVE  [c EXCEPT !.up = u, !.q = q, !.paged = b] \in Conn /\ [c EXCEPT !.up = u] \in Conn
BY DEF Conn

LEMMA ConnCaptured ==
    ASSUME NEW c \in Conn
    PROVE  /\ Captured(c) \in Conn
           /\ Captured([c EXCEPT !.paged = FALSE]) \in Conn
           /\ Captured([c EXCEPT !.state = "open"]) \in Conn
BY DEF Conn, Captured

LEMMA ConnWithFrames ==
    ASSUME NEW c \in Conn, NEW f \in Snapshot, NEW d \in Seq(Snapshot), NEW q \in Queries
    PROVE  /\ [c EXCEPT !.pc = "wait", !.taken = q, !.sent = f, !.down = d] \in Conn
           /\ [c EXCEPT !.down = d] \in Conn
BY DEF Conn

LEMMA ConnLeft ==
    ASSUME NEW c \in Conn, NEW t \in Testers
    PROVE  /\ [c EXCEPT !.state = "lost", !.mine = TRUE, !.tester = t] \in Conn
           /\ [c EXCEPT !.state = "closing"] \in Conn
           /\ [c EXCEPT !.mine = FALSE] \in Conn
           /\ [c EXCEPT !.changed = TRUE] \in Conn
BY DEF Conn

\* The types at first.
LEMMA InitTypes == Init => TypeOK
<1> SUFFICES ASSUME Init PROVE TypeOK
  OBVIOUS
<1>0. Testers # {} /\ query \in Queries
  BY FirstQuery DEF Init
<1>1. host \in [Testers -> Hosts]
  <2>1. {IdleRun} \cup [st : {"running"}, asked : {FALSE}, bad : {0, Gnbs}] \subseteq Hosts
    <3>1. 0 \in 0 .. Gnbs /\ Gnbs \in 0 .. Gnbs
      BY RunPageOK
    <3>2. IdleRun \in Hosts
      BY <3>1 DEF IdleRun, Hosts, RunStates
    <3>3. \A h \in [st : {"running"}, asked : {FALSE}, bad : {0, Gnbs}] : h \in Hosts
      BY <3>1 DEF Hosts, RunStates
    <3> QED
      BY <3>2, <3>3
  <2> QED
    BY <2>1 DEF Init
<1>2. current \in Sockets
  BY RunPageOK DEF Init
<1>3. conn \in [Sockets -> Conn]
  <2>1. Dial(tid, query) \in Conn /\ FreeConn \in Conn
    BY <1>0, DialType, FreeConnType DEF Init
  <2> QED
    BY <2>1 DEF Init
<1>4. gets \subseteq Get
  BY DEF Init, NewGet, Get
<1>5. stop \in Stop
  BY <1>0 DEF Init, NoStop, Stop
<1>6. /\ tid \in Testers /\ shown = NoSnapshot /\ connected = FALSE /\ retry = FALSE
      /\ page = 1 /\ filter = "all" /\ events = 0
  BY DEF Init
<1>7. page \in Nat \ {0} /\ events \in Nat
  BY <1>6
<1>8. filter \in Filters /\ connected \in BOOLEAN /\ retry \in BOOLEAN /\ shown \in Snapshot \cup {NoSnapshot}
  BY <1>6, Zenon DEF Filters
<1>9. current \in Sockets \cup {NoSocket} /\ query \in Queries /\ tid \in Testers
  BY <1>0, <1>2, <1>6
<1> QED
  BY <1>1, <1>3, <1>4, <1>5, <1>7, <1>8, <1>9, Zenon DEF TypeOK

\* Somebody or something changes a run.
LEMMA NotifiedType ==
    ASSUME TypeOK, NEW t \in Testers
    PROVE  Notified(t) \in [Sockets -> Conn]
BY ConnLeft DEF TypeOK, Notified

LEMMA RunTypes ==
    ASSUME TypeOK, NEW t \in Testers, NEW h \in Hosts, RunBecomes(t, h), events' \in Nat
    PROVE  TypeOK'
BY NotifiedType DEF TypeOK, RunBecomes, pageVars

LEMMA ClosedType ==
    ASSUME TypeOK
    PROVE  Closed(conn) \in [Sockets -> Conn]
<1>1. FreeConn \in Conn
  BY FreeConnType DEF TypeOK
<1>2. \A s \in Sockets : [FreeConn EXCEPT !.state = "closing"] \in Conn /\ [conn[s] EXCEPT !.mine = FALSE] \in Conn
  BY <1>1, ConnLeft DEF TypeOK
<1> QED
  BY <1>2 DEF Closed

\* The page shows a snapshot, or asks for a page, on connections c.
LEMMA ShowGnbsTypes ==
    ASSUME TypeOK, NEW c \in [Sockets -> Conn], NEW p \in Nat \ {0}, NEW f \in Filters, ShowGnbs(p, f, c)
    PROVE  page' \in Nat \ {0} /\ filter' \in Filters /\ query' \in Queries /\ conn' \in [Sockets -> Conn]
<1>1. Query(p, f) \in Queries
  BY QueryType
<1>2. CASE current # NoSocket
  <2>1. current \in Sockets
    BY <1>2 DEF TypeOK
  <2>2. Append(c[current].up, Query(p, f)) \in Seq(Queries)
    BY <1>1, <2>1, ConnFields
  <2>3. [c[current] EXCEPT !.up = Append(c[current].up, Query(p, f))] \in Conn
    BY <1>1, <2>1, <2>2, ConnWithPages
  <2> QED
    BY <1>1, <2>1, <2>3 DEF ShowGnbs
<1>3. CASE current = NoSocket
  BY <1>1, <1>3 DEF ShowGnbs
<1> QED
  BY <1>2, <1>3

LEMMA RenderTypes ==
    ASSUME TypeOK, NEW c \in [Sockets -> Conn], NEW snap \in Snapshot, Render(snap, c)
    PROVE  /\ shown' \in Snapshot
           /\ page' \in Nat \ {0} /\ filter' \in Filters /\ query' \in Queries /\ conn' \in [Sockets -> Conn]
<1>1. Pages(snap.total) \in Nat \ {0}
  <2>1. snap.total \in Nat
    BY RunPageOK DEF Snapshot
  <2> QED
    BY <2>1, PagesType
<1>2. CASE snap.st # "idle" /\ page > Pages(snap.total)
  <2>1. ShowGnbs(Pages(snap.total), filter, c)
    BY <1>2 DEF Render
  <2> QED
    BY <1>1, <2>1, ShowGnbsTypes DEF Render, TypeOK
<1>3. CASE ~(snap.st # "idle" /\ page > Pages(snap.total))
  BY <1>3 DEF Render, TypeOK
<1> QED
  BY <1>2, <1>3

LEMMA StepTypes == TypeOK /\ [Next]_vars => TypeOK'
<1> SUFFICES ASSUME TypeOK, [Next]_vars PROVE TypeOK'
  OBVIOUS
<1>0. /\ Testers # {} /\ FreeConn \in Conn
      /\ \A s \in Sockets : conn[s] \in Conn
      /\ Happens => events' \in Nat
  BY FreeConnType DEF TypeOK, Happens
<1>1. ASSUME NEW t \in Testers, RunMoves(t) \/ CleansUp(t) \/ RunEnds(t) PROVE TypeOK'
  <2>1. CASE StoppedElsewhere(t)
    <3>1. host[t] \in Hosts /\ [host[t] EXCEPT !.asked = TRUE] \in Hosts
      BY DEF TypeOK, Hosts
    <3> QED
      BY <1>0, <2>1, <3>1 DEF StoppedElsewhere, TypeOK, pageVars
  <2>2. CASE ~StoppedElsewhere(t)
    <3>1. PICK h \in Hosts : RunBecomes(t, h) /\ events' \in Nat
      <4>1. host[t] \in Hosts
        BY DEF TypeOK
      <4>2. /\ [st |-> "running", asked |-> FALSE, bad |-> 0] \in Hosts
            /\ \A n \in 0 .. Gnbs : [host[t] EXCEPT !.bad = n] \in Hosts
            /\ [host[t] EXCEPT !.st = "stopping"] \in Hosts /\ [host[t] EXCEPT !.st = "stopped"] \in Hosts
        BY <4>1, RunPageOK DEF Hosts, RunStates
      <4>3. events \in Nat
        BY DEF TypeOK
      <4> QED
        BY <1>0, <1>1, <2>2, <4>2, <4>3 DEF RunMoves, Launch, GnbsChange, CleansUp, RunEnds
    <3> QED
      BY <3>1, RunTypes
  <2> QED
    BY <2>1, <2>2
<1>2. CASE StopHandled
  <2>1. stop.tester \in Testers /\ host[stop.tester] \in Hosts
    BY DEF TypeOK, Stop
  <2>2. host' \in [Testers -> Hosts]
    <3>1. \A b \in BOOLEAN : [host[stop.tester] EXCEPT !.asked = b] \in Hosts
      BY <2>1 DEF Hosts
    <3>2. host[stop.tester].asked \in BOOLEAN
      BY <2>1 DEF Hosts
    <3>3. PICK b \in BOOLEAN : host' = [host EXCEPT ![stop.tester].asked = b]
      BY <1>2, <3>2 DEF StopHandled
    <3> QED
      BY <2>1, <3>1, <3>3 DEF TypeOK
  <2>3. stop' \in Stop
    BY <1>2 DEF StopHandled, TypeOK, Stop
  <2> QED
    BY <1>2, <2>2, <2>3 DEF StopHandled, TypeOK, pageVars
<1>3. ASSUME NEW s \in Sockets, Server(s) \/ Dropped(s) \/ Opened(s) \/ OnClose(s) PROVE TypeOK'
  <2>1. conn[s] \in Conn
    BY <1>0
  <2>2. PICK c \in Conn : conn' = [conn EXCEPT ![s] = c]
    <3>1. CASE Write(s)
      <4> DEFINE frame == SnapshotOf(conn[s].tester, host[conn[s].tester], conn[s].taken)
                 c == [conn[s] EXCEPT !.pc = "wait", !.taken = conn[s].q, !.sent = frame,
                                      !.down = Append(conn[s].down, frame)]
      <4>1. frame \in Snapshot
        BY <2>1, ConnFields, SnapshotType DEF TypeOK
      <4> HIDE DEF frame
      <4>2. Append(conn[s].down, frame) \in Seq(Snapshot)
        BY <2>1, <4>1, ConnFields
      <4>3. c \in Conn
        BY <2>1, <4>1, <4>2, ConnFields, ConnWithFrames
      <4>4. conn' = [conn EXCEPT ![s] = c]
        BY <3>1 DEF Write, TypeOK, frame
      <4> QED
        BY <4>3, <4>4
    <3>2. CASE Wake(s) \/ Tick(s)
      BY <2>1, <3>2, ConnCaptured DEF Wake, Tick
    <3>3. CASE ReadRequest(s)
      <4> DEFINE c == [conn[s] EXCEPT !.up = Tail(conn[s].up), !.q = Head(conn[s].up), !.paged = TRUE]
      <4>1. conn[s].up \in Seq(Queries) /\ conn[s].up # <<>>
        BY <2>1, <3>3, ConnFields DEF ReadRequest
      <4>2. Tail(conn[s].up) \in Seq(Queries) /\ Head(conn[s].up) \in Queries
        BY <4>1
      <4>3. c \in Conn
        BY <2>1, <4>2, ConnWithPages
      <4>4. conn' = [conn EXCEPT ![s] = c]
        BY <3>3 DEF ReadRequest, TypeOK
      <4> QED
        BY <4>3, <4>4
    <3>4. CASE Dropped(s)
      BY <1>0, <2>1, <3>4, ConnFields, ConnLeft DEF Dropped
    <3>5. CASE Opened(s)
      BY <2>1, <3>5, ConnCaptured DEF Opened
    <3>6. CASE OnClose(s)
      BY <1>0, <3>6 DEF OnClose
    <3> QED
      BY <1>3, <3>1, <3>2, <3>3, <3>4, <3>5, <3>6 DEF Server
  <2>3. conn' \in [Sockets -> Conn]
    BY <2>2 DEF TypeOK
  <2>4. retry' \in BOOLEAN
    <3>1. conn[s].mine \in BOOLEAN
      BY <2>1 DEF Conn
    <3> QED
      BY <1>3, <3>1 DEF Server, Write, Wake, Tick, ReadRequest, Dropped, Opened, OnClose, TypeOK, pageVars
  <2> QED
    BY <1>0, <1>3, <2>3, <2>4 DEF Server, Write, Wake, Tick, ReadRequest, Dropped, Opened, OnClose, TypeOK, pageVars
<1>4. ASSUME NEW s \in Sockets, OnMessage(s) PROVE TypeOK'
  <2> DEFINE c == [conn[s] EXCEPT !.down = Tail(conn[s].down)]
  <2>1. conn[s].down \in Seq(Snapshot) /\ conn[s].down # <<>>
    BY <1>0, <1>4, ConnFields DEF OnMessage
  <2>2. Tail(conn[s].down) \in Seq(Snapshot) /\ Head(conn[s].down) \in Snapshot
    BY <2>1
  <2>3. \A f \in Snapshot, q \in Queries : [conn[s] EXCEPT !.down = Tail(conn[s].down)] \in Conn
    BY <1>0, <2>2, ConnWithFrames
  <2>4. c \in Conn
    BY <2>2, <2>3, FirstQuery
  <2>5. [conn EXCEPT ![s].down = Tail(@)] = [conn EXCEPT ![s] = c]
    BY DEF TypeOK
  <2>6. [conn EXCEPT ![s].down = Tail(@)] \in [Sockets -> Conn]
    BY <2>4, <2>5 DEF TypeOK
  <2> QED
    BY <1>4, <2>2, <2>6, RenderTypes DEF OnMessage, TypeOK
<1>5. ASSUME NEW g \in gets, GetAnswered(g) \/ GetShown(g) \/ GetFailed(g) PROVE TypeOK'
  <2>0. g \in Get /\ g.tester \in Testers
    BY DEF TypeOK, Get
  <2>1. CASE GetAnswered(g)
    <3> DEFINE snap == SnapshotOf(g.tester, host[g.tester], Query(1, "all"))
    <3>1. snap \in Snapshot
      BY <2>0, SnapshotType, FirstQuery DEF TypeOK
    <3> HIDE DEF snap
    <3>2. [g EXCEPT !.st = "answered", !.snap = snap] \in Get
      BY <2>0, <3>1 DEF Get
    <3>3. gets' \subseteq Get
      BY <2>1, <3>2 DEF GetAnswered, TypeOK, snap
    <3> QED
      BY <2>1, <3>3 DEF GetAnswered, TypeOK, pageVars
  <2>2. CASE GetShown(g) /\ g.snap \in Snapshot
    <3>1. conn \in [Sockets -> Conn] /\ gets' \subseteq Get
      BY <2>2 DEF GetShown, TypeOK
    <3> QED
      BY <2>2, <3>1, RenderTypes DEF GetShown, TypeOK
  <2>3. CASE GetFailed(g)
    BY <1>0, <2>3 DEF GetFailed, TypeOK, pageVars
  <2>4. GetShown(g) => g.snap \in Snapshot
    BY <2>0 DEF GetShown, Get
  <2> QED
    BY <1>5, <2>1, <2>2, <2>3, <2>4
<1>6. CASE StopAnswered
  BY <1>0, <1>6 DEF StopAnswered, TypeOK, NoStop, Stop, pageVars
<1>7. CASE Reconnect
  <2>1. NextFree \in Sockets
    BY <1>7 DEF Reconnect, NextFree, Free
  <2>2. Dial(tid, query) \in Conn
    BY DialType DEF TypeOK
  <2> QED
    BY <1>7, <2>1, <2>2 DEF Reconnect, TypeOK
<1>8. CASE PickPage
  <2>1. PICK p \in Nat \ {0}, f \in Filters : ShowGnbs(p, f, conn)
    <3>1. shown \in Snapshot
      BY <1>8 DEF PickPage, HasRun, TypeOK
    <3>2. Pages(shown.total) \in Nat \ {0}
      <4>1. shown.total \in Nat
        BY <3>1, RunPageOK DEF Snapshot
      <4> QED
        BY <4>1, PagesType
    <3>3. \A p \in 1 .. Pages(shown.total) : p \in Nat \ {0}
      BY <3>2
    <3> QED
      BY <1>8, <3>3 DEF PickPage, TypeOK
  <2> QED
    BY <1>0, <1>8, <2>1, ShowGnbsTypes DEF PickPage, TypeOK
<1>9. CASE HandleStop
  <2>1. stop' \in Stop
    <3>1. IsCleaningUp \in BOOLEAN
      BY DEF IsCleaningUp
    <3> QED
      BY <1>9, <3>1 DEF HandleStop, Stop, TypeOK
  <2> QED
    BY <1>0, <1>9, <2>1 DEF HandleStop, TypeOK, pageVars
<1>10. ASSUME NEW t \in Testers, Visit(t) PROVE TypeOK'
  <2>1. NextFree \in Sockets
    BY <1>10 DEF Visit, NextFree, Free
  <2>2. query' \in Queries
    BY <1>10, FirstQuery DEF Visit
  <2>3. Dial(t, query') \in Conn
    BY <2>2, DialType
  <2>4. conn' \in [Sockets -> Conn]
    BY <1>10, <2>1, <2>3, ClosedType DEF Visit
  <2>5. gets' \subseteq Get
    BY <1>10 DEF Visit, TypeOK, NewGet, Get
  <2>6. /\ tid' = t /\ shown' = NoSnapshot /\ page' = 1 /\ filter' = "all" /\ retry' = FALSE
        /\ current' = NextFree /\ Happens /\ UNCHANGED <<host, connected, stop>>
    BY <1>10 DEF Visit
  <2>7. page' \in Nat \ {0} /\ events' \in Nat
    BY <1>0, <2>6
  <2>8. filter' \in Filters /\ shown' \in Snapshot \cup {NoSnapshot} /\ retry' \in BOOLEAN
    BY <2>6, Zenon DEF Filters
  <2>9. /\ current' \in Sockets \cup {NoSocket} /\ tid' \in Testers
        /\ host' \in [Testers -> Hosts] /\ connected' \in BOOLEAN /\ stop' \in Stop
    BY <2>1, <2>6 DEF TypeOK
  <2> QED
    BY <2>2, <2>4, <2>5, <2>7, <2>8, <2>9, Zenon DEF TypeOK
<1>11. CASE UNCHANGED vars
  BY <1>11 DEF vars, pageVars, TypeOK
<1>12. \A t \in Active : t \in Testers
  BY RunPageOK
<1> QED
  BY <1>1, <1>2, <1>3, <1>4, <1>5, <1>6, <1>7, <1>8, <1>9, <1>10, <1>11, <1>12
     DEF Next, Browser, Answers, Tester

\* Type correctness: whatever the runs, the network and the user do.
THEOREM RunPageTypes == Spec => []TypeOK
BY InitTypes, StepTypes, PTL DEF Spec

-----------------------------------------------------------------------------
(* One stream. *)

\* A connection that may still carry frames is one the page did not close,
\* and a closing one is one it did; OneStream's step needs both.
MineInv ==
    \A s \in Sockets : /\ conn[s].state \in {"connecting", "open"} => conn[s].mine
                       /\ conn[s].state = "closing" => ~conn[s].mine

StreamInv == TypeOK /\ MineInv /\ OneStream

\* A fresh connection of the page, and one nobody uses.
LEMMA FreshConns ==
    ASSUME NEW t, NEW q
    PROVE  /\ Dial(t, q).state = "connecting" /\ Dial(t, q).mine /\ Dial(t, q).tester = t
           /\ Dial(t, q).pc = "off" /\ Dial(t, q).q = q /\ Dial(t, q).taken = q
           /\ FreeConn.state = "free" /\ ~FreeConn.mine /\ FreeConn.pc = "off"
           /\ [FreeConn EXCEPT !.state = "closing"].state = "closing"
           /\ ~[FreeConn EXCEPT !.state = "closing"].mine
           /\ [FreeConn EXCEPT !.state = "closing"].pc = "off"
           /\ [FreeConn EXCEPT !.state = "lost", !.mine = TRUE, !.tester = t].state = "lost"
           /\ [FreeConn EXCEPT !.state = "lost", !.mine = TRUE, !.tester = t].mine
           /\ [FreeConn EXCEPT !.state = "lost", !.mine = TRUE, !.tester = t].tester = t
           /\ [FreeConn EXCEPT !.state = "lost", !.mine = TRUE, !.tester = t].pc = "off"
BY DEF Dial, FreeConn

\* Taking what to write changes neither whose connection it is nor its end.
LEMMA CapturedKeeps ==
    ASSUME NEW c \in Conn
    PROVE  /\ Captured(c).state = c.state /\ Captured(c).mine = c.mine /\ Captured(c).tester = c.tester
           /\ Captured([c EXCEPT !.paged = FALSE]).state = c.state
           /\ Captured([c EXCEPT !.paged = FALSE]).mine = c.mine
           /\ Captured([c EXCEPT !.paged = FALSE]).tester = c.tester
           /\ Captured([c EXCEPT !.state = "open"]).state = "open"
           /\ Captured([c EXCEPT !.state = "open"]).mine = c.mine
           /\ Captured([c EXCEPT !.state = "open"]).tester = c.tester
BY DEF Captured, Conn

\* What a step that changes what the connections carry, and nothing else of
\* the stream, leaves as it was.
SameEnds ==
    /\ UNCHANGED <<tid, current, retry>>
    /\ \A s \in Sockets : /\ conn'[s].state = conn[s].state /\ conn'[s].mine = conn[s].mine
                          /\ conn'[s].tester = conn[s].tester

LEMMA SameEndsKeep == MineInv /\ OneStream /\ SameEnds => (MineInv /\ OneStream)'
BY DEF MineInv, OneStream, Live, SameEnds

LEMMA ShowGnbsEnds ==
    ASSUME TypeOK, NEW c \in [Sockets -> Conn], NEW p, NEW f, ShowGnbs(p, f, c)
    PROVE  \A s \in Sockets : /\ conn'[s].state = c[s].state /\ conn'[s].mine = c[s].mine
                              /\ conn'[s].tester = c[s].tester
<1>1. CASE conn' = c
  BY <1>1
<1>2. CASE current # NoSocket /\ conn' = [c EXCEPT ![current].up = Append(@, Query(p, f))]
  <2>1. current \in Sockets
    BY <1>2 DEF TypeOK
  <2>2. conn' = [c EXCEPT ![current] = [c[current] EXCEPT !.up = Append(c[current].up, Query(p, f))]]
    BY <1>2, <2>1
  <2> DEFINE u == Append(c[current].up, Query(p, f))
  <2> HIDE DEF u
  <2>3. \A d \in Conn : LET e == [d EXCEPT !.up = u]
                        IN  e.state = d.state /\ e.mine = d.mine /\ e.tester = d.tester
    BY DEF Conn
  <2> QED
    BY <2>1, <2>2, <2>3 DEF u
<1> QED
  BY <1>1, <1>2 DEF ShowGnbs

LEMMA RenderEnds ==
    ASSUME TypeOK, NEW c \in [Sockets -> Conn], NEW snap, Render(snap, c)
    PROVE  \A s \in Sockets : /\ conn'[s].state = c[s].state /\ conn'[s].mine = c[s].mine
                              /\ conn'[s].tester = c[s].tester
BY ShowGnbsEnds DEF Render

LEMMA InitStream == Init => MineInv /\ OneStream
<1> SUFFICES ASSUME Init PROVE MineInv /\ OneStream
  OBVIOUS
<1>1. current \in Sockets /\ retry = FALSE
  BY RunPageOK DEF Init
<1>2. \A s \in Sockets : conn[s] = IF s = current THEN Dial(tid, query) ELSE FreeConn
  BY DEF Init
<1>3. /\ conn[current].state = "connecting" /\ conn[current].mine /\ conn[current].tester = tid
      /\ \A s \in Sockets \ {current} : conn[s].state = "free" /\ ~conn[s].mine
  BY <1>1, <1>2, FreshConns
<1> QED
  BY <1>1, <1>3 DEF MineInv, OneStream, Live

\* A run that changes, a sender, a reader and a page shown leave the ends be.
LEMMA QuietEnds ==
    ASSUME TypeOK, [Next]_vars,
           ~Reconnect, \A t \in Testers : ~Visit(t),
           \A s \in Sockets : ~Dropped(s) /\ ~Opened(s) /\ ~OnClose(s)
    PROVE  SameEnds
<1>0. \A s \in Sockets : conn[s] \in Conn
  BY DEF TypeOK
<1>1. ASSUME NEW t \in Testers, Notified(t) = conn', UNCHANGED pageVars PROVE SameEnds
  <2>1. \A c \in Conn : LET e == [c EXCEPT !.changed = TRUE]
                        IN  e.state = c.state /\ e.mine = c.mine /\ e.tester = c.tester
    BY DEF Conn
  <2>2. \A s \in Sockets : conn'[s] = conn[s] \/ conn'[s] = [conn[s] EXCEPT !.changed = TRUE]
    BY <1>1 DEF Notified
  <2> QED
    BY <1>0, <1>1, <2>1, <2>2 DEF SameEnds, pageVars
<1>2. ASSUME NEW t \in Testers, RunMoves(t) \/ Tester(t) PROVE SameEnds
  <2>1. CASE StoppedElsewhere(t)
    BY <2>1 DEF StoppedElsewhere, SameEnds, pageVars
  <2> QED
    BY <1>1, <1>2, <2>1 DEF RunMoves, Tester, Launch, GnbsChange, CleansUp, RunEnds, RunBecomes
<1>3. ASSUME NEW s \in Sockets, Server(s) PROVE SameEnds
  <2>1. UNCHANGED pageVars
    BY <1>3 DEF Server, Write, Wake, Tick, ReadRequest
  <2>2. \A r \in Sockets : /\ conn'[r].state = conn[r].state /\ conn'[r].mine = conn[r].mine
                           /\ conn'[r].tester = conn[r].tester
    <3>1. CASE Write(s)
      <4> DEFINE frame == SnapshotOf(conn[s].tester, host[conn[s].tester], conn[s].taken)
                 e == [conn[s] EXCEPT !.pc = "wait", !.taken = conn[s].q, !.sent = frame,
                                      !.down = Append(conn[s].down, frame)]
      <4>1. conn' = [conn EXCEPT ![s] = e]
        BY <3>1 DEF Write, TypeOK, frame
      <4>2. \A f, d, q : LET x == [conn[s] EXCEPT !.pc = "wait", !.taken = q, !.sent = f, !.down = d]
                        IN  x.state = conn[s].state /\ x.mine = conn[s].mine /\ x.tester = conn[s].tester
        BY <1>0 DEF Conn
      <4>3. e.state = conn[s].state /\ e.mine = conn[s].mine /\ e.tester = conn[s].tester
        BY <4>2
      <4> HIDE DEF e
      <4> QED
        BY <4>1, <4>3 DEF TypeOK
    <3>2. CASE Wake(s) \/ Tick(s)
      <4>1. \/ conn' = [conn EXCEPT ![s] = Captured(conn[s])]
            \/ conn' = [conn EXCEPT ![s] = Captured([conn[s] EXCEPT !.paged = FALSE])]
        BY <3>2 DEF Wake, Tick, TypeOK
      <4>2. conn[s] \in Conn
        BY <1>0
      <4> QED
        BY <4>1, <4>2, CapturedKeeps DEF TypeOK
    <3>3. CASE ReadRequest(s)
      <4> DEFINE e == [conn[s] EXCEPT !.up = Tail(conn[s].up), !.q = Head(conn[s].up), !.paged = TRUE]
      <4>1. conn' = [conn EXCEPT ![s] = e]
        BY <3>3 DEF ReadRequest, TypeOK
      <4>2. \A u, q : LET x == [conn[s] EXCEPT !.up = u, !.q = q, !.paged = TRUE]
                     IN  x.state = conn[s].state /\ x.mine = conn[s].mine /\ x.tester = conn[s].tester
        BY <1>0 DEF Conn
      <4>3. e.state = conn[s].state /\ e.mine = conn[s].mine /\ e.tester = conn[s].tester
        BY <4>2
      <4> HIDE DEF e
      <4> QED
        BY <4>1, <4>3 DEF TypeOK
    <3> QED
      BY <1>3, <3>1, <3>2, <3>3 DEF Server
  <2> QED
    BY <2>1, <2>2 DEF SameEnds, pageVars
<1>4. ASSUME NEW s \in Sockets, OnMessage(s) PROVE SameEnds
  <2> DEFINE c == [conn[s] EXCEPT !.down = Tail(conn[s].down)]
             all == [conn EXCEPT ![s] = c]
  <2>1. \A d : LET e == [conn[s] EXCEPT !.down = d]
              IN  e.state = conn[s].state /\ e.mine = conn[s].mine /\ e.tester = conn[s].tester
    BY <1>0 DEF Conn
  <2>2. all \in [Sockets -> Conn]
    <3>1. conn[s].down \in Seq(Snapshot) /\ conn[s].down # <<>>
      BY <1>0, <1>4, ConnFields DEF OnMessage
    <3>2. Tail(conn[s].down) \in Seq(Snapshot)
      BY <3>1
    <3>3. c \in Conn
      BY <1>0, <3>2 DEF Conn
    <3> QED
      BY <3>3 DEF TypeOK
  <2>3. /\ Render(Head(conn[s].down), all) /\ UNCHANGED <<tid, current, retry>>
    BY <1>4 DEF OnMessage, TypeOK
  <2>4. \A r \in Sockets : /\ conn'[r].state = all[r].state /\ conn'[r].mine = all[r].mine
                           /\ conn'[r].tester = all[r].tester
    BY <2>2, <2>3, RenderEnds
  <2> HIDE DEF c
  <2>5. \A r \in Sockets : all[r] = IF r = s THEN c ELSE conn[r]
    BY DEF TypeOK
  <2>6. c.state = conn[s].state /\ c.mine = conn[s].mine /\ c.tester = conn[s].tester
    BY <2>1 DEF c
  <2> QED
    BY <2>3, <2>4, <2>5, <2>6 DEF SameEnds
<1>5. ASSUME NEW g \in gets, GetAnswered(g) \/ GetShown(g) \/ GetFailed(g) PROVE SameEnds
  <2>1. CASE GetShown(g)
    BY <2>1, RenderEnds DEF GetShown, SameEnds, TypeOK
  <2> QED
    BY <1>5, <2>1 DEF GetAnswered, GetFailed, SameEnds, pageVars
<1>6. CASE PickPage
  <2>1. PICK p, f : ShowGnbs(p, f, conn)
    BY <1>6 DEF PickPage
  <2> QED
    BY <1>6, <2>1, ShowGnbsEnds DEF PickPage, SameEnds, TypeOK
<1>7. CASE StopHandled \/ StopAnswered \/ HandleStop \/ UNCHANGED vars
  BY <1>7 DEF StopHandled, StopAnswered, HandleStop, vars, SameEnds, pageVars
<1>8. \A t \in Active : t \in Testers
  BY RunPageOK
<1> QED
  BY <1>2, <1>3, <1>4, <1>5, <1>6, <1>7, <1>8 DEF Next, Browser, Answers

LEMMA StreamStep == StreamInv /\ [Next]_vars => (MineInv /\ OneStream)'
<1> SUFFICES ASSUME TypeOK, MineInv, OneStream, [Next]_vars PROVE (MineInv /\ OneStream)'
  BY DEF StreamInv
<1>0. \A s \in Sockets : conn[s] \in Conn
  BY DEF TypeOK
<1>1. CASE Reconnect
  <2>1. NextFree \in Sockets /\ conn[NextFree].state = "free"
    BY <1>1 DEF Reconnect, NextFree, Free
  <2>2. \A s \in Sockets : conn'[s] = IF s = NextFree THEN Dial(tid, query) ELSE conn[s]
    BY <1>1, <2>1 DEF Reconnect, TypeOK
  <2>3. retry /\ retry' = FALSE /\ current' = NextFree /\ tid' = tid
    BY <1>1 DEF Reconnect
  <2>4. /\ conn'[NextFree].state = "connecting" /\ conn'[NextFree].mine /\ conn'[NextFree].tester = tid
        /\ \A s \in Sockets \ {NextFree} : conn'[s] = conn[s]
    BY <2>1, <2>2, FreshConns
  <2>5. \A s \in Sockets : ~Live(s)
    BY <2>3 DEF OneStream
  <2> QED
    BY <2>1, <2>3, <2>4, <2>5 DEF MineInv, OneStream, Live
<1>2. ASSUME NEW t \in Testers, Visit(t) PROVE (MineInv /\ OneStream)'
  <2>1. NextFree \in Sockets
    BY <1>2 DEF Visit, NextFree, Free
  <2>2. \A s \in Sockets : conn'[s] = IF s = NextFree THEN Dial(t, query') ELSE Closed(conn)[s]
    BY <1>2, <2>1 DEF Visit, Closed
  <2>3. retry' = FALSE /\ current' = NextFree /\ tid' = t
    BY <1>2 DEF Visit
  <2>4. conn'[NextFree].state = "connecting" /\ conn'[NextFree].mine /\ conn'[NextFree].tester = t
    BY <2>1, <2>2, FreshConns
  <2>5. \A s \in Sockets \ {NextFree} : ~conn'[s].mine /\ conn'[s].state \notin {"connecting", "open"}
    <3> SUFFICES ASSUME NEW s \in Sockets \ {NextFree}
                 PROVE  ~conn'[s].mine /\ conn'[s].state \notin {"connecting", "open"}
      OBVIOUS
    <3>1. CASE conn[s].mine /\ conn[s].state \in {"connecting", "open"}
      <4>1. conn'[s] = [FreeConn EXCEPT !.state = "closing"]
        BY <2>2, <3>1 DEF Closed
      <4>2. conn'[s].state = "closing" /\ ~conn'[s].mine
        BY <4>1, FreshConns
      <4> QED
        BY <4>2
    <3>2. CASE ~(conn[s].mine /\ conn[s].state \in {"connecting", "open"})
      <4>1. conn'[s] = [conn[s] EXCEPT !.mine = FALSE]
        BY <2>2, <3>2 DEF Closed
      <4>2. ~conn'[s].mine /\ conn'[s].state = conn[s].state
        BY <1>0, <4>1 DEF Conn
      <4> QED
        BY <3>2, <4>2 DEF MineInv
    <3> QED
      BY <3>1, <3>2
  <2> QED
    BY <2>1, <2>3, <2>4, <2>5 DEF MineInv, OneStream, Live
<1>3. ASSUME NEW s \in Sockets, Dropped(s) PROVE (MineInv /\ OneStream)'
  <2>1. /\ conn[s].state \in {"connecting", "open"} /\ UNCHANGED <<tid, current, retry>>
        /\ conn' = [conn EXCEPT ![s] = [FreeConn EXCEPT !.state = "lost", !.mine = TRUE, !.tester = conn[s].tester]]
    BY <1>3 DEF Dropped, pageVars
  <2>2. /\ conn'[s].state = "lost" /\ conn'[s].mine /\ conn'[s].tester = conn[s].tester
        /\ \A r \in Sockets \ {s} : conn'[r] = conn[r]
    BY <2>1, FreshConns DEF TypeOK
  <2> QED
    BY <2>1, <2>2 DEF MineInv, OneStream, Live
<1>4. ASSUME NEW s \in Sockets, Opened(s) PROVE (MineInv /\ OneStream)'
  <2>1. /\ conn[s].state = "connecting" /\ UNCHANGED <<tid, current, retry>>
        /\ conn' = [conn EXCEPT ![s] = Captured([conn[s] EXCEPT !.state = "open"])]
    BY <1>4 DEF Opened, TypeOK
  <2>2. /\ conn'[s].state = "open" /\ conn'[s].mine = conn[s].mine /\ conn'[s].tester = conn[s].tester
        /\ \A r \in Sockets \ {s} : conn'[r] = conn[r]
    BY <1>0, <2>1, CapturedKeeps DEF TypeOK
  <2> QED
    BY <2>1, <2>2 DEF MineInv, OneStream, Live
<1>5. ASSUME NEW s \in Sockets, OnClose(s) PROVE (MineInv /\ OneStream)'
  <2>1. /\ conn[s].state \in {"lost", "closing"} /\ UNCHANGED <<tid, current>>
        /\ conn' = [conn EXCEPT ![s] = FreeConn] /\ retry' = (retry \/ conn[s].mine)
    BY <1>5 DEF OnClose
  <2>2. /\ conn'[s].state = "free" /\ ~conn'[s].mine
        /\ \A r \in Sockets \ {s} : conn'[r] = conn[r]
    BY <2>1, FreshConns DEF TypeOK
  <2>3. conn[s].mine => Live(s)
    BY <2>1 DEF MineInv, Live
  <2>4. MineInv'
    BY <2>2 DEF MineInv
  <2>5. OneStream'
    <3>1. CASE conn[s].mine
      <4>1. \A r \in Sockets : ~Live(r)'
        BY <2>2, <2>3, <3>1 DEF OneStream, Live
      <4>2. retry'
        BY <2>1, <3>1
      <4> QED
        BY <4>1, <4>2 DEF OneStream
    <3>2. CASE ~conn[s].mine
      <4>1. retry' = retry
        BY <2>1, <3>2 DEF TypeOK
      <4>2. \A r \in Sockets : Live(r)' <=> Live(r)
        BY <2>2, <3>2 DEF Live
      <4>3. \A r \in Sockets : Live(r) => conn'[r].tester = conn[r].tester
        BY <2>2, <3>2 DEF Live
      <4> QED
        BY <2>1, <4>1, <4>2, <4>3 DEF OneStream
    <3> QED
      BY <3>1, <3>2
  <2> QED
    BY <2>4, <2>5
<1>6. CASE /\ ~Reconnect /\ \A t \in Testers : ~Visit(t)
           /\ \A s \in Sockets : ~Dropped(s) /\ ~Opened(s) /\ ~OnClose(s)
  BY <1>6, QuietEnds, SameEndsKeep
<1> QED
  BY <1>1, <1>2, <1>3, <1>4, <1>5, <1>6

\* The page has one stream at a time, of the tester it shows, whatever
\* breaks and however often the user goes to another tester's run.
THEOREM OneStreamAlways == Spec => []OneStreamAtMost
<1>1. Init => StreamInv
  BY InitTypes, InitStream DEF StreamInv
<1>2. StreamInv /\ [Next]_vars => StreamInv'
  BY StepTypes, StreamStep DEF StreamInv
<1>3. StreamInv => OneStreamAtMost
  BY DEF StreamInv, OneStreamAtMost
<1> QED
  BY <1>1, <1>2, <1>3, PTL DEF Spec
-----------------------------------------------------------------------------
(* No change missed. *)

\* What a connection's sender has sent or will look at again.  The page it
\* took is the one asked for last unless it is still to be told of another:
\* that is what makes the frame it writes the one NoChangeMissed wants.
Settled(c, h) ==
    /\ c.pc # "off" /\ ~c.paged => c.taken = c.q
    /\ c.pc = "wait" /\ ~c.changed /\ ~c.paged =>
         c.sent = SnapshotOf(c.tester, h[c.tester], c.q)

SenderInv == \A s \in Sockets : Settled(conn[s], host)

LEMMA SettledAfter ==
    ASSUME NEW c \in Conn, NEW h
    PROVE  /\ c.pc = "off" => Settled(c, h)
           /\ Settled(Captured(c), h)
           /\ Settled(Captured([c EXCEPT !.paged = FALSE]), h)
           /\ Settled(Captured([c EXCEPT !.state = "open"]), h)
           /\ \A u, q : Settled([c EXCEPT !.up = u, !.q = q, !.paged = TRUE], h)
BY DEF Settled, Captured, Conn

LEMMA SettledKept ==
    ASSUME NEW c \in Conn, NEW h, Settled(c, h)
    PROVE  /\ \A u : Settled([c EXCEPT !.up = u], h)
           /\ \A d : Settled([c EXCEPT !.down = d], h)
           /\ Settled([c EXCEPT !.mine = FALSE], h)
<1>1. ASSUME NEW e, e.pc = c.pc, e.paged = c.paged, e.taken = c.taken, e.q = c.q,
             e.changed = c.changed, e.sent = c.sent, e.tester = c.tester
      PROVE  Settled(e, h)
  BY <1>1 DEF Settled
<1>2. ASSUME NEW u PROVE Settled([c EXCEPT !.up = u], h)
  <2> DEFINE e == [c EXCEPT !.up = u]
  <2>1. /\ e.pc = c.pc /\ e.paged = c.paged /\ e.taken = c.taken /\ e.q = c.q
        /\ e.changed = c.changed /\ e.sent = c.sent /\ e.tester = c.tester
    BY DEF Conn
  <2> QED
    BY <1>1, <2>1
<1>3. ASSUME NEW d PROVE Settled([c EXCEPT !.down = d], h)
  <2> DEFINE e == [c EXCEPT !.down = d]
  <2>1. /\ e.pc = c.pc /\ e.paged = c.paged /\ e.taken = c.taken /\ e.q = c.q
        /\ e.changed = c.changed /\ e.sent = c.sent /\ e.tester = c.tester
    BY DEF Conn
  <2> QED
    BY <1>1, <2>1
<1>4. Settled([c EXCEPT !.mine = FALSE], h)
  <2> DEFINE e == [c EXCEPT !.mine = FALSE]
  <2>1. /\ e.pc = c.pc /\ e.paged = c.paged /\ e.taken = c.taken /\ e.q = c.q
        /\ e.changed = c.changed /\ e.sent = c.sent /\ e.tester = c.tester
    BY DEF Conn
  <2> QED
    BY <1>1, <2>1
<1> QED
  BY <1>2, <1>3, <1>4

\* A run that changes: the senders that look at it are told.
LEMMA SettledNotified ==
    ASSUME TypeOK, SenderInv, NEW t \in Testers, NEW h, RunBecomes(t, h)
    PROVE  SenderInv'
<1> SUFFICES ASSUME NEW s \in Sockets PROVE Settled(conn[s], host)'
  BY DEF SenderInv
<1>0. conn[s] \in Conn /\ Settled(conn[s], host)
  BY DEF TypeOK, SenderInv
<1>1. CASE conn[s].tester = t /\ conn[s].pc # "off"
  <2>1. conn'[s] = [conn[s] EXCEPT !.changed = TRUE]
    BY <1>1 DEF RunBecomes, Notified
  <2>2. /\ conn'[s].changed /\ conn'[s].pc = conn[s].pc /\ conn'[s].paged = conn[s].paged
        /\ conn'[s].taken = conn[s].taken /\ conn'[s].q = conn[s].q
    BY <1>0, <2>1 DEF Conn
  <2> QED
    BY <1>0, <2>2 DEF Settled
<1>2. CASE ~(conn[s].tester = t /\ conn[s].pc # "off")
  <2>1. conn'[s] = conn[s]
    BY <1>2 DEF RunBecomes, Notified
  <2>2. CASE conn[s].pc = "off"
    BY <2>1, <2>2 DEF Settled
  <2>3. CASE conn[s].tester # t
    <3>1. host'[conn[s].tester] = host[conn[s].tester]
      <4>1. conn[s].tester \in Testers
        BY <1>0 DEF Conn
      <4> QED
        BY <2>3, <4>1 DEF RunBecomes, TypeOK
    <3> QED
      BY <1>0, <2>1, <3>1 DEF Settled
  <2> QED
    BY <1>2, <2>2, <2>3
<1> QED
  BY <1>1, <1>2

\* A request to stop is not in a snapshot until it is taken up.
LEMMA SettledAsked ==
    ASSUME TypeOK, SenderInv, conn' = conn, NEW t \in Testers, NEW b,
           host' = [host EXCEPT ![t].asked = b]
    PROVE  SenderInv'
<1> SUFFICES ASSUME NEW s \in Sockets PROVE Settled(conn[s], host)'
  BY DEF SenderInv
<1>0. conn[s] \in Conn /\ Settled(conn[s], host)
  BY DEF TypeOK, SenderInv
<1>1. \A u \in Testers : host'[u].st = host[u].st /\ host'[u].bad = host[u].bad
  <2>1. \A u \in Testers : host[u] \in Hosts
    BY DEF TypeOK
  <2>2. \A u \in Testers : host'[u] = IF u = t THEN [host[t] EXCEPT !.asked = b] ELSE host[u]
    BY DEF TypeOK
  <2> QED
    BY <2>1, <2>2 DEF Hosts
<1>2. conn[s].tester \in Testers
  BY <1>0 DEF Conn
<1>3. \A q : SnapshotOf(conn[s].tester, host'[conn[s].tester], q)
            = SnapshotOf(conn[s].tester, host[conn[s].tester], q)
  BY <1>1, <1>2 DEF SnapshotOf
<1> QED
  BY <1>0, <1>3 DEF Settled

\* Pages asked for and frames shown.
LEMMA ShowGnbsSettled ==
    ASSUME TypeOK, NEW c \in [Sockets -> Conn], NEW p, NEW f, ShowGnbs(p, f, c),
           \A s \in Sockets : Settled(c[s], host), host' = host
    PROVE  SenderInv'
<1> SUFFICES ASSUME NEW s \in Sockets PROVE Settled(conn[s], host)'
  BY DEF SenderInv
<1>1. c[s] \in Conn /\ Settled(c[s], host')
  OBVIOUS
<1>2. CASE conn'[s] = c[s]
  BY <1>1, <1>2
<1>3. CASE current # NoSocket /\ s = current /\ conn' = [c EXCEPT ![current].up = Append(@, Query(p, f))]
  <2> DEFINE u == Append(c[s].up, Query(p, f))
  <2>1. conn'[s] = [c[s] EXCEPT !.up = u]
    BY <1>3
  <2>2. Settled([c[s] EXCEPT !.up = u], host')
    <3> HIDE DEF u
    <3> QED
      BY <1>1, SettledKept
  <2>3. Settled(conn[s], host)' <=> Settled(conn'[s], host')
    BY DEF Settled
  <2> QED
    BY <2>1, <2>2, <2>3
<1> QED
  BY <1>2, <1>3 DEF ShowGnbs

LEMMA InitSenders == Init => SenderInv
<1> SUFFICES ASSUME Init, NEW s \in Sockets PROVE Settled(conn[s], host)
  BY DEF SenderInv
<1>1. conn[s] = Dial(tid, query) \/ conn[s] = FreeConn
  BY DEF Init
<1>2. conn[s].pc = "off"
  BY <1>1, FreshConns
<1> QED
  BY <1>2 DEF Settled

LEMMA SenderStep == TypeOK /\ SenderInv /\ [Next]_vars => SenderInv'
<1> SUFFICES ASSUME TypeOK, SenderInv, [Next]_vars PROVE SenderInv'
  OBVIOUS
<1>0. \A s \in Sockets : conn[s] \in Conn /\ Settled(conn[s], host)
  BY DEF TypeOK, SenderInv
<1>1. ASSUME NEW t \in Testers, RunMoves(t) \/ Tester(t) PROVE SenderInv'
  <2>1. CASE StoppedElsewhere(t)
    BY <2>1, SettledAsked DEF StoppedElsewhere
  <2>2. CASE ~StoppedElsewhere(t)
    <3>1. PICK h : RunBecomes(t, h)
      BY <1>1, <2>2 DEF RunMoves, Tester, Launch, GnbsChange, CleansUp, RunEnds
    <3> QED
      BY <3>1, SettledNotified
  <2> QED
    BY <2>1, <2>2
<1>2. CASE StopHandled
  <2>1. stop.tester \in Testers /\ conn' = conn
    BY <1>2 DEF StopHandled, TypeOK, Stop
  <2>2. PICK b : host' = [host EXCEPT ![stop.tester].asked = b]
    BY <1>2 DEF StopHandled
  <2> QED
    BY <2>1, <2>2, SettledAsked
<1>3. ASSUME NEW s \in Sockets, NEW c, conn' = [conn EXCEPT ![s] = c], host' = host, Settled(c, host)
      PROVE  SenderInv'
  BY <1>0, <1>3 DEF SenderInv, TypeOK
<1>4. ASSUME NEW s \in Sockets, Server(s) \/ Dropped(s) \/ Opened(s) \/ OnClose(s) PROVE SenderInv'
  <2>0. host' = host /\ conn[s] \in Conn
    BY <1>0, <1>4 DEF Server, Write, Wake, Tick, ReadRequest, Dropped, Opened, OnClose
  <2>1. CASE Write(s)
    <3> DEFINE frame == SnapshotOf(conn[s].tester, host[conn[s].tester], conn[s].taken)
               d == Append(conn[s].down, frame)
               c == [conn[s] EXCEPT !.pc = "wait", !.taken = conn[s].q, !.sent = frame, !.down = d]
    <3>1. conn' = [conn EXCEPT ![s] = c] /\ conn[s].pc = "write"
      BY <2>1 DEF Write, TypeOK
    <3>2. ~conn[s].paged => conn[s].taken = conn[s].q
      BY <1>0, <3>1 DEF Settled
    <3> HIDE DEF d
    <3>3. /\ c.pc = "wait" /\ c.taken = conn[s].q /\ c.sent = frame /\ c.q = conn[s].q
          /\ c.paged = conn[s].paged /\ c.tester = conn[s].tester
      BY <2>0 DEF Conn
    <3> HIDE DEF c
    <3>4. Settled(c, host)
      BY <3>2, <3>3 DEF Settled
    <3> QED
      BY <1>3, <2>0, <3>1, <3>4
  <2>2. CASE Wake(s) \/ Tick(s)
    <3>1. \/ conn' = [conn EXCEPT ![s] = Captured(conn[s])]
          \/ conn' = [conn EXCEPT ![s] = Captured([conn[s] EXCEPT !.paged = FALSE])]
      BY <2>2 DEF Wake, Tick, TypeOK
    <3> QED
      BY <1>3, <2>0, <3>1, SettledAfter
  <2>3. CASE ReadRequest(s)
    <3>1. conn' = [conn EXCEPT ![s] = [conn[s] EXCEPT !.up = Tail(conn[s].up), !.q = Head(conn[s].up),
                                                      !.paged = TRUE]]
      BY <2>3 DEF ReadRequest, TypeOK
    <3> QED
      BY <1>3, <2>0, <3>1, SettledAfter
  <2>4. CASE Dropped(s)
    <3> DEFINE c == [FreeConn EXCEPT !.state = "lost", !.mine = TRUE, !.tester = conn[s].tester]
    <3>1. conn' = [conn EXCEPT ![s] = c] /\ c.pc = "off"
      BY <2>4, FreshConns DEF Dropped
    <3> HIDE DEF c
    <3>2. Settled(c, host)
      BY <3>1 DEF Settled
    <3> QED
      BY <1>3, <2>0, <3>1, <3>2
  <2>5. CASE Opened(s)
    <3>1. conn' = [conn EXCEPT ![s] = Captured([conn[s] EXCEPT !.state = "open"])]
      BY <2>5 DEF Opened, TypeOK
    <3> QED
      BY <1>3, <2>0, <3>1, SettledAfter
  <2>6. CASE OnClose(s)
    <3>1. conn' = [conn EXCEPT ![s] = FreeConn] /\ FreeConn.pc = "off"
      BY <2>6, FreshConns DEF OnClose
    <3>2. Settled(FreeConn, host)
      BY <3>1 DEF Settled
    <3> QED
      BY <1>3, <2>0, <3>1, <3>2
  <2> QED
    BY <1>4, <2>1, <2>2, <2>3, <2>4, <2>5, <2>6 DEF Server
<1>5. ASSUME NEW snap, NEW c \in [Sockets -> Conn], Render(snap, c),
             \A s \in Sockets : Settled(c[s], host), host' = host
      PROVE  SenderInv'
  BY <1>5, ShowGnbsSettled DEF Render, SenderInv
<1>6. ASSUME NEW s \in Sockets, OnMessage(s) PROVE SenderInv'
  <2> DEFINE c == [conn[s] EXCEPT !.down = Tail(conn[s].down)]
             all == [conn EXCEPT ![s] = c]
  <2>1. c \in Conn
    <3>1. conn[s].down \in Seq(Snapshot) /\ conn[s].down # <<>>
      BY <1>0, <1>6, ConnFields DEF OnMessage
    <3>2. Tail(conn[s].down) \in Seq(Snapshot)
      BY <3>1
    <3> QED
      BY <1>0, <3>2 DEF Conn
  <2>2. Settled(c, host)
    BY <1>0, SettledKept
  <2>3. Render(Head(conn[s].down), all) /\ host' = host
    BY <1>6 DEF OnMessage, TypeOK
  <2> HIDE DEF c
  <2>4. all \in [Sockets -> Conn] /\ \A r \in Sockets : all[r] = IF r = s THEN c ELSE conn[r]
    BY <2>1 DEF TypeOK
  <2>5. \A r \in Sockets : Settled(all[r], host)
    BY <1>0, <2>2, <2>4
  <2> HIDE DEF all
  <2> QED
    BY <1>5, <2>3, <2>4, <2>5
<1>7. ASSUME NEW g \in gets, GetAnswered(g) \/ GetShown(g) \/ GetFailed(g) PROVE SenderInv'
  <2>1. CASE GetShown(g)
    BY <1>0, <1>5, <2>1 DEF GetShown, TypeOK
  <2> QED
    BY <1>7, <2>1 DEF GetAnswered, GetFailed, SenderInv
<1>8. CASE PickPage
  <2>1. PICK p, f : ShowGnbs(p, f, conn)
    BY <1>8 DEF PickPage
  <2> QED
    BY <1>0, <1>8, <2>1, ShowGnbsSettled DEF PickPage, TypeOK
<1>9. CASE StopAnswered \/ HandleStop \/ UNCHANGED vars
  BY <1>9 DEF StopAnswered, HandleStop, vars, SenderInv
<1>10. CASE Reconnect
  <2>1. NextFree \in Sockets /\ Dial(tid, query).pc = "off"
    BY <1>10, FreshConns DEF Reconnect, NextFree, Free
  <2>2. Settled(Dial(tid, query), host)
    BY <2>1 DEF Settled
  <2> QED
    BY <1>3, <1>10, <2>1, <2>2 DEF Reconnect
<1>11. ASSUME NEW t \in Testers, Visit(t) PROVE SenderInv'
  <2>1. NextFree \in Sockets /\ host' = host
    BY <1>11 DEF Visit, NextFree, Free
  <2>2. \A s \in Sockets : conn'[s] = IF s = NextFree THEN Dial(t, query') ELSE Closed(conn)[s]
    BY <1>11, <2>1 DEF Visit, Closed
  <2>3. ASSUME NEW s \in Sockets PROVE Settled(conn'[s], host')
    <3>1. CASE s = NextFree
      <4>1. conn'[s] = Dial(t, query')
        BY <2>2, <3>1
      <4>2. conn'[s].pc = "off"
        BY <4>1, FreshConns
      <4> QED
        BY <4>2 DEF Settled
    <3>2. CASE s # NextFree /\ conn[s].mine /\ conn[s].state \in {"connecting", "open"}
      <4>1. conn'[s] = [FreeConn EXCEPT !.state = "closing"]
        BY <2>2, <3>2 DEF Closed
      <4>2. conn'[s].pc = "off"
        BY <4>1, FreshConns
      <4> QED
        BY <4>2 DEF Settled
    <3>3. CASE s # NextFree /\ ~(conn[s].mine /\ conn[s].state \in {"connecting", "open"})
      <4>1. conn'[s] = [conn[s] EXCEPT !.mine = FALSE]
        BY <2>2, <3>3 DEF Closed
      <4>2. Settled([conn[s] EXCEPT !.mine = FALSE], host)
        BY <1>0, SettledKept
      <4> QED
        BY <2>1, <4>1, <4>2
    <3> QED
      BY <3>1, <3>2, <3>3
  <2> QED
    BY <2>3 DEF SenderInv
<1>12. \A t \in Active : t \in Testers
  BY RunPageOK
<1> QED
  BY <1>1, <1>2, <1>4, <1>6, <1>7, <1>8, <1>9, <1>10, <1>11, <1>12 DEF Next, Browser, Answers

\* A sender that waits without a notification has sent the run as it is,
\* for the page asked for last: no change falls between the snapshot and
\* the wait (handleStream, api.go).
THEOREM NoChangeIsMissed == Spec => []NoChangeMissed
<1> DEFINE Inv == TypeOK /\ SenderInv
<1>1. Init => Inv
  BY InitTypes, InitSenders
<1>2. Inv /\ [Next]_vars => Inv'
  BY StepTypes, SenderStep
<1>3. Inv => NoChangeMissed
  BY DEF SenderInv, Settled, NoChangeMissed
<1> QED
  BY <1>1, <1>2, <1>3, PTL DEF Spec

-----------------------------------------------------------------------------
\* The table never stays beyond its last page, whatever a snapshot shrinks.
LEMMA PageStep == TypeOK /\ PageExists /\ [Next]_vars => PageExists'
<1> SUFFICES ASSUME TypeOK, PageExists, [Next]_vars PROVE PageExists'
  OBVIOUS
<1>1. ASSUME NEW snap, NEW c, Render(snap, c), snap \in Snapshot PROVE PageExists'
  <2>1. Pages(snap.total) \in Nat /\ page \in Nat
    <3>1. snap.total \in Nat
      BY <1>1, RunPageOK DEF Snapshot
    <3> QED
      BY <3>1, PagesType DEF TypeOK
  <2>2. shown' = snap
    BY <1>1 DEF Render
  <2>3. snap.st # "idle" => page' <= Pages(snap.total)
    BY <1>1, <2>1 DEF Render, ShowGnbs
  <2> QED
    BY <2>2, <2>3 DEF PageExists, HasRun
<1>2. ASSUME NEW s \in Sockets, OnMessage(s) PROVE PageExists'
  <2>1. conn[s].down \in Seq(Snapshot) /\ conn[s].down # <<>>
    BY <1>2, ConnFields DEF OnMessage, TypeOK
  <2>2. Head(conn[s].down) \in Snapshot
    BY <2>1
  <2> QED
    BY <1>1, <1>2, <2>2 DEF OnMessage
<1>3. ASSUME NEW g \in gets, GetShown(g) PROVE PageExists'
  <2>1. g.snap \in Snapshot
    BY <1>3 DEF GetShown, TypeOK, Get
  <2> QED
    BY <1>1, <1>3, <2>1 DEF GetShown
<1>4. CASE PickPage
  <2>1. shown' = shown /\ HasRun /\ Pages(shown.total) \in Nat \ {0}
    <3>1. shown \in Snapshot
      BY <1>4 DEF PickPage, HasRun, TypeOK
    <3>2. shown.total \in Nat
      BY <3>1, RunPageOK DEF Snapshot
    <3> QED
      BY <1>4, <3>2, PagesType DEF PickPage
  <2>2. page' <= Pages(shown.total)
    BY <1>4, <2>1 DEF PickPage, ShowGnbs
  <2> QED
    BY <2>1, <2>2 DEF PageExists
<1>5. ASSUME NEW t \in Testers, Visit(t) PROVE PageExists'
  BY <1>5 DEF Visit, PageExists, HasRun
<1>6. CASE UNCHANGED <<shown, page>>
  BY <1>6 DEF PageExists, HasRun
<1> QED
  BY <1>2, <1>3, <1>4, <1>5, <1>6
     DEF Next, vars, pageVars, Server, Browser, Answers, RunMoves, Tester, Write, Wake, Tick, ReadRequest,
         Opened, OnClose, Dropped, Launch, GnbsChange, StoppedElsewhere, CleansUp, RunEnds, RunBecomes,
         StopHandled, StopAnswered, GetAnswered, GetFailed, Reconnect, HandleStop

\* A filter, a run that restarts or gNBs that come up may leave fewer pages
\* than the one shown; RunBody goes to the last (TesterRunPage.tsx).
THEOREM PageAlwaysExists == Spec => []PageExists
<1>1. Init => PageExists
  BY DEF Init, PageExists, HasRun
<1> QED
  BY <1>1, InitTypes, StepTypes, PageStep, PTL DEF Spec
====
