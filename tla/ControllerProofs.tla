-------------------------- MODULE ControllerProofs --------------------------
(***************************************************************************)
(* Proofs about Controller, for any numbers of callers, runs, addresses    *)
(* and kept reports.                                                       *)
(***************************************************************************)
EXTENDS MCRuns, SumTheorems, SequenceTheorems, FiniteSetTheorems, TLAPS

\* A plan is a sequence of entries.
LEMMA PlanIsSeq ==
    ASSUME NEW H \in SUBSET Entry, NEW sink \in Entry, NEW p \in Plans(H, sink)
    PROVE  p \in Seq(Entry)
<1>1. PlanLen \in Nat /\ GnbBits \in Bits  BY ConstantsOK
<1>2. p \in [1..PlanLen -> Entry]  BY <1>1 DEF Plans, Entry
<1> QED  BY <1>1, <1>2

\* A run or a ping starts with no change on record.
LEMMA EmptyIsSeq == ASSUME NEW S PROVE <<>> \in Seq(S)
OBVIOUS

\* Dropping the last change of a list leaves a list of changes.
LEMMA ButLastIsSeq ==
    ASSUME NEW S, NEW s \in Seq(S), s # <<>>
    PROVE  /\ SubSeq(s, 1, Len(s) - 1) \in Seq(S)
           /\ s[Len(s)] \in S
OBVIOUS

\* Recording a change, or a finished run, at the end of its list.
LEMMA AppendIsSeq ==
    ASSUME NEW S, NEW s \in Seq(S), NEW e \in S
    PROVE  Append(s, e) \in Seq(S) /\ Append(s, e) # <<>>
<1>1. Append(s, e) \in Seq(S) /\ Len(Append(s, e)) = Len(s) + 1  OBVIOUS
<1>2. Len(s) \in Nat /\ Len(<<>>) = 0  OBVIOUS
<1> QED  BY <1>1, <1>2

\* Taking the first address of a plan, or dropping the oldest report.
LEMMA HeadTailOfSeq ==
    ASSUME NEW S, NEW s \in Seq(S), s # <<>>
    PROVE  Head(s) \in S /\ Tail(s) \in Seq(S)
OBVIOUS

\* A function keeps its type when one of its values is replaced by one of that type.
LEMMA ExceptType ==
    ASSUME NEW A, NEW B, NEW f \in [A -> B], NEW a, NEW b \in B
    PROVE  [f EXCEPT ![a] = b] \in [A -> B]
OBVIOUS

\* Runs are numbered from 1; the next one is a run unless the bound is reached.
LEMMA NextRun ==
    ASSUME NEW r \in {NoRun} \cup Runs
    PROVE  /\ r \in Nat
           /\ ~(r + 1 > MaxRuns) => r + 1 \in Runs
BY ConstantsOK DEF Runs, NoRun

\* A worker that is about to place its sink, or carries one to its run, has one.
SinkKnown ==
    /\ \A w \in Workers : pc[w] \in {"take", "add", "pin"} => job[w].sink \in Entry
    /\ \A c \in Callers : pc[c] \in {"allocation", "commit"} => job[c].sink \in Entry

TypeInv == TypeOK /\ SinkKnown

\* A job with one field replaced is a job.
LEMMA JobFields ==
    ASSUME NEW j \in Job
    PROVE  j.sink \in Entry \cup {NoEntry} /\ j.plan \in Seq(Entry) /\ j.cpus \in Allocations
BY DEF Job

\* PingResolve: a job with its source chosen.
LEMMA JobWithSink ==
    ASSUME NEW j \in Job, NEW e \in Entry
    PROVE  [j EXCEPT !.sink = e] \in Job /\ [j EXCEPT !.sink = e].sink = e
BY DEF Job

\* AddGnbAddr: a job with an address less to add.
LEMMA JobWithPlan ==
    ASSUME NEW j \in Job, NEW p \in Seq(Entry)
    PROVE  [j EXCEPT !.plan = p] \in Job /\ [j EXCEPT !.plan = p].sink = j.sink
BY DEF Job

\* StartAllocation: a job with the stored allocation.
LEMMA JobWithCpus ==
    ASSUME NEW j \in Job, NEW a \in Allocations
    PROVE  [j EXCEPT !.cpus = a] \in Job /\ [j EXCEPT !.cpus = a].sink = j.sink
BY DEF Job

\* A change recorded by a run or a ping.
LEMMA ChangeFields ==
    /\ \A e \in Entry, R \in SUBSET Entry : [addr |-> e, replaced |-> R] \in Change
    /\ \A ch \in Change : ch.addr \in Entry /\ ch.replaced \in SUBSET Entry
BY DEF Change

USE DEF RunStates, RunPCs, CallerPCs, PlacePCs

\* A worker at rest has a job too, the empty one.
LEMMA NoJobIsJob == NoJob \in Job
BY ConstantsOK, EmptyIsSeq DEF NoJob, Job

\* The types hold at first, when nobody is placing.
LEMMA InitTypeInv == Init => TypeInv
<1> SUFFICES ASSUME Init PROVE TypeInv  OBVIOUS
<1>2. TypeOK
  <2>1. /\ current \in {NoRun} \cup Runs /\ pinging \in BOOLEAN /\ past \in Seq(Runs)
        /\ awaited \in {NoRun} \cup Runs
    BY EmptyIsSeq DEF Init
  <2>2. /\ st \in [Runs -> RunStates]
        /\ stopReason \in [Runs -> {"", "user", "maxDuration"}]
        /\ ctxDone \in [Runs -> BOOLEAN] /\ aborted \in [Runs -> BOOLEAN]
        /\ timer \in [Runs -> BOOLEAN] /\ failed \in [Runs -> BOOLEAN]
        /\ routed \in [Runs -> BOOLEAN]
    BY DEF Init
  <2>3. pc \in [Workers -> RunPCs \cup CallerPCs \cup PlacePCs]
    BY DEF Init
  <2>4. /\ job \in [Workers -> Job] /\ added \in [Workers -> Seq(Change)]
        /\ taken \in [Workers -> SUBSET Entry]
    BY NoJobIsJob, EmptyIsSeq DEF Init
  <2>5. /\ engines \in SUBSET Runs /\ host \in SUBSET Entry /\ route \in BOOLEAN
        /\ hostBefore \in SUBSET Entry /\ routeBefore \in BOOLEAN
        /\ refused \in BOOLEAN /\ bench \in BOOLEAN
        /\ procCpus \in Allocations /\ stored \in Allocations
        /\ main \in {"serving", "waitRun", "draining", "exited"}
    BY ConstantsOK DEF Init
  <2> QED  BY <2>1, <2>2, <2>3, <2>4, <2>5 DEF TypeOK, CtlTypes, RunTypes, WorkTypes, HostTypes, ProcessTypes
<1>3. SinkKnown  BY ConstantsOK DEF Init, SinkKnown, Workers
<1> QED  BY <1>2, <1>3 DEF TypeInv

\* Every step keeps the types.
LEMMA StepTypeInv == TypeInv /\ [Next]_vars => TypeInv'
<1> SUFFICES ASSUME TypeInv, [Next]_vars PROVE TypeInv'  OBVIOUS
<1> USE ConstantsOK DEF TypeInv, TypeOK, CtlTypes, RunTypes, WorkTypes, HostTypes, ProcessTypes, SinkKnown,
        ctlVars, runVars, workVars, hostVars, cpuVars, mainVars, baseVars, Workers, NoRun
<1>1. ASSUME NEW c \in Callers, StartRequest(c) PROVE TypeInv'
  <2>1. CtlTypes' /\ RunTypes' /\ WorkTypes' /\ HostTypes' /\ ProcessTypes'
    BY <1>1 DEF StartRequest
  <2>2. pc' \in [Workers -> RunPCs \cup CallerPCs \cup PlacePCs]
    BY <1>1 DEF StartRequest, Goto
  <2>3. SinkKnown'
    BY <1>1 DEF StartRequest, Goto, Job, WorkTypes
  <2> QED  BY <2>1, <2>2, <2>3 DEF TypeInv, TypeOK
<1>2. ASSUME NEW c \in Callers, StartCheck(c) PROVE TypeInv'
  <2>1. CtlTypes' /\ RunTypes' /\ WorkTypes' /\ HostTypes' /\ ProcessTypes'
    BY <1>2 DEF StartCheck
  <2>2. pc' \in [Workers -> RunPCs \cup CallerPCs \cup PlacePCs]
    BY <1>2 DEF StartCheck, Goto
  <2>3. SinkKnown'
    BY <1>2 DEF StartCheck, Goto, Job, WorkTypes
  <2> QED  BY <2>1, <2>2, <2>3 DEF TypeInv, TypeOK
<1>3. ASSUME NEW c \in Callers, StartValidate(c) PROVE TypeInv'
  <2>1. CtlTypes' /\ RunTypes' /\ HostTypes' /\ ProcessTypes'
    BY <1>3 DEF StartValidate
  <2>2. WorkTypes'
    <3>1. PICK j \in Job : job' = [job EXCEPT ![c] = j]
      <4>1. CASE job' = [job EXCEPT ![c] = NoJob]
        BY <4>1, NoJobIsJob
      <4>2. CASE \E sink \in Entry : \E p \in Plans(host, sink) :
                   job' = [job EXCEPT ![c] = [sink |-> sink, plan |-> p, cpus |-> Unpinned]]
        BY <4>2, PlanIsSeq DEF Job
      <4> QED  BY <1>3, <4>1, <4>2 DEF StartValidate
    <3> QED  BY <1>3, <3>1 DEF StartValidate
  <2>3. pc' \in [Workers -> RunPCs \cup CallerPCs \cup PlacePCs]
    BY <1>3 DEF StartValidate, Goto
  <2>4. SinkKnown'
    <3>1. CASE Goto(c, "idle") /\ job' = [job EXCEPT ![c] = NoJob]
      BY <3>1 DEF Goto
    <3>2. CASE Goto(c, "allocation") /\ \E sink \in Entry : \E p \in Plans(host, sink) :
                 job' = [job EXCEPT ![c] = [sink |-> sink, plan |-> p, cpus |-> Unpinned]]
      <4>1. ASSUME NEW j, j.sink \in Entry, job' = [job EXCEPT ![c] = j]
            PROVE  job'[c].sink \in Entry /\ \A w \in Workers \ {c} : job'[w] = job[w]
        BY <4>1
      <4>2. job'[c].sink \in Entry /\ \A w \in Workers \ {c} : job'[w] = job[w]
        <5>1. PICK sink \in Entry : \E p \in Plans(host, sink) :
                 job' = [job EXCEPT ![c] = [sink |-> sink, plan |-> p, cpus |-> Unpinned]]
          BY <3>2
        <5>2. PICK p \in Plans(host, sink) :
                 job' = [job EXCEPT ![c] = [sink |-> sink, plan |-> p, cpus |-> Unpinned]]
          BY <5>1
        <5> QED  BY <4>1, <5>2
      <4> QED  BY <3>2, <4>2 DEF Goto
    <3> QED  BY <1>3, <3>1, <3>2 DEF StartValidate
  <2> QED  BY <2>1, <2>2, <2>3, <2>4 DEF TypeInv, TypeOK
<1>4. ASSUME NEW c \in Callers, StartAllocation(c) PROVE TypeInv'
  <2>1. CtlTypes' /\ RunTypes' /\ HostTypes' /\ ProcessTypes'
    BY <1>4 DEF StartAllocation
  <2>2. WorkTypes'
    <3>1. [job[c] EXCEPT !.cpus = stored] \in Job  BY JobWithCpus
    <3>2. PICK j \in Job : job' = [job EXCEPT ![c] = j]
      BY <1>4, <3>1, NoJobIsJob DEF StartAllocation
    <3> QED  BY <1>4, <3>2 DEF StartAllocation
  <2>3. pc' \in [Workers -> RunPCs \cup CallerPCs \cup PlacePCs]
    BY <1>4 DEF StartAllocation, Goto
  <2>4. SinkKnown'
    <3>1. CASE Goto(c, "idle") /\ job' = [job EXCEPT ![c] = NoJob]
      BY <3>1 DEF Goto
    <3>2. CASE Goto(c, "commit") /\ job' = [job EXCEPT ![c].cpus = stored]
      <4>1. pc[c] = "allocation" /\ job[c].sink \in Entry  BY <1>4 DEF StartAllocation
      <4>2. [job[c] EXCEPT !.cpus = stored].sink = job[c].sink  BY JobWithCpus
      <4>3. job'[c].sink = job[c].sink  BY <3>2, <4>2
      <4> QED  BY <3>2, <4>1, <4>3 DEF Goto
    <3> QED  BY <1>4, <3>1, <3>2 DEF StartAllocation
  <2> QED  BY <2>1, <2>2, <2>3, <2>4 DEF TypeInv, TypeOK
<1>5. ASSUME NEW c \in Callers, StartCommit(c) PROVE TypeInv'
  <2>1. HostTypes' /\ ProcessTypes'
    BY <1>5 DEF StartCommit
  <2>2. CASE Busy \/ current + 1 > MaxRuns
    <3>1. pc' = [pc EXCEPT ![c] = "idle"] /\ job' = [job EXCEPT ![c] = NoJob] /\ UNCHANGED <<current, past, st>>
      BY <1>5, <2>2 DEF StartCommit, Goto
    <3>2. CtlTypes' /\ RunTypes' /\ WorkTypes'
      BY <1>5, <3>1, NoJobIsJob DEF StartCommit
    <3>3. pc' \in [Workers -> RunPCs \cup CallerPCs \cup PlacePCs] /\ SinkKnown'
      BY <3>1
    <3> QED  BY <2>1, <3>2, <3>3
  <2>3. CASE ~(Busy \/ current + 1 > MaxRuns)
    <3> DEFINE r == current + 1
    <3>1. r \in Runs /\ r \in Workers /\ r # c
      <4>1. current \in {NoRun} \cup Runs  OBVIOUS
      <4>2. r \in Runs  BY ONLY <2>3, <4>1, NextRun
      <4> QED  BY <4>2
    <3>2. /\ pc[c] = "commit" /\ current' = r
          /\ past' = IF current = NoRun THEN past
                     ELSE IF Len(Append(past, current)) > KeptReports
                          THEN Tail(Append(past, current)) ELSE Append(past, current)
          /\ st' = [st EXCEPT ![r] = "configuring"]
          /\ job' = [job EXCEPT ![r] = job[c], ![c] = NoJob]
          /\ pc' = [pc EXCEPT ![c] = "idle", ![r] = "pin"]
      BY <1>5, <2>3 DEF StartCommit
    <3>3. past' \in Seq(Runs)
      <4>1. CASE current = NoRun  BY <3>2, <4>1
      <4>2. CASE current \in Runs
        <5>1. Append(past, current) \in Seq(Runs) /\ Append(past, current) # <<>>  BY <4>2, AppendIsSeq
        <5>2. Tail(Append(past, current)) \in Seq(Runs)  BY <5>1, HeadTailOfSeq
        <5> QED  BY <3>2, <5>1, <5>2
      <4> QED  BY <4>1, <4>2
    <3>4. CtlTypes' /\ RunTypes'
      BY <1>5, <3>1, <3>2, <3>3 DEF StartCommit
    <3>5. WorkTypes'
      BY <1>5, <3>1, <3>2, NoJobIsJob DEF StartCommit
    <3>6. pc' \in [Workers -> RunPCs \cup CallerPCs \cup PlacePCs]
      BY <3>1, <3>2
    <3>7. SinkKnown'
      BY <3>1, <3>2
    <3> QED  BY <2>1, <3>4, <3>5, <3>6, <3>7
  <2> QED  BY <2>2, <2>3
<1>6. ASSUME NEW r \in Runs, StopRequest(r) PROVE TypeInv'
  <2>1. CtlTypes' /\ WorkTypes' /\ HostTypes' /\ ProcessTypes'
    BY <1>6 DEF StopRequest, RequestStop, RunActive
  <2>2. RunTypes'
    <3>1. CASE RequestStop(r, "user")
      <4>1. stopReason' \in [Runs -> {"", "user", "maxDuration"}]  BY <3>1 DEF RequestStop
      <4>2. ctxDone' \in [Runs -> BOOLEAN]  BY <3>1 DEF RequestStop
      <4>3. aborted' \in [Runs -> BOOLEAN]  BY <1>6 DEF StopRequest
      <4> QED  BY <1>6, <4>1, <4>2, <4>3 DEF StopRequest
    <3>2. CASE UNCHANGED <<stopReason, ctxDone>>
      <4>1. aborted' \in [Runs -> BOOLEAN]  BY <1>6 DEF StopRequest
      <4> QED  BY <1>6, <3>2, <4>1 DEF StopRequest
    <3> QED  BY <1>6, <3>1, <3>2 DEF StopRequest, RunActive
  <2>3. pc' \in [Workers -> RunPCs \cup CallerPCs \cup PlacePCs]
    BY <1>6 DEF StopRequest, RequestStop, RunActive, Goto
  <2>4. SinkKnown'
    BY <1>6 DEF StopRequest, RequestStop, RunActive, Goto, Job, WorkTypes
  <2> QED  BY <2>1, <2>2, <2>3, <2>4 DEF TypeInv, TypeOK
<1>7. ASSUME NEW r \in Runs, TimerFires(r) PROVE TypeInv'
  <2>1. CtlTypes' /\ WorkTypes' /\ HostTypes' /\ ProcessTypes'
    BY <1>7 DEF TimerFires, RequestStop
  <2>2. RunTypes'
    BY <1>7 DEF TimerFires, RequestStop
  <2>3. pc' \in [Workers -> RunPCs \cup CallerPCs \cup PlacePCs]
    BY <1>7 DEF TimerFires, RequestStop, Goto
  <2>4. SinkKnown'
    BY <1>7 DEF TimerFires, RequestStop, Goto, Job, WorkTypes
  <2> QED  BY <2>1, <2>2, <2>3, <2>4 DEF TypeInv, TypeOK
<1>8. ASSUME Signal PROVE TypeInv'
  <2>1. CtlTypes' /\ WorkTypes' /\ HostTypes'
    BY <1>8 DEF Signal, RequestStop, RunActive
  <2>2. RunTypes'
    <3>1. CASE RequestStop(current, "user") /\ current \in Runs
      <4>1. stopReason' \in [Runs -> {"", "user", "maxDuration"}]  BY <3>1 DEF RequestStop
      <4>2. ctxDone' \in [Runs -> BOOLEAN]  BY <3>1 DEF RequestStop
      <4>3. aborted' \in [Runs -> BOOLEAN]  BY <1>8 DEF Signal
      <4> QED  BY <1>8, <4>1, <4>2, <4>3 DEF Signal
    <3>2. CASE UNCHANGED <<stopReason, ctxDone>>
      <4>1. aborted' \in [Runs -> BOOLEAN]  BY <1>8 DEF Signal
      <4> QED  BY <1>8, <3>2, <4>1 DEF Signal
    <3> QED  BY <1>8, <3>1, <3>2 DEF Signal, RunActive
  <2>3. ProcessTypes'
    BY <1>8 DEF Signal, RequestStop, RunActive
  <2>4. pc' \in [Workers -> RunPCs \cup CallerPCs \cup PlacePCs]
    BY <1>8 DEF Signal, RequestStop, RunActive, Goto
  <2>5. SinkKnown'
    BY <1>8 DEF Signal, RequestStop, RunActive, Goto, Job, WorkTypes
  <2> QED  BY <2>1, <2>2, <2>3, <2>4, <2>5 DEF TypeInv, TypeOK
<1>9. ASSUME ShutdownReturns PROVE TypeInv'
  <2>1. CtlTypes' /\ RunTypes' /\ WorkTypes' /\ HostTypes'
    BY <1>9 DEF ShutdownReturns
  <2>2. ProcessTypes'
    BY <1>9 DEF ShutdownReturns
  <2>3. pc' \in [Workers -> RunPCs \cup CallerPCs \cup PlacePCs]
    BY <1>9 DEF ShutdownReturns, Goto
  <2>4. SinkKnown'
    BY <1>9 DEF ShutdownReturns, Goto, Job, WorkTypes
  <2> QED  BY <2>1, <2>2, <2>3, <2>4 DEF TypeInv, TypeOK
<1>10. ASSUME Exit PROVE TypeInv'
  <2>1. CtlTypes' /\ RunTypes' /\ WorkTypes' /\ HostTypes'
    BY <1>10 DEF Exit
  <2>2. ProcessTypes'
    BY <1>10 DEF Exit
  <2>3. pc' \in [Workers -> RunPCs \cup CallerPCs \cup PlacePCs]
    BY <1>10 DEF Exit, Goto
  <2>4. SinkKnown'
    BY <1>10 DEF Exit, Goto, Job, WorkTypes
  <2> QED  BY <2>1, <2>2, <2>3, <2>4 DEF TypeInv, TypeOK
<1>11. ASSUME NEW w \in Workers, PlaceTake(w) PROVE TypeInv'
  <2>1. CtlTypes' /\ ProcessTypes'
    BY <1>11 DEF PlaceTake, GiveUp, Placed
  <2>2. RunTypes'
    BY <1>11 DEF PlaceTake, GiveUp, Placed
  <2>3. WorkTypes'
    <3>1. taken' \in [Workers -> SUBSET Entry]
      <4>1. \A e \in host : {e} \in SUBSET Entry  OBVIOUS
      <4>2. PICK R \in SUBSET Entry : taken' = taken \/ taken' = [taken EXCEPT ![w] = R]
        BY <1>11, <4>1 DEF PlaceTake
      <4>3. [taken EXCEPT ![w] = R] \in [Workers -> SUBSET Entry]  BY ONLY R \in SUBSET Entry, taken \in [Workers -> SUBSET Entry], ExceptType
      <4> QED  BY <4>2, <4>3
    <3> QED  BY <1>11, <3>1 DEF PlaceTake
  <2>4. HostTypes'
    BY <1>11 DEF PlaceTake, GiveUp, Placed
  <2>5. pc' \in [Workers -> RunPCs \cup CallerPCs \cup PlacePCs]
    BY <1>11 DEF PlaceTake, GiveUp, Placed, Goto
  <2>6. SinkKnown'
    BY <1>11 DEF PlaceTake, GiveUp, Placed, Goto, Job, WorkTypes
  <2> QED  BY <2>1, <2>2, <2>3, <2>4, <2>5, <2>6 DEF TypeInv, TypeOK
<1>12. ASSUME NEW w \in Workers, PlaceAdd(w) PROVE TypeInv'
  <2>1. CtlTypes' /\ ProcessTypes'
    BY <1>12 DEF PlaceAdd, GiveUp, Placed
  <2>2. RunTypes'
    BY <1>12 DEF PlaceAdd, GiveUp, Placed
  <2>3. WorkTypes'
    <3>1. job[w].sink \in Entry  BY <1>12 DEF PlaceAdd
    <3>2. [addr |-> job[w].sink, replaced |-> taken[w]] \in Change  BY <3>1, ChangeFields
    <3>3. added' \in [Workers -> Seq(Change)]
      <4>1. Append(added[w], [addr |-> job[w].sink, replaced |-> taken[w]]) \in Seq(Change)
        BY <3>2, AppendIsSeq
      <4>2. \/ added' = added
            \/ added' = [added EXCEPT ![w] = Append(added[w], [addr |-> job[w].sink, replaced |-> taken[w]])]
        BY <1>12 DEF PlaceAdd
      <4>3. added \in [Workers -> Seq(Change)]  OBVIOUS
      <4> QED  BY ONLY <4>1, <4>2, <4>3, ExceptType
    <3>4. taken' \in [Workers -> SUBSET Entry]  BY <1>12 DEF PlaceAdd
    <3> QED  BY <1>12, <3>3, <3>4 DEF PlaceAdd
  <2>4. HostTypes'
    BY <1>12 DEF PlaceAdd, GiveUp, Placed
  <2>5. pc' \in [Workers -> RunPCs \cup CallerPCs \cup PlacePCs]
    BY <1>12 DEF PlaceAdd, GiveUp, Placed, Goto
  <2>6. SinkKnown'
    BY <1>12 DEF PlaceAdd, GiveUp, Placed, Goto, Job, WorkTypes
  <2> QED  BY <2>1, <2>2, <2>3, <2>4, <2>5, <2>6 DEF TypeInv, TypeOK
<1>13. ASSUME NEW w \in Workers, UndoRemove(w) PROVE TypeInv'
  <2>1. CtlTypes' /\ RunTypes' /\ ProcessTypes'
    BY <1>13 DEF UndoRemove
  <2>2. WorkTypes'
    <3>1. CASE added[w] = <<>>  BY <1>13, <3>1 DEF UndoRemove
    <3>2. CASE added[w] # <<>>
      <4>1. /\ SubSeq(added[w], 1, Len(added[w]) - 1) \in Seq(Change)
            /\ added[w][Len(added[w])] \in Change
        BY <3>2, ButLastIsSeq
      <4>2. added[w][Len(added[w])].replaced \in SUBSET Entry
        BY <4>1, ChangeFields
      <4>3. added' \in [Workers -> Seq(Change)] /\ taken' \in [Workers -> SUBSET Entry]
        <5>1. /\ added' = [added EXCEPT ![w] = SubSeq(added[w], 1, Len(added[w]) - 1)]
              /\ taken' = [taken EXCEPT ![w] = added[w][Len(added[w])].replaced]
          BY <1>13, <3>2 DEF UndoRemove
        <5> QED  BY <4>1, <4>2, <5>1, ExceptType
      <4> QED  BY <1>13, <4>3 DEF UndoRemove
    <3> QED  BY <3>1, <3>2
  <2>3. HostTypes'
    <3>1. host' \in SUBSET Entry /\ refused' \in BOOLEAN  BY <1>13 DEF UndoRemove
    <3> QED  BY <1>13, <3>1 DEF UndoRemove
  <2>4. pc' \in [Workers -> RunPCs \cup CallerPCs \cup PlacePCs]
    BY <1>13 DEF UndoRemove, Goto
  <2>5. SinkKnown'
    <3>1. PICK l \in {"finish", "pingEnd", "undo", "putBack"} : Goto(w, l)
      BY <1>13 DEF UndoRemove
    <3> QED  BY <1>13, <3>1 DEF UndoRemove, Goto
  <2> QED  BY <2>1, <2>2, <2>3, <2>4, <2>5 DEF TypeInv, TypeOK
<1>14. ASSUME NEW w \in Workers, UndoPutBack(w) PROVE TypeInv'
  <2>1. CtlTypes' /\ RunTypes' /\ ProcessTypes'
    BY <1>14 DEF UndoPutBack
  <2>2. WorkTypes'
    BY <1>14 DEF UndoPutBack, Job
  <2>3. HostTypes'
    BY <1>14 DEF UndoPutBack
  <2>4. pc' \in [Workers -> RunPCs \cup CallerPCs \cup PlacePCs]
    BY <1>14 DEF UndoPutBack, Goto
  <2>5. SinkKnown'
    BY <1>14 DEF UndoPutBack, Goto, Job, WorkTypes
  <2> QED  BY <2>1, <2>2, <2>3, <2>4, <2>5 DEF TypeInv, TypeOK
<1>15. ASSUME NEW r \in Runs, Pin(r) PROVE TypeInv'
  <2>1. CtlTypes' /\ WorkTypes' /\ HostTypes'
    BY <1>15 DEF Pin
  <2>2. RunTypes'
    BY <1>15 DEF Pin
  <2>3. ProcessTypes'
    <3>1. procCpus' \in Allocations  BY <1>15, JobFields DEF Pin
    <3> QED  BY <1>15, <3>1 DEF Pin
  <2>4. pc' \in [Workers -> RunPCs \cup CallerPCs \cup PlacePCs]
    BY <1>15 DEF Pin, Goto
  <2>5. SinkKnown'
    BY <1>15 DEF Pin, Goto, Job, WorkTypes
  <2> QED  BY <2>1, <2>2, <2>3, <2>4, <2>5 DEF TypeInv, TypeOK
<1>16. ASSUME NEW r \in Runs, AddGnbAddr(r) PROVE TypeInv'
  <2>1. CtlTypes' /\ ProcessTypes'
    BY <1>16 DEF AddGnbAddr, GiveUp
  <2>2. RunTypes'
    BY <1>16 DEF AddGnbAddr, GiveUp
  <2>3. WorkTypes'
    <3>1. /\ job[r].plan \in Seq(Entry) /\ job[r].plan # <<>>
          /\ Head(job[r].plan) \in Entry /\ Tail(job[r].plan) \in Seq(Entry)
      <4>1. job[r].plan \in Seq(Entry) /\ job[r].plan # <<>>  BY <1>16, JobFields DEF AddGnbAddr
      <4> QED  BY <4>1, HeadTailOfSeq
    <3>2. [addr |-> Head(job[r].plan), replaced |-> {}] \in Change
      BY <3>1, ChangeFields
    <3>3. added' \in [Workers -> Seq(Change)]
      <4>1. Append(added[r], [addr |-> Head(job[r].plan), replaced |-> {}]) \in Seq(Change)
        BY <3>2, AppendIsSeq
      <4>2. \/ added' = added
            \/ added' = [added EXCEPT ![r] = Append(added[r], [addr |-> Head(job[r].plan), replaced |-> {}])]
        BY <1>16 DEF AddGnbAddr
      <4>3. added \in [Workers -> Seq(Change)]  OBVIOUS
      <4> QED  BY ONLY <4>1, <4>2, <4>3, ExceptType
    <3>4. job' \in [Workers -> Job]
      <4>1. [job[r] EXCEPT !.plan = Tail(job[r].plan)] \in Job  BY <3>1, JobWithPlan
      <4>2. \/ job' = job
            \/ job' = [job EXCEPT ![r] = [job[r] EXCEPT !.plan = Tail(job[r].plan)]]
        BY <1>16 DEF AddGnbAddr
      <4>3. job \in [Workers -> Job]  OBVIOUS
      <4> QED  BY ONLY <4>1, <4>2, <4>3, ExceptType
    <3> QED  BY <1>16, <3>3, <3>4 DEF AddGnbAddr
  <2>4. HostTypes'
    <3>1. Head(job[r].plan) \in Entry
      <4>1. job[r].plan \in Seq(Entry) /\ job[r].plan # <<>>  BY <1>16, JobFields DEF AddGnbAddr
      <4> QED  BY <4>1, HeadTailOfSeq
    <3> QED  BY <1>16, <3>1 DEF AddGnbAddr
  <2>5. pc' \in [Workers -> RunPCs \cup CallerPCs \cup PlacePCs]
    BY <1>16 DEF AddGnbAddr, GiveUp, Goto
  <2>6. SinkKnown'
    BY <1>16 DEF AddGnbAddr, GiveUp, Goto, Job, WorkTypes
  <2> QED  BY <2>1, <2>2, <2>3, <2>4, <2>5, <2>6 DEF TypeInv, TypeOK
<1>17. ASSUME NEW r \in Runs, EnsureRoute(r) PROVE TypeInv'
  <2>1. CtlTypes' /\ ProcessTypes'
    BY <1>17 DEF EnsureRoute, GiveUp
  <2>2. RunTypes'
    BY <1>17 DEF EnsureRoute, GiveUp
  <2>3. WorkTypes'
    BY <1>17 DEF EnsureRoute, GiveUp, Job
  <2>4. HostTypes'
    BY <1>17 DEF EnsureRoute, GiveUp
  <2>5. pc' \in [Workers -> RunPCs \cup CallerPCs \cup PlacePCs]
    BY <1>17 DEF EnsureRoute, GiveUp, Goto
  <2>6. SinkKnown'
    BY <1>17 DEF EnsureRoute, GiveUp, Goto, Job, WorkTypes
  <2> QED  BY <2>1, <2>2, <2>3, <2>4, <2>5, <2>6 DEF TypeInv, TypeOK
<1>18. ASSUME NEW r \in Runs, StartDataplane(r) PROVE TypeInv'
  <2>1. CtlTypes' /\ HostTypes' /\ ProcessTypes'
    BY <1>18 DEF StartDataplane, GiveUp
  <2>2. RunTypes'
    BY <1>18 DEF StartDataplane, GiveUp
  <2>3. WorkTypes'
    BY <1>18 DEF StartDataplane, GiveUp, Job
  <2>4. pc' \in [Workers -> RunPCs \cup CallerPCs \cup PlacePCs]
    BY <1>18 DEF StartDataplane, GiveUp, Goto
  <2>5. SinkKnown'
    BY <1>18 DEF StartDataplane, GiveUp, Goto, Job, WorkTypes
  <2> QED  BY <2>1, <2>2, <2>3, <2>4, <2>5 DEF TypeInv, TypeOK
<1>19. ASSUME NEW r \in Runs, LaunchN2(r) PROVE TypeInv'
  <2>1. CtlTypes' /\ WorkTypes' /\ HostTypes' /\ ProcessTypes'
    BY <1>19 DEF LaunchN2
  <2>2. RunTypes'
    BY <1>19 DEF LaunchN2
  <2>3. pc' \in [Workers -> RunPCs \cup CallerPCs \cup PlacePCs]
    BY <1>19 DEF LaunchN2, Goto
  <2>4. SinkKnown'
    <3>1. PICK l \in {"stop", "n2"} : Goto(r, l)  BY <1>19 DEF LaunchN2
    <3> QED  BY <1>19, <3>1 DEF LaunchN2, Goto
  <2> QED  BY <2>1, <2>2, <2>3, <2>4 DEF TypeInv, TypeOK
<1>20. ASSUME NEW r \in Runs, N2Returns(r) PROVE TypeInv'
  <2>1. CtlTypes' /\ WorkTypes' /\ HostTypes' /\ ProcessTypes'
    BY <1>20 DEF N2Returns
  <2>2. RunTypes'
    BY <1>20 DEF N2Returns
  <2>3. pc' \in [Workers -> RunPCs \cup CallerPCs \cup PlacePCs]
    BY <1>20 DEF N2Returns, Goto
  <2>4. SinkKnown'
    <3>1. PICK l \in {"stop", "hold"} : Goto(r, l)  BY <1>20 DEF N2Returns
    <3> QED  BY <1>20, <3>1 DEF N2Returns, Goto
  <2> QED  BY <2>1, <2>2, <2>3, <2>4 DEF TypeInv, TypeOK
<1>21. ASSUME NEW r \in Runs, Stopping(r) PROVE TypeInv'
  <2>1. CtlTypes' /\ WorkTypes' /\ HostTypes' /\ ProcessTypes'
    BY <1>21 DEF Stopping
  <2>2. RunTypes'
    BY <1>21 DEF Stopping
  <2>3. pc' \in [Workers -> RunPCs \cup CallerPCs \cup PlacePCs]
    BY <1>21 DEF Stopping, Goto
  <2>4. SinkKnown'
    BY <1>21 DEF Stopping, Goto, Job, WorkTypes
  <2> QED  BY <2>1, <2>2, <2>3, <2>4 DEF TypeInv, TypeOK
<1>22. ASSUME NEW r \in Runs, Cleanup(r) PROVE TypeInv'
  <2>1. CtlTypes' /\ RunTypes' /\ HostTypes' /\ ProcessTypes'
    BY <1>22 DEF Cleanup
  <2>2. WorkTypes'
    BY <1>22 DEF Cleanup, Job
  <2>3. pc' \in [Workers -> RunPCs \cup CallerPCs \cup PlacePCs]
    BY <1>22 DEF Cleanup, Goto
  <2>4. SinkKnown'
    BY <1>22 DEF Cleanup, Goto, Job, WorkTypes
  <2> QED  BY <2>1, <2>2, <2>3, <2>4 DEF TypeInv, TypeOK
<1>23. ASSUME NEW r \in Runs, RemoveRoute(r) PROVE TypeInv'
  <2>1. CtlTypes' /\ RunTypes' /\ ProcessTypes'
    BY <1>23 DEF RemoveRoute
  <2>2. WorkTypes'
    BY <1>23 DEF RemoveRoute, Job
  <2>3. HostTypes'
    BY <1>23 DEF RemoveRoute
  <2>4. pc' \in [Workers -> RunPCs \cup CallerPCs \cup PlacePCs]
    BY <1>23 DEF RemoveRoute, Goto
  <2>5. SinkKnown'
    BY <1>23 DEF RemoveRoute, Goto, Job, WorkTypes
  <2> QED  BY <2>1, <2>2, <2>3, <2>4, <2>5 DEF TypeInv, TypeOK
<1>24. ASSUME NEW r \in Runs, Finish(r) PROVE TypeInv'
  <2>1. CtlTypes' /\ WorkTypes' /\ HostTypes' /\ ProcessTypes'
    BY <1>24 DEF Finish
  <2>2. RunTypes'
    BY <1>24 DEF Finish
  <2>3. pc' \in [Workers -> RunPCs \cup CallerPCs \cup PlacePCs]
    BY <1>24 DEF Finish, Goto
  <2>4. SinkKnown'
    BY <1>24 DEF Finish, Goto, Job, WorkTypes
  <2> QED  BY <2>1, <2>2, <2>3, <2>4 DEF TypeInv, TypeOK
<1>25. ASSUME NEW r \in Runs, Unpin(r) PROVE TypeInv'
  <2>1. CtlTypes' /\ RunTypes' /\ WorkTypes' /\ HostTypes'
    BY <1>25 DEF Unpin
  <2>2. ProcessTypes'
    BY <1>25 DEF Unpin
  <2>3. pc' \in [Workers -> RunPCs \cup CallerPCs \cup PlacePCs]
    BY <1>25 DEF Unpin, Goto
  <2>4. SinkKnown'
    BY <1>25 DEF Unpin, Goto, Job, WorkTypes
  <2> QED  BY <2>1, <2>2, <2>3, <2>4 DEF TypeInv, TypeOK
<1>26. ASSUME NEW r \in Runs, Done(r) PROVE TypeInv'
  <2>1. CtlTypes' /\ HostTypes' /\ ProcessTypes'
    BY <1>26 DEF Done
  <2>2. RunTypes'
    BY <1>26, NoJobIsJob DEF Done
  <2>3. WorkTypes'
    BY <1>26, NoJobIsJob DEF Done, Job
  <2>4. pc' \in [Workers -> RunPCs \cup CallerPCs \cup PlacePCs]
    BY <1>26 DEF Done, Goto
  <2>5. SinkKnown'
    BY <1>26, NoJobIsJob DEF Done, Goto, Job, WorkTypes
  <2> QED  BY <2>1, <2>2, <2>3, <2>4, <2>5 DEF TypeInv, TypeOK
<1>27. ASSUME NEW c \in Callers, PingRequest(c) PROVE TypeInv'
  <2>1. RunTypes' /\ WorkTypes' /\ HostTypes' /\ ProcessTypes'
    BY <1>27 DEF PingRequest
  <2>2. CtlTypes'
    BY <1>27 DEF PingRequest
  <2>3. pc' \in [Workers -> RunPCs \cup CallerPCs \cup PlacePCs]
    BY <1>27 DEF PingRequest, Goto
  <2>4. SinkKnown'
    BY <1>27 DEF PingRequest, Goto, Job, WorkTypes
  <2> QED  BY <2>1, <2>2, <2>3, <2>4 DEF TypeInv, TypeOK
<1>28. ASSUME NEW c \in Callers, PingResolve(c) PROVE TypeInv'
  <2>1. CtlTypes' /\ RunTypes' /\ HostTypes' /\ ProcessTypes'
    BY <1>28 DEF PingResolve
  <2>2. WorkTypes'
    <3>1. job' \in [Workers -> Job]
      <4>1. ASSUME NEW e \in Entry, job' = [job EXCEPT ![c].sink = e] PROVE job' \in [Workers -> Job]
        <5>1. [job[c] EXCEPT !.sink = e] \in Job  BY JobWithSink
        <5> QED  BY <4>1, <5>1
      <4> QED  BY <1>28, <4>1 DEF PingResolve
    <3> QED  BY <1>28, <3>1 DEF PingResolve
  <2>3. pc' \in [Workers -> RunPCs \cup CallerPCs \cup PlacePCs]
    BY <1>28 DEF PingResolve, Goto
  <2>4. SinkKnown'
    <3>1. CASE Goto(c, "pingEnd") /\ UNCHANGED job
      BY <3>1 DEF Goto
    <3>2. CASE Goto(c, "take") /\ \E source \in Entry : job' = [job EXCEPT ![c].sink = source]
      <4>1. job'[c].sink \in Entry
        <5>1. PICK e \in Entry : job' = [job EXCEPT ![c].sink = e]  BY <3>2
        <5>2. [job[c] EXCEPT !.sink = e].sink = e  BY JobWithSink
        <5> QED  BY <5>1, <5>2
      <4> QED  BY <3>2, <4>1 DEF Goto
    <3> QED  BY <1>28, <3>1, <3>2 DEF PingResolve
  <2> QED  BY <2>1, <2>2, <2>3, <2>4 DEF TypeInv, TypeOK
<1>29. ASSUME NEW c \in Callers, PingReplies(c) PROVE TypeInv'
  <2>1. CtlTypes' /\ RunTypes' /\ WorkTypes' /\ HostTypes' /\ ProcessTypes'
    BY <1>29 DEF PingReplies
  <2>2. pc' \in [Workers -> RunPCs \cup CallerPCs \cup PlacePCs]
    BY <1>29 DEF PingReplies, Goto
  <2>3. SinkKnown'
    BY <1>29 DEF PingReplies, Goto, Job, WorkTypes
  <2> QED  BY <2>1, <2>2, <2>3 DEF TypeInv, TypeOK
<1>30. ASSUME NEW c \in Callers, PingEnd(c) PROVE TypeInv'
  <2>1. RunTypes' /\ HostTypes' /\ ProcessTypes'
    BY <1>30 DEF PingEnd
  <2>2. CtlTypes'
    BY <1>30, NoJobIsJob DEF PingEnd
  <2>3. WorkTypes'
    BY <1>30, NoJobIsJob DEF PingEnd, Job
  <2>4. pc' \in [Workers -> RunPCs \cup CallerPCs \cup PlacePCs]
    BY <1>30 DEF PingEnd, Goto
  <2>5. SinkKnown'
    BY <1>30, NoJobIsJob DEF PingEnd, Goto, Job, WorkTypes
  <2> QED  BY <2>1, <2>2, <2>3, <2>4, <2>5 DEF TypeInv, TypeOK
<1>31. ASSUME NEW c \in Callers, SetCpusRequest(c) PROVE TypeInv'
  <2>1. CtlTypes' /\ RunTypes' /\ WorkTypes' /\ HostTypes' /\ ProcessTypes'
    BY <1>31 DEF SetCpusRequest, RunActive
  <2>2. pc' \in [Workers -> RunPCs \cup CallerPCs \cup PlacePCs]
    BY <1>31 DEF SetCpusRequest, RunActive, Goto
  <2>3. SinkKnown'
    BY <1>31 DEF SetCpusRequest, RunActive, Goto, Job, WorkTypes
  <2> QED  BY <2>1, <2>2, <2>3 DEF TypeInv, TypeOK
<1>32. ASSUME NEW c \in Callers, SetCpusSave(c) PROVE TypeInv'
  <2>1. CtlTypes' /\ RunTypes' /\ WorkTypes' /\ HostTypes'
    BY <1>32 DEF SetCpusSave
  <2>2. ProcessTypes'
    BY <1>32 DEF SetCpusSave
  <2>3. pc' \in [Workers -> RunPCs \cup CallerPCs \cup PlacePCs]
    BY <1>32 DEF SetCpusSave, Goto
  <2>4. SinkKnown'
    BY <1>32 DEF SetCpusSave, Goto, Job, WorkTypes
  <2> QED  BY <2>1, <2>2, <2>3, <2>4 DEF TypeInv, TypeOK
<1>33. ASSUME BenchStart PROVE TypeInv'
  <2>1. CtlTypes' /\ RunTypes' /\ WorkTypes' /\ HostTypes'
    BY <1>33 DEF BenchStart, RunActive
  <2>2. ProcessTypes'
    BY <1>33 DEF BenchStart, RunActive
  <2>3. pc' \in [Workers -> RunPCs \cup CallerPCs \cup PlacePCs]
    BY <1>33 DEF BenchStart, RunActive, Goto
  <2>4. SinkKnown'
    BY <1>33 DEF BenchStart, RunActive, Goto, Job, WorkTypes
  <2> QED  BY <2>1, <2>2, <2>3, <2>4 DEF TypeInv, TypeOK
<1>34. ASSUME BenchEnds PROVE TypeInv'
  <2>1. CtlTypes' /\ RunTypes' /\ WorkTypes' /\ HostTypes'
    BY <1>34 DEF BenchEnds
  <2>2. ProcessTypes'
    BY <1>34 DEF BenchEnds
  <2>3. pc' \in [Workers -> RunPCs \cup CallerPCs \cup PlacePCs]
    BY <1>34 DEF BenchEnds, Goto
  <2>4. SinkKnown'
    BY <1>34 DEF BenchEnds, Goto, Job, WorkTypes
  <2> QED  BY <2>1, <2>2, <2>3, <2>4 DEF TypeInv, TypeOK
<1>90. ASSUME UNCHANGED vars PROVE TypeInv'
  BY <1>90 DEF vars
<1> QED  BY ONLY [Next]_vars,<1>1, <1>2, <1>3, <1>4, <1>5, <1>6, <1>7, <1>8, <1>9, <1>10, <1>11, <1>12, <1>13, <1>14, <1>15, <1>16, <1>17, <1>18, <1>19, <1>20, <1>21, <1>22, <1>23, <1>24, <1>25, <1>26, <1>27, <1>28, <1>29, <1>30, <1>31, <1>32, <1>33, <1>34, <1>90 DEF Next, Request, Handle, Execute, Place, Workers

-----------------------------------------------------------------------------
\* A step of the run that is placing, or of a caller that does not begin a ping.
LEMMA GoesOn ==
    ASSUME TypeInv, OneUser, NEW w \in Workers, NEW l, Goto(w, l),
           w \in Runs => PlacingRun(w),
           w \in Callers => PingingCaller(w) \/ l \notin {"resolve", "ping", "pingEnd"} \cup PlacePCs,
           UNCHANGED <<current, pinging>>,
           \A r \in Runs : st'[r] \in ActiveStates <=> st[r] \in ActiveStates
    PROVE  OneUser'
<1> USE ConstantsOK DEF TypeInv, TypeOK, OneUser, PlacingRun, PingingCaller, RunActive, Goto, Workers
<1>0. RunActive' <=> RunActive
  BY DEF CtlTypes, NoRun
<1>1. \A r \in Runs : PlacingRun(r)' => r = current' /\ RunActive'
  <2>1. \A r \in Runs : PlacingRun(r)' => PlacingRun(r)  OBVIOUS
  <2> QED  BY <1>0, <2>1 DEF OneUser
<1>2. \A c \in Callers : PingingCaller(c)' => PingingCaller(c)
  OBVIOUS
<1> QED  BY ONLY OneUser, <1>0, <1>1, <1>2, UNCHANGED <<current, pinging>> DEF OneUser

\* One user of the host at a time is inductive once types are known: a worker that
\* may change the host is the active run's goroutine, or the one ping's, and each
\* gets there only through a check that finds neither.
LEMMA StepOneUser == TypeInv /\ OneUser /\ [Next]_vars => OneUser'
<1> SUFFICES ASSUME TypeInv, OneUser, [Next]_vars PROVE OneUser'  OBVIOUS
<1> USE ConstantsOK DEF TypeInv, TypeOK, CtlTypes, RunTypes, OneUser, PlacingRun, PingingCaller, RunActive, Goto,
        ActiveStates, ctlVars, runVars, workVars, Workers, NoRun
<1>1. ASSUME NEW c \in Callers, StartRequest(c) PROVE OneUser'
  BY <1>1 DEF StartRequest
<1>2. ASSUME NEW c \in Callers, StartCheck(c) PROVE OneUser'
  BY <1>2 DEF StartCheck, Busy
<1>3. ASSUME NEW c \in Callers, StartValidate(c) PROVE OneUser'
  <2>1. PICK l \in {"idle", "allocation"} : Goto(c, l)
    BY <1>3 DEF StartValidate
  <2>2. UNCHANGED <<current, pinging>> /\ \A x \in Runs : st'[x] \in ActiveStates <=> st[x] \in ActiveStates
    BY <1>3 DEF StartValidate
  <2>3. l \notin {"resolve", "ping", "pingEnd"} \cup PlacePCs
    BY <1>3, <2>1 DEF StartValidate
  <2> QED  BY ONLY TypeInv, OneUser, c \in Callers, ConstantsOK, <2>1, <2>2, <2>3, GoesOn DEF Workers
<1>4. ASSUME NEW c \in Callers, StartAllocation(c) PROVE OneUser'
  <2>1. PICK l \in {"idle", "commit"} : Goto(c, l)
    BY <1>4 DEF StartAllocation
  <2>2. UNCHANGED <<current, pinging>> /\ \A x \in Runs : st'[x] \in ActiveStates <=> st[x] \in ActiveStates
    BY <1>4 DEF StartAllocation
  <2>3. l \notin {"resolve", "ping", "pingEnd"} \cup PlacePCs
    BY <1>4, <2>1 DEF StartAllocation
  <2> QED  BY ONLY TypeInv, OneUser, c \in Callers, ConstantsOK, <2>1, <2>2, <2>3, GoesOn DEF Workers
<1>5. ASSUME NEW c \in Callers, StartCommit(c) PROVE OneUser'
  <2>1. CASE Busy \/ current + 1 > MaxRuns
    <3>1. Goto(c, "idle") /\ UNCHANGED <<current, pinging, st>>
      BY <1>5, <2>1 DEF StartCommit
    <3> QED  BY ONLY TypeInv, OneUser, c \in Callers, ConstantsOK, <3>1, GoesOn DEF Workers, PlacePCs
  <2>2. CASE ~(Busy \/ current + 1 > MaxRuns)
    <3> DEFINE r == current + 1
    <3>1. r \in Runs /\ r # NoRun
      <4>1. current \in {NoRun} \cup Runs  OBVIOUS
      <4> QED  BY ONLY <2>2, <4>1, NextRun DEF Runs, NoRun
    <3>2. ~RunActive /\ ~pinging  BY <2>2 DEF Busy
    <3>3. /\ current' = r /\ pinging' = pinging
          /\ st' = [st EXCEPT ![r] = "configuring"]
          /\ pc' = [pc EXCEPT ![c] = "idle", ![r] = "pin"]
      BY <1>5, <2>2 DEF StartCommit
    <3>4. \A x \in Runs : PlacingRun(x)' => x = current' /\ RunActive'
      <4>1. RunActive'  BY <3>1, <3>3
      <4>2. \A x \in Runs : ~PlacingRun(x)  BY <3>2
      <4>3. \A x \in Runs \ {r} : pc'[x] = pc[x]
        <5>1. \A x \in Runs : x \in Workers /\ x # c  BY ONLY c \in Callers, ConstantsOK DEF Workers
        <5>2. pc \in [Workers -> RunPCs \cup CallerPCs \cup PlacePCs]  OBVIOUS
        <5> QED  BY ONLY <5>1, <5>2, <3>3
      <4> QED  BY <3>3, <4>1, <4>2, <4>3
    <3>5. \A x \in Callers : ~PingingCaller(x)'
      <4>1. \A x \in Callers : ~PingingCaller(x)  BY <3>2
      <4>2. \A x \in Callers \ {c} : pc'[x] = pc[x]  BY <3>1, <3>3
      <4>3. pc'[c] = "idle"  BY <3>1, <3>3
      <4> QED  BY <4>1, <4>2, <4>3
    <3>6. ~pinging'  BY <3>2, <3>3
    <3> QED  BY ONLY <3>4, <3>5, <3>6 DEF OneUser
  <2> QED  BY <2>1, <2>2
<1>6. ASSUME NEW r \in Runs, StopRequest(r) PROVE OneUser'
  BY <1>6 DEF StopRequest, RequestStop
<1>7. ASSUME NEW r \in Runs, TimerFires(r) PROVE OneUser'
  BY <1>7 DEF TimerFires, RequestStop
<1>8. ASSUME Signal PROVE OneUser'
  BY <1>8 DEF Signal, RequestStop
<1>9. ASSUME ShutdownReturns PROVE OneUser'
  BY <1>9 DEF ShutdownReturns
<1>10. ASSUME Exit PROVE OneUser'
  BY <1>10 DEF Exit
<1>11. ASSUME NEW w \in Workers, PlaceTake(w) PROVE OneUser'
  <2>1. PICK l \in {"unroute", "pingEnd", "add", "addrs", "ping"} : Goto(w, l)
    BY <1>11 DEF PlaceTake, GiveUp, Placed
  <2>2. UNCHANGED <<current, pinging>> /\ \A x \in Runs : st'[x] \in ActiveStates <=> st[x] \in ActiveStates
    BY <1>11 DEF PlaceTake
  <2>3. (w \in Runs => PlacingRun(w)) /\ (w \in Callers => PingingCaller(w))
    BY <1>11 DEF PlaceTake
  <2> QED  BY ONLY TypeInv, OneUser, w \in Workers, ConstantsOK, <2>1, <2>2, <2>3, GoesOn DEF Workers
<1>12. ASSUME NEW w \in Workers, PlaceAdd(w) PROVE OneUser'
  <2>1. PICK l \in {"unroute", "pingEnd", "addrs", "ping"} : Goto(w, l)
    BY <1>12 DEF PlaceAdd, GiveUp, Placed
  <2>2. UNCHANGED <<current, pinging>> /\ \A x \in Runs : st'[x] \in ActiveStates <=> st[x] \in ActiveStates
    BY <1>12 DEF PlaceAdd
  <2>3. (w \in Runs => PlacingRun(w)) /\ (w \in Callers => PingingCaller(w))
    BY <1>12 DEF PlaceAdd
  <2> QED  BY ONLY TypeInv, OneUser, w \in Workers, ConstantsOK, <2>1, <2>2, <2>3, GoesOn DEF Workers
<1>13. ASSUME NEW w \in Workers, UndoRemove(w) PROVE OneUser'
  <2>1. PICK l \in {"finish", "pingEnd", "undo", "putBack"} : Goto(w, l)
    BY <1>13 DEF UndoRemove
  <2>2. UNCHANGED <<current, pinging>> /\ \A x \in Runs : st'[x] \in ActiveStates <=> st[x] \in ActiveStates
    BY <1>13 DEF UndoRemove
  <2>3. (w \in Runs => PlacingRun(w)) /\ (w \in Callers => PingingCaller(w))
    BY <1>13 DEF UndoRemove
  <2> QED  BY ONLY TypeInv, OneUser, w \in Workers, ConstantsOK, <2>1, <2>2, <2>3, GoesOn DEF Workers
<1>14. ASSUME NEW w \in Workers, UndoPutBack(w) PROVE OneUser'
  BY <1>14 DEF UndoPutBack
<1>15. ASSUME NEW r \in Runs, Pin(r) PROVE OneUser'
  BY <1>15 DEF Pin
<1>16. ASSUME NEW r \in Runs, AddGnbAddr(r) PROVE OneUser'
  <2>1. CASE UNCHANGED pc
    BY <1>16, <2>1 DEF AddGnbAddr
  <2>2. CASE \E l \in {"engine", "unroute"} : Goto(r, l)
    <3>1. UNCHANGED <<current, pinging, st>> /\ PlacingRun(r)
      BY <1>16 DEF AddGnbAddr
    <3> QED  BY ONLY TypeInv, OneUser, r \in Runs, ConstantsOK, <2>2, <3>1, GoesOn DEF Workers
  <2> QED  BY <1>16, <2>1, <2>2 DEF AddGnbAddr, GiveUp
<1>17. ASSUME NEW r \in Runs, EnsureRoute(r) PROVE OneUser'
  <2>1. PICK l \in {"engine", "unroute"} : Goto(r, l)
    BY <1>17 DEF EnsureRoute, GiveUp
  <2>2. UNCHANGED <<current, pinging>> /\ \A x \in Runs : st'[x] \in ActiveStates <=> st[x] \in ActiveStates
    BY <1>17 DEF EnsureRoute
  <2>3. PlacingRun(r)
    BY <1>17 DEF EnsureRoute
  <2> QED  BY ONLY TypeInv, OneUser, r \in Runs, ConstantsOK, <2>1, <2>2, <2>3, GoesOn DEF Workers
<1>18. ASSUME NEW r \in Runs, StartDataplane(r) PROVE OneUser'
  <2>1. PICK l \in {"launch", "unroute"} : Goto(r, l)
    BY <1>18 DEF StartDataplane, GiveUp
  <2>2. UNCHANGED <<current, pinging>> /\ \A x \in Runs : st'[x] \in ActiveStates <=> st[x] \in ActiveStates
    BY <1>18 DEF StartDataplane
  <2>3. PlacingRun(r)
    BY <1>18 DEF StartDataplane
  <2> QED  BY ONLY TypeInv, OneUser, r \in Runs, ConstantsOK, <2>1, <2>2, <2>3, GoesOn DEF Workers
<1>19. ASSUME NEW r \in Runs, LaunchN2(r) PROVE OneUser'
  <2>1. PICK l \in {"stop", "n2"} : Goto(r, l)
    BY <1>19 DEF LaunchN2
  <2>2. UNCHANGED <<current, pinging>> /\ \A x \in Runs : st'[x] \in ActiveStates <=> st[x] \in ActiveStates
    BY <1>19 DEF LaunchN2
  <2>3. PlacingRun(r)
    BY <1>19 DEF LaunchN2
  <2> QED  BY ONLY TypeInv, OneUser, r \in Runs, ConstantsOK, <2>1, <2>2, <2>3, GoesOn DEF Workers
<1>20. ASSUME NEW r \in Runs, N2Returns(r) PROVE OneUser'
  <2>1. PICK l \in {"stop", "hold"} : Goto(r, l)
    BY <1>20 DEF N2Returns
  <2>2. UNCHANGED <<current, pinging>> /\ \A x \in Runs : st'[x] \in ActiveStates <=> st[x] \in ActiveStates
    BY <1>20 DEF N2Returns
  <2>3. PlacingRun(r)
    BY <1>20 DEF N2Returns
  <2> QED  BY ONLY TypeInv, OneUser, r \in Runs, ConstantsOK, <2>1, <2>2, <2>3, GoesOn DEF Workers
<1>21. ASSUME NEW r \in Runs, Stopping(r) PROVE OneUser'
  BY <1>21 DEF Stopping
<1>22. ASSUME NEW r \in Runs, Cleanup(r) PROVE OneUser'
  BY <1>22 DEF Cleanup
<1>23. ASSUME NEW r \in Runs, RemoveRoute(r) PROVE OneUser'
  BY <1>23 DEF RemoveRoute
<1>24. ASSUME NEW r \in Runs, Finish(r) PROVE OneUser'
  BY <1>24 DEF Finish
<1>25. ASSUME NEW r \in Runs, Unpin(r) PROVE OneUser'
  BY <1>25 DEF Unpin
<1>26. ASSUME NEW r \in Runs, Done(r) PROVE OneUser'
  BY <1>26 DEF Done
<1>27. ASSUME NEW c \in Callers, PingRequest(c) PROVE OneUser'
  BY <1>27 DEF PingRequest, Busy
<1>28. ASSUME NEW c \in Callers, PingResolve(c) PROVE OneUser'
  <2>1. PICK l \in {"pingEnd", "take"} : Goto(c, l)
    BY <1>28 DEF PingResolve
  <2>2. UNCHANGED <<current, pinging>> /\ \A x \in Runs : st'[x] \in ActiveStates <=> st[x] \in ActiveStates
    BY <1>28 DEF PingResolve
  <2>3. PingingCaller(c)
    BY <1>28, <2>1 DEF PingResolve
  <2> QED  BY ONLY TypeInv, OneUser, c \in Callers, ConstantsOK, <2>1, <2>2, <2>3, GoesOn DEF Workers
<1>29. ASSUME NEW c \in Callers, PingReplies(c) PROVE OneUser'
  BY <1>29 DEF PingReplies
<1>30. ASSUME NEW c \in Callers, PingEnd(c) PROVE OneUser'
  BY <1>30 DEF PingEnd
<1>31. ASSUME NEW c \in Callers, SetCpusRequest(c) PROVE OneUser'
  BY <1>31 DEF SetCpusRequest
<1>32. ASSUME NEW c \in Callers, SetCpusSave(c) PROVE OneUser'
  BY <1>32 DEF SetCpusSave
<1>33. ASSUME BenchStart PROVE OneUser'
  BY <1>33 DEF BenchStart
<1>34. ASSUME BenchEnds PROVE OneUser'
  BY <1>34 DEF BenchEnds
<1>90. ASSUME UNCHANGED vars PROVE OneUser'
  BY <1>90 DEF vars
<1> QED  BY ONLY [Next]_vars,<1>1, <1>2, <1>3, <1>4, <1>5, <1>6, <1>7, <1>8, <1>9, <1>10, <1>11, <1>12, <1>13, <1>14, <1>15, <1>16, <1>17, <1>18, <1>19, <1>20, <1>21, <1>22, <1>23, <1>24, <1>25, <1>26, <1>27, <1>28, <1>29, <1>30, <1>31, <1>32, <1>33, <1>34, <1>90 DEF Next, Request, Handle, Execute, Place, Workers

-----------------------------------------------------------------------------
\* Every variable keeps its type, and a worker that is placing its sink has one.
THEOREM TypesCorrect == Spec => []TypeOK
<1>1. Init => TypeInv  BY InitTypeInv
<1>2. TypeInv /\ [Next]_vars => TypeInv'  BY StepTypeInv
<1>3. TypeInv => TypeOK  BY DEF TypeInv
<1> QED  BY <1>1, <1>2, <1>3, PTL DEF Spec

\* Before the first request nobody changes the host.
LEMMA InitOneUser == Init => OneUser
BY ConstantsOK DEF Init, OneUser, PlacingRun, PingingCaller, RunActive, ActiveStates, NoRun, Workers

\* One at a time: however Start, Stop, Ping, the timer and Shutdown interleave, the
\* host is changed by the active run or by one ping test, never by two of them.
THEOREM OneUserAlways == Spec => []OneUser
<1>1. Init => TypeInv /\ OneUser
  BY InitOneUser, InitTypeInv
<1>2. TypeInv /\ OneUser /\ [Next]_vars => (TypeInv /\ OneUser)'
  BY StepTypeInv, StepOneUser
<1> QED  BY <1>1, <1>2, PTL DEF Spec

-----------------------------------------------------------------------------
(* The host. *)

\* The hosts h[0] = base, h[1], ... that the changes s lead to, one after another, and
\* what is missing of the base from each is on record with a change before it.
IsChain(h, base, s) ==
    /\ h \in [0 .. Len(s) -> SUBSET Entry]
    /\ h[0] = base
    /\ \A i \in 1 .. Len(s) :
           /\ s[i].replaced \subseteq h[i - 1]
           /\ s[i].addr \notin h[i - 1] \ s[i].replaced
           /\ h[i] = (h[i - 1] \ s[i].replaced) \cup {s[i].addr}
    /\ \A i \in 0 .. Len(s) : \A e \in base \ h[i] : \E j \in 1 .. i : e \in s[j].replaced

\* Without changes the host is the base.
LEMMA ChainStarts ==
    ASSUME NEW base \in SUBSET Entry
    PROVE  \E h : IsChain(h, base, <<>>) /\ h[0] = base
<1> DEFINE h == [i \in 0 .. 0 |-> base]
<1>1. Len(<<>>) = 0
  OBVIOUS
<1>2. h[0] = base /\ h \in [0 .. Len(<<>>) -> SUBSET Entry]
  BY <1>1
<1>3. IsChain(h, base, <<>>)
  BY <1>1, <1>2 DEF IsChain
<1> QED
  BY <1>2, <1>3

\* One more change of the host it has led to.
LEMMA ChainGrows ==
    ASSUME NEW base \in SUBSET Entry, NEW s \in Seq(Change), NEW h, IsChain(h, base, s), NEW ch \in Change,
           ch.replaced \subseteq h[Len(s)], ch.addr \notin h[Len(s)] \ ch.replaced
    PROVE  \E k : /\ IsChain(k, base, Append(s, ch))
                  /\ k[Len(s) + 1] = (h[Len(s)] \ ch.replaced) \cup {ch.addr}
<1> DEFINE n == Len(s)
           t == Append(s, ch)
           top == (h[n] \ ch.replaced) \cup {ch.addr}
           k == [i \in 0 .. n + 1 |-> IF i = n + 1 THEN top ELSE h[i]]
<1>1. n \in Nat /\ Len(t) = n + 1 /\ t[n + 1] = ch /\ \A i \in 1 .. n : t[i] = s[i]
  OBVIOUS
<1>2. h \in [0 .. n -> SUBSET Entry] /\ top \in SUBSET Entry
  BY <1>1, ChangeFields DEF IsChain
<1> HIDE DEF t, n, top
<1>3. k[n + 1] = top /\ \A i \in 0 .. n : k[i] = h[i]
  BY <1>1
<1>4. k \in [0 .. Len(t) -> SUBSET Entry] /\ k[0] = base
  <2>1. k[0] = base
    BY <1>1, <1>3 DEF IsChain, n
  <2> QED
    BY <2>1, <1>1, <1>2
<1> HIDE DEF k
<1>5. \A i \in 1 .. Len(t) :
          /\ t[i].replaced \subseteq k[i - 1]
          /\ t[i].addr \notin k[i - 1] \ t[i].replaced
          /\ k[i] = (k[i - 1] \ t[i].replaced) \cup {t[i].addr}
  <2> TAKE i \in 1 .. Len(t)
  <2>1. CASE i \in 1 .. n
    <3>1. t[i] = s[i] /\ k[i] = h[i] /\ k[i - 1] = h[i - 1]
      BY <2>1, <1>1, <1>3
    <3> QED
      BY <3>1, <2>1 DEF IsChain, n
  <2>2. CASE i = n + 1
    <3>1. t[i] = ch /\ k[i] = top /\ k[i - 1] = h[n]
      BY <2>2, <1>1, <1>3
    <3> QED
      BY <3>1 DEF top, n
  <2> QED
    BY <2>1, <2>2, <1>1
<1>6. \A i \in 0 .. Len(t) : \A e \in base \ k[i] : \E j \in 1 .. i : e \in t[j].replaced
  <2> TAKE i \in 0 .. Len(t)
  <2> TAKE e \in base \ k[i]
  <2>1. ASSUME NEW m \in 0 .. n, e \notin h[m] PROVE \E j \in 1 .. m : e \in t[j].replaced
    <3>1. PICK j \in 1 .. m : e \in s[j].replaced
      BY <2>1 DEF IsChain, n
    <3> QED
      BY <3>1, <1>1
  <2>2. CASE i \in 0 .. n
    BY <2>1, <2>2, <1>3
  <2>3. CASE i = n + 1
    <3>1. e \notin h[n] \/ e \in ch.replaced
      BY <2>3, <1>3 DEF top
    <3>2. CASE e \notin h[n]
      <4>1. PICK j \in 1 .. n : e \in t[j].replaced
        BY <3>2, <2>1, <1>1
      <4> QED
        BY <4>1, <2>3, <1>1
    <3>3. CASE e \in ch.replaced
      BY <3>3, <2>3, <1>1
    <3> QED
      BY <3>1, <3>2, <3>3
  <2> QED
    BY <2>2, <2>3, <1>1
<1>7. IsChain(k, base, t)
  BY <1>4, <1>5, <1>6 DEF IsChain
<1> QED
  BY <1>3, <1>7 DEF t, n, top

\* The last change taken back.
LEMMA ChainShrinks ==
    ASSUME NEW base \in SUBSET Entry, NEW s \in Seq(Change), s # <<>>, NEW h, IsChain(h, base, s)
    PROVE  LET n  == Len(s)
               ch == s[n]
           IN  /\ \E k : IsChain(k, base, SubSeq(s, 1, n - 1)) /\ k[n - 1] = h[n - 1]
               /\ Len(SubSeq(s, 1, n - 1)) = n - 1
               /\ ch.replaced \subseteq h[n - 1]
               /\ h[n] \ {ch.addr} = h[n - 1] \ ch.replaced
<1> DEFINE n == Len(s)
           t == SubSeq(s, 1, n - 1)
           k == [i \in 0 .. n - 1 |-> h[i]]
<1>1. n \in Nat \ {0} /\ Len(t) = n - 1 /\ \A i \in 1 .. n - 1 : t[i] = s[i]
  <2>1. n \in Nat \ {0}
    OBVIOUS
  <2>2. \A i \in 1 .. n - 1 : s[i] \in Change
    BY <2>1, ElementOfSeq
  <2>3. /\ Len(t) = IF 1 <= n - 1 THEN n - 1 - 1 + 1 ELSE 0
        /\ \A i \in 1 .. n - 1 - 1 + 1 : t[i] = s[1 + i - 1]
    BY <2>1, <2>2, SubSeqProperties
  <2> HIDE DEF t, n
  <2> QED
    BY <2>1, <2>3
<1> HIDE DEF t, n
<1>2. h \in [0 .. n -> SUBSET Entry] /\ h[0] = base
  BY DEF IsChain, n
<1>3. /\ k \in [0 .. Len(t) -> SUBSET Entry] /\ k[0] = base /\ k[n - 1] = h[n - 1]
      /\ \A i \in 0 .. n - 1 : k[i] = h[i]
  BY <1>1, <1>2
<1> HIDE DEF k
<1>4. \A i \in 1 .. Len(t) : i \in 1 .. n /\ t[i] = s[i] /\ k[i] = h[i] /\ k[i - 1] = h[i - 1]
  BY <1>1, <1>3
<1>5. \A i \in 0 .. Len(t) : \A e \in base \ k[i] : \E j \in 1 .. i : e \in t[j].replaced
  <2> TAKE i \in 0 .. Len(t)
  <2> TAKE e \in base \ k[i]
  <2>1. i \in 0 .. n /\ k[i] = h[i]
    BY <1>1, <1>3
  <2>2. PICK j \in 1 .. i : e \in s[j].replaced
    BY <2>1 DEF IsChain, n
  <2>3. j \in 1 .. n - 1
    BY <1>1
  <2> QED
    BY <2>2, <2>3, <1>1
<1>6. IsChain(k, base, t)
  <2>1. \A i \in 1 .. n :
            /\ s[i].replaced \subseteq h[i - 1]
            /\ s[i].addr \notin h[i - 1] \ s[i].replaced
            /\ h[i] = (h[i - 1] \ s[i].replaced) \cup {s[i].addr}
    BY DEF IsChain, n
  <2>2. \A i \in 1 .. Len(t) :
            /\ t[i].replaced \subseteq k[i - 1]
            /\ t[i].addr \notin k[i - 1] \ t[i].replaced
            /\ k[i] = (k[i - 1] \ t[i].replaced) \cup {t[i].addr}
    BY <2>1, <1>4
  <2> QED
    BY <2>2, <1>3, <1>5 DEF IsChain
<1>7. /\ s[n].replaced \subseteq h[n - 1]
      /\ s[n].addr \notin h[n - 1] \ s[n].replaced
      /\ h[n] = (h[n - 1] \ s[n].replaced) \cup {s[n].addr}
  <2>1. n \in 1 .. n
    BY <1>1
  <2> QED
    BY <2>1 DEF IsChain, n
<1>8. h[n] \ {s[n].addr} = h[n - 1] \ s[n].replaced
  BY <1>7
<1> QED
  BY <1>1, <1>3, <1>6, <1>7, <1>8 DEF t, n

-----------------------------------------------------------------------------
\* The worker that is changing the host.
Placing(w) ==
    \/ w \in Runs /\ PlacingRun(w)
    \/ w \in Callers /\ PingingCaller(w)

\* Where a worker may have changes on record, an address off the host, a route.
ChangedPCs == {"addrs", "engine", "launch", "n2", "hold", "stop", "cleanup", "unroute", "ping", "undo", "putBack"}
TakenPCs   == {"add", "putBack"}
RoutedPCs  == {"engine", "launch", "n2", "hold", "stop", "cleanup", "unroute"}

\* Nothing is on record where it is not needed yet, or no longer.
RecordInv ==
    /\ \A c \in Callers : pc[c] \in CallerPCs \cup PlacePCs
    /\ \A r \in Runs : pc[r] \in RunPCs \cup PlacePCs
    /\ \A w \in Workers : added[w] # <<>> => pc[w] \in ChangedPCs
    /\ \A w \in Workers : taken[w] # {} => pc[w] \in TakenPCs
    /\ \A r \in Runs : routed[r] => pc[r] \in RoutedPCs

\* A route on record was not there before.
RouteInv ==
    ~refused =>
        /\ \A r \in Runs : routed[r] => route /\ ~routeBefore
        /\ (\A r \in Runs : ~routed[r]) => route = routeBefore

\* The host is what w's changes lead to, but for the address it has off.
LedBy(w) ==
    \E h : /\ IsChain(h, hostBefore, added[w])
           /\ taken[w] \subseteq h[Len(added[w])]
           /\ host = h[Len(added[w])] \ taken[w]

HostInv ==
    ~refused =>
        /\ \A w \in Workers : Placing(w) => LedBy(w)
        /\ (\A w \in Workers : ~Placing(w)) => host = hostBefore

LeaseInv == TypeInv /\ OneUser /\ RecordInv /\ RouteInv /\ HostInv

\* Two workers never change the host at a time.
LEMMA OnePlaces ==
    ASSUME OneUser, NEW v \in Workers, NEW w \in Workers, Placing(v), Placing(w)
    PROVE  v = w
BY DEF OneUser, Placing, Workers

\* A free host with nothing on record is led to by no changes.
LEMMA LedByNone ==
    ASSUME TypeInv, NEW w \in Workers, added[w] = <<>>, taken[w] = {}, host = hostBefore
    PROVE  LedBy(w)
<1>1. hostBefore \in SUBSET Entry
  BY DEF TypeInv, TypeOK, HostTypes
<1>2. PICK h : IsChain(h, hostBefore, <<>>) /\ h[0] = hostBefore
  BY <1>1, ChainStarts
<1>3. Len(<<>>) = 0
  OBVIOUS
<1> QED
  BY <1>2, <1>3 DEF LedBy

\* The other way round.
LEMMA LedByNoneOnly ==
    ASSUME NEW w \in Workers, added[w] = <<>>, taken[w] = {}, LedBy(w)
    PROVE  host = hostBefore
<1>1. PICK h : /\ IsChain(h, hostBefore, added[w])
               /\ host = h[Len(added[w])] \ taken[w]
  BY DEF LedBy
<1>2. Len(added[w]) = 0
  OBVIOUS
<1> QED
  BY <1>1, <1>2 DEF IsChain

\* A step that leaves the host alone: who begins or ends to place has nothing on record.
LEMMA HostUntouched ==
    ASSUME LeaseInv, UNCHANGED <<host, hostBefore, added, taken, refused>>,
           \A w \in Workers : Placing(w)' =>
               \/ Placing(w)
               \/ (\A v \in Workers : ~Placing(v)) /\ added[w] = <<>> /\ taken[w] = {},
           \/ \A w \in Workers : Placing(w) => Placing(w)'
           \/ \E w \in Workers : Placing(w) /\ added[w] = <<>> /\ taken[w] = {}
    PROVE  HostInv'
<1> SUFFICES ASSUME ~refused PROVE /\ \A w \in Workers : Placing(w)' => LedBy(w)
                                   /\ (\A w \in Workers : ~Placing(w)') => host = hostBefore
  BY DEF HostInv, LedBy
<1> USE DEF LeaseInv
<1>1. ASSUME NEW w \in Workers, Placing(w)' PROVE LedBy(w)
  <2>1. CASE Placing(w)
    BY <2>1 DEF HostInv
  <2>2. CASE (\A v \in Workers : ~Placing(v)) /\ added[w] = <<>> /\ taken[w] = {}
    <3>1. host = hostBefore
      BY <2>2 DEF HostInv
    <3> QED
      BY <2>2, <3>1, LedByNone
  <2> QED
    BY <1>1, <2>1, <2>2
<1>2. ASSUME \A w \in Workers : ~Placing(w)' PROVE host = hostBefore
  <2>1. CASE \A w \in Workers : ~Placing(w)
    BY <2>1 DEF HostInv
  <2>2. CASE \E w \in Workers : Placing(w) /\ added[w] = <<>> /\ taken[w] = {}
    <3>1. PICK w \in Workers : Placing(w) /\ added[w] = <<>> /\ taken[w] = {}
      BY <2>2
    <3>2. LedBy(w)
      BY <3>1 DEF HostInv
    <3> QED
      BY <3>1, <3>2, LedByNoneOnly
  <2> QED
    BY <1>2, <2>1, <2>2
<1> QED
  BY <1>1, <1>2

\* A step of the one worker that changes the host and goes on doing so.
LEMMA HostUsed ==
    ASSUME OneUser', NEW w \in Workers, Placing(w)', ~refused' => LedBy(w)'
    PROVE  HostInv'
<1>1. \A v \in Workers : Placing(v)' => v = w
  BY OnePlaces DEF OneUser, Placing, Workers
<1> QED
  BY <1>1 DEF HostInv

-----------------------------------------------------------------------------
PlacingRunPCs == {"pin", "addrs", "engine", "launch", "n2", "hold", "stop", "cleanup", "unroute", "finish"} \cup PlacePCs
PingingPCs    == {"resolve", "ping", "pingEnd"} \cup PlacePCs

\* Where a worker may go with what it has on record.
MayGo(w, l) ==
    /\ w \in Callers => l \in CallerPCs \cup PlacePCs
    /\ w \in Runs => l \in RunPCs \cup PlacePCs
    /\ added[w] # <<>> => l \in ChangedPCs
    /\ taken[w] # {} => l \in TakenPCs
    /\ w \in Runs /\ routed[w] => l \in RoutedPCs

\* A worker that goes on with its records as they are.
LEMMA RecordsKept ==
    ASSUME LeaseInv, NEW w \in Workers, NEW l, Goto(w, l), UNCHANGED <<added, taken, routed>>, MayGo(w, l)
    PROVE  RecordInv'
<1>1. pc \in [Workers -> RunPCs \cup CallerPCs \cup PlacePCs]
  BY DEF LeaseInv, TypeInv, TypeOK
<1>2. \A v \in Workers : pc'[v] = IF v = w THEN l ELSE pc[v]
  BY <1>1 DEF Goto
<1>3. \A c \in Callers : c \in Workers
  BY DEF Workers
<1>4. \A r \in Runs : r \in Workers
  BY DEF Workers
<1> QED
  BY <1>2, <1>3, <1>4 DEF LeaseInv, RecordInv, MayGo

\* A worker that goes on and leaves host, route and records alone.
LEMMA QuietStep ==
    ASSUME LeaseInv, NEW w \in Workers, NEW l, Goto(w, l), MayGo(w, l),
           UNCHANGED <<host, route, hostBefore, routeBefore, refused, added, taken, routed>>,
           w \in Runs => (pc[w] \in PlacingRunPCs <=> l \in PlacingRunPCs),
           w \in Callers => (pc[w] \in PingingPCs <=> l \in PingingPCs)
    PROVE  RecordInv' /\ RouteInv' /\ HostInv'
<1>1. RecordInv'
  BY RecordsKept
<1>2. RouteInv'
  BY DEF LeaseInv, RouteInv
<1>3. \A v \in Workers : pc'[v] = IF v = w THEN l ELSE pc[v]
  BY DEF Goto, LeaseInv, TypeInv, TypeOK
<1>4. \A v \in Workers : Placing(v)' <=> Placing(v)
  BY <1>3 DEF Placing, PlacingRun, PingingCaller, PlacingRunPCs, PingingPCs
<1>5. HostInv'
  BY <1>4, HostUntouched
<1> QED
  BY <1>1, <1>2, <1>5

\* A step that goes nowhere.
LEMMA IdleStep ==
    ASSUME LeaseInv, UNCHANGED <<pc, host, route, hostBefore, routeBefore, refused, added, taken, routed>>
    PROVE  RecordInv' /\ RouteInv' /\ HostInv'
<1>1. RecordInv' /\ RouteInv'
  BY DEF LeaseInv, RecordInv, RouteInv
<1>2. \A v \in Workers : Placing(v)' <=> Placing(v)
  BY DEF Placing, PlacingRun, PingingCaller
<1>3. HostInv'
  BY <1>2, HostUntouched
<1> QED
  BY <1>1, <1>3


\* What the quiet steps leave alone.
Quiet == UNCHANGED <<host, route, hostBefore, routeBefore, refused, added, taken, routed>>

\* A handler that has nothing on record where it is, or keeps its record where it goes.
CallerGoes(c, l) ==
    /\ Goto(c, l) /\ l \in CallerPCs \cup PlacePCs
    /\ pc[c] \in ChangedPCs => l \in ChangedPCs
    /\ pc[c] \notin TakenPCs
    /\ pc[c] \in PingingPCs <=> l \in PingingPCs

LEMMA CallerStep ==
    ASSUME LeaseInv, NEW c \in Callers, NEW l, CallerGoes(c, l), Quiet
    PROVE  RecordInv' /\ RouteInv' /\ HostInv'
<1>1. c \in Workers /\ c \notin Runs
  BY ConstantsOK DEF Workers
<1>2. MayGo(c, l)
  BY <1>1 DEF MayGo, CallerGoes, LeaseInv, RecordInv
<1> QED
  BY <1>1, <1>2, QuietStep DEF CallerGoes, Quiet

\* Start's and SetCpus' steps up to the launch, and a ping's between its changes.
LEMMA HandlerSteps ==
    ASSUME LeaseInv, NEW c \in Callers,
           \/ StartRequest(c) \/ StartCheck(c) \/ StartValidate(c) \/ StartAllocation(c)
           \/ PingResolve(c) \/ PingReplies(c) \/ SetCpusRequest(c) \/ SetCpusSave(c)
    PROVE  RecordInv' /\ RouteInv' /\ HostInv'
<1> SUFFICES \E l : CallerGoes(c, l) /\ Quiet
  BY CallerStep
<1> USE DEF CallerGoes, Quiet, CallerPCs, PlacePCs, ChangedPCs, TakenPCs, PingingPCs, hostVars, baseVars, workVars
<1>1. StartRequest(c) => CallerGoes(c, "startCheck") /\ Quiet
  BY DEF StartRequest
<1>2. StartCheck(c) => (CallerGoes(c, "idle") \/ CallerGoes(c, "validate")) /\ Quiet
  BY DEF StartCheck
<1>3. StartValidate(c) => (CallerGoes(c, "idle") \/ CallerGoes(c, "allocation")) /\ Quiet
  BY DEF StartValidate
<1>4. StartAllocation(c) => (CallerGoes(c, "idle") \/ CallerGoes(c, "commit")) /\ Quiet
  BY DEF StartAllocation
<1>5. PingResolve(c) => (CallerGoes(c, "pingEnd") \/ CallerGoes(c, "take")) /\ Quiet
  BY DEF PingResolve
<1>6. PingReplies(c) => CallerGoes(c, "undo") /\ Quiet
  BY DEF PingReplies
<1>7. SetCpusRequest(c) => CallerGoes(c, "save") /\ Quiet
  BY DEF SetCpusRequest
<1>8. SetCpusSave(c) => CallerGoes(c, "idle") /\ Quiet
  BY DEF SetCpusSave
<1> HIDE DEF CallerGoes, Quiet
<1> QED
  BY <1>1, <1>2, <1>3, <1>4, <1>5, <1>6, <1>7, <1>8

\* A run that has nothing on record where it is, or keeps its record where it goes.
RunGoes(r, l) ==
    /\ Goto(r, l) /\ l \in RunPCs \cup PlacePCs
    /\ pc[r] \in ChangedPCs => l \in ChangedPCs
    /\ pc[r] \notin TakenPCs
    /\ pc[r] \in RoutedPCs => l \in RoutedPCs
    /\ pc[r] \in PlacingRunPCs <=> l \in PlacingRunPCs

LEMMA RunStep ==
    ASSUME LeaseInv, NEW r \in Runs, NEW l, RunGoes(r, l), Quiet
    PROVE  RecordInv' /\ RouteInv' /\ HostInv'
<1>1. r \in Workers /\ r \notin Callers
  BY ConstantsOK DEF Workers
<1>2. MayGo(r, l)
  BY <1>1 DEF MayGo, RunGoes, LeaseInv, RecordInv
<1> QED
  BY <1>1, <1>2, QuietStep DEF RunGoes, Quiet

\* execute's steps between its changes to the host.
LEMMA ExecuteSteps ==
    ASSUME LeaseInv, NEW r \in Runs,
           \/ Pin(r) \/ StartDataplane(r) \/ LaunchN2(r) \/ N2Returns(r) \/ Stopping(r)
           \/ Cleanup(r) \/ Unpin(r) \/ Done(r)
    PROVE  RecordInv' /\ RouteInv' /\ HostInv'
<1> SUFFICES \E l : RunGoes(r, l) /\ Quiet
  BY RunStep
<1> USE DEF RunGoes, Quiet, RunPCs, PlacePCs, ChangedPCs, TakenPCs, RoutedPCs, PlacingRunPCs, hostVars, baseVars, workVars
<1>1. Pin(r) => RunGoes(r, "take") /\ Quiet
  BY DEF Pin
<1>2. StartDataplane(r) => (RunGoes(r, "launch") \/ RunGoes(r, "unroute")) /\ Quiet
  BY DEF StartDataplane, GiveUp
<1>3. LaunchN2(r) => (RunGoes(r, "stop") \/ RunGoes(r, "n2")) /\ Quiet
  BY DEF LaunchN2
<1>4. N2Returns(r) => (RunGoes(r, "stop") \/ RunGoes(r, "hold")) /\ Quiet
  BY DEF N2Returns
<1>5. Stopping(r) => RunGoes(r, "cleanup") /\ Quiet
  BY DEF Stopping
<1>6. Cleanup(r) => RunGoes(r, "unroute") /\ Quiet
  BY DEF Cleanup
<1>7. Unpin(r) => RunGoes(r, "return") /\ Quiet
  BY DEF Unpin
<1>8. Done(r) => RunGoes(r, "done") /\ Quiet
  BY DEF Done
<1> HIDE DEF RunGoes, Quiet
<1> QED
  BY <1>1, <1>2, <1>3, <1>4, <1>5, <1>6, <1>7, <1>8

\* Steps of nobody's: requests to stop, the timer, the bench, the process.
LEMMA OtherSteps ==
    ASSUME LeaseInv,
           \/ \E r \in Runs : StopRequest(r) \/ TimerFires(r)
           \/ BenchStart \/ BenchEnds \/ Signal \/ ShutdownReturns \/ Exit \/ UNCHANGED vars
    PROVE  RecordInv' /\ RouteInv' /\ HostInv'
<1>1. UNCHANGED <<pc, host, route, hostBefore, routeBefore, refused, added, taken, routed>>
  BY DEF StopRequest, TimerFires, BenchStart, BenchEnds, Signal, ShutdownReturns, Exit, vars,
         hostVars, baseVars, workVars
<1> QED
  BY <1>1, IdleStep

-----------------------------------------------------------------------------
\* What RecordInv says of one worker.
FitsRecord(w) ==
    /\ w \in Callers => pc[w] \in CallerPCs \cup PlacePCs
    /\ w \in Runs => pc[w] \in RunPCs \cup PlacePCs
    /\ added[w] # <<>> => pc[w] \in ChangedPCs
    /\ taken[w] # {} => pc[w] \in TakenPCs
    /\ w \in Runs /\ routed[w] => pc[w] \in RoutedPCs

\* A step of one worker leaves the others' records and places alone.
LEMMA RecordsMove ==
    ASSUME LeaseInv, NEW w \in Workers, FitsRecord(w)',
           \A v \in Workers \ {w} : pc'[v] = pc[v] /\ added'[v] = added[v] /\ taken'[v] = taken[v],
           \A r \in Runs \ {w} : routed'[r] = routed[r]
    PROVE  RecordInv'
<1>1. \A c \in Callers : c \in Workers
  BY DEF Workers
<1>2. \A r \in Runs : r \in Workers
  BY DEF Workers
<1>3. \A v \in Workers : added'[v] # <<>> => pc'[v] \in ChangedPCs
  BY DEF LeaseInv, RecordInv, FitsRecord
<1>4. \A v \in Workers : taken'[v] # {} => pc'[v] \in TakenPCs
  BY DEF LeaseInv, RecordInv, FitsRecord
<1>5. \A r \in Runs : routed'[r] => pc'[r] \in RoutedPCs
  BY <1>2 DEF LeaseInv, RecordInv, FitsRecord
<1>6. \A c \in Callers : pc'[c] \in CallerPCs \cup PlacePCs
  BY <1>1 DEF LeaseInv, RecordInv, FitsRecord
<1>7. \A r \in Runs : pc'[r] \in RunPCs \cup PlacePCs
  BY <1>2 DEF LeaseInv, RecordInv, FitsRecord
<1> QED
  BY <1>3, <1>4, <1>5, <1>6, <1>7 DEF RecordInv

\* What a worker at a place of its own has on record there.
LEMMA FitsNow ==
    ASSUME LeaseInv, NEW w \in Workers
    PROVE  FitsRecord(w)
BY DEF LeaseInv, RecordInv, FitsRecord

\* A worker in placeAddr or undo is the one that changes the host.
LEMMA PlacerPlaces ==
    ASSUME NEW w \in Workers, pc[w] \in PlacePCs
    PROVE  Placing(w)
BY DEF Placing, PlacingRun, PingingCaller, PlacePCs, Workers

-----------------------------------------------------------------------------
\* StartCommit launches a run only on a free host, and a run not launched yet has
\* nothing on record.
LEMMA CommitStep ==
    ASSUME LeaseInv, NEW c \in Callers, StartCommit(c)
    PROVE  RecordInv' /\ RouteInv' /\ HostInv'
<1>0. c \in Workers /\ c \notin Runs
  BY ConstantsOK DEF Workers
<1>1. CASE Busy \/ current + 1 > MaxRuns
  <2>1. CallerGoes(c, "idle") /\ Quiet
    BY <1>1 DEF StartCommit, CallerGoes, Quiet, CallerPCs, PlacePCs, ChangedPCs, TakenPCs, PingingPCs,
                hostVars, baseVars, workVars
  <2> QED
    BY <2>1, CallerStep
<1>2. CASE ~(Busy \/ current + 1 > MaxRuns)
  <2> DEFINE r == current + 1
  <2>1. r \in Runs
    <3>1. current \in {NoRun} \cup Runs
      BY DEF LeaseInv, TypeInv, TypeOK, CtlTypes
    <3> QED
      BY <1>2, <3>1, NextRun
  <2>2. r \in Workers /\ r # c
    BY <2>1, <1>0 DEF Workers
  <2>3. /\ pc' = [pc EXCEPT ![c] = "idle", ![r] = "pin"] /\ pc[c] = "commit"
        /\ UNCHANGED <<host, route, hostBefore, routeBefore, refused, added, taken, routed>>
    BY <1>2 DEF StartCommit, hostVars, baseVars
  <2> HIDE DEF r
  <2>4. /\ pc'[c] = "idle" /\ pc'[r] = "pin"
        /\ \A v \in Workers \ {c, r} : pc'[v] = pc[v]
    BY <2>2, <2>3, <1>0 DEF LeaseInv, TypeInv, TypeOK
  <2>5. \A v \in Workers : ~Placing(v)
    BY <1>2 DEF Busy, LeaseInv, OneUser, Placing
  <2>6. added[r] = <<>> /\ taken[r] = {} /\ ~routed[r]
    <3>1. pc[r] \in RunPCs \cup PlacePCs /\ ~PlacingRun(r)
      BY <2>1, <2>2, <2>5 DEF LeaseInv, RecordInv, Placing
    <3>2. pc[r] \in {"none", "unpin", "return", "done"}
      BY <3>1 DEF PlacingRun, RunPCs, PlacePCs
    <3>3. FitsRecord(r)
      BY <2>2, FitsNow
    <3> QED
      BY <3>2, <3>3, <2>1 DEF FitsRecord, ChangedPCs, TakenPCs, RoutedPCs
  <2>7. added[c] = <<>> /\ taken[c] = {}
    <3>1. FitsRecord(c)
      BY <1>0, FitsNow
    <3> QED
      BY <3>1, <2>3 DEF FitsRecord, ChangedPCs, TakenPCs
  <2>8. RecordInv'
    <3>1. \A v \in Workers : added[v] # <<>> => v \notin {c, r}
      BY <2>6, <2>7
    <3>2. \A v \in Workers : taken[v] # {} => v \notin {c, r}
      BY <2>6, <2>7
    <3>3. \A v \in Runs : v \in Workers /\ v # c /\ (routed[v] => v # r)
      BY <2>6, <1>0 DEF Workers
    <3>4. \A v \in Callers : v \in Workers /\ v # r
      BY <2>1, ConstantsOK DEF Workers
    <3>5. \A v \in Workers : added'[v] # <<>> => pc'[v] \in ChangedPCs
      BY <2>3, <2>4, <3>1 DEF LeaseInv, RecordInv
    <3>6. \A v \in Workers : taken'[v] # {} => pc'[v] \in TakenPCs
      BY <2>3, <2>4, <3>2 DEF LeaseInv, RecordInv
    <3>7. \A v \in Runs : routed'[v] => pc'[v] \in RoutedPCs
      BY <2>3, <2>4, <3>3 DEF LeaseInv, RecordInv
    <3>8. \A v \in Callers : pc'[v] \in CallerPCs \cup PlacePCs
      BY <2>4, <3>4 DEF LeaseInv, RecordInv, CallerPCs
    <3>9. \A v \in Runs : pc'[v] \in RunPCs \cup PlacePCs
      BY <2>4, <3>3 DEF LeaseInv, RecordInv, RunPCs
    <3> QED
      BY <3>5, <3>6, <3>7, <3>8, <3>9 DEF RecordInv
  <2>9. RouteInv'
    BY <2>3 DEF LeaseInv, RouteInv
  <2>10. HostInv'
    <3>1. \A v \in Workers : Placing(v)' => v = r
      BY <2>4, <2>5, <1>0 DEF Placing, PlacingRun, PingingCaller, PlacePCs
    <3>2. UNCHANGED <<host, hostBefore, added, taken, refused>>
      BY <2>3
    <3>3. \A v \in Workers : Placing(v)' =>
               \/ Placing(v)
               \/ (\A u \in Workers : ~Placing(u)) /\ added[v] = <<>> /\ taken[v] = {}
      BY <3>1, <2>5, <2>6
    <3>4. \A v \in Workers : Placing(v) => Placing(v)'
      BY <2>5
    <3> QED
      BY <3>2, <3>3, <3>4, HostUntouched
  <2> QED
    BY <2>8, <2>9, <2>10
<1> QED
  BY <1>1, <1>2

\* A ping test begins on a free host.
LEMMA PingBegins ==
    ASSUME LeaseInv, NEW c \in Callers, PingRequest(c)
    PROVE  RecordInv' /\ RouteInv' /\ HostInv'
<1>0. c \in Workers /\ c \notin Runs
  BY ConstantsOK DEF Workers
<1>1. Goto(c, "resolve") /\ pc[c] = "idle" /\ Quiet /\ ~Busy
  BY DEF PingRequest, Quiet, hostVars, baseVars, workVars
<1>2. added[c] = <<>> /\ taken[c] = {}
  <2>1. FitsRecord(c)
    BY <1>0, FitsNow
  <2> QED
    BY <2>1, <1>1 DEF FitsRecord, ChangedPCs, TakenPCs
<1>3. RecordInv'
  <2>1. MayGo(c, "resolve")
    BY <1>0, <1>2 DEF MayGo, CallerPCs
  <2> QED
    BY <2>1, <1>0, <1>1, RecordsKept DEF Quiet
<1>4. RouteInv'
  BY <1>1 DEF Quiet, LeaseInv, RouteInv
<1>5. \A v \in Workers : ~Placing(v)
  BY <1>1 DEF Busy, LeaseInv, OneUser, Placing
<1>6. \A v \in Workers \ {c} : pc'[v] = pc[v]
  BY <1>0, <1>1 DEF Goto, LeaseInv, TypeInv, TypeOK
<1>7. \A v \in Workers : Placing(v)' => v = c
  BY <1>5, <1>6 DEF Placing, PlacingRun, PingingCaller
<1>8. UNCHANGED <<host, hostBefore, added, taken, refused>>
  BY <1>1 DEF Quiet
<1>9. \A v \in Workers : Placing(v)' =>
           \/ Placing(v)
           \/ (\A u \in Workers : ~Placing(u)) /\ added[v] = <<>> /\ taken[v] = {}
  BY <1>2, <1>5, <1>7
<1>10. HostInv'
  BY <1>5, <1>8, <1>9, HostUntouched
<1> QED
  BY <1>3, <1>4, <1>10

\* Finish and PingEnd: who gives the host back has undone everything.
LEMMA GivesBack ==
    ASSUME LeaseInv, NEW w \in Workers, Quiet,
           \/ w \in Callers /\ pc[w] = "pingEnd" /\ Goto(w, "idle")
           \/ w \in Runs /\ pc[w] = "finish" /\ Goto(w, "unpin")
    PROVE  RecordInv' /\ RouteInv' /\ HostInv'
<1>0. w \in Callers => w \notin Runs
  BY ConstantsOK
<1>1. added[w] = <<>> /\ taken[w] = {} /\ (w \in Runs => ~routed[w])
  <2>1. FitsRecord(w)
    BY FitsNow
  <2> QED
    BY <2>1 DEF FitsRecord, ChangedPCs, TakenPCs, RoutedPCs
<1>2. PICK l \in {"idle", "unpin"} : Goto(w, l) /\ (w \in Callers => l = "idle") /\ (w \in Runs => l = "unpin")
  BY <1>0
<1>3. RecordInv'
  <2>1. MayGo(w, l)
    BY <1>1, <1>2 DEF MayGo, CallerPCs, RunPCs
  <2> QED
    BY <2>1, <1>2, RecordsKept DEF Quiet
<1>4. RouteInv'
  BY DEF Quiet, LeaseInv, RouteInv
<1>5. Placing(w)
  BY DEF Placing, PlacingRun, PingingCaller
<1>6. pc'[w] = l /\ \A v \in Workers \ {w} : pc'[v] = pc[v]
  BY <1>2 DEF Goto, LeaseInv, TypeInv, TypeOK
<1>7. \A v \in Workers : Placing(v)' => Placing(v)
  BY <1>5, <1>6 DEF Placing, PlacingRun, PingingCaller
<1>8. UNCHANGED <<host, hostBefore, added, taken, refused>>
  BY DEF Quiet
<1>9. HostInv'
  BY <1>1, <1>5, <1>7, <1>8, HostUntouched
<1> QED
  BY <1>3, <1>4, <1>9

-----------------------------------------------------------------------------
\* A worker that goes on placing without touching anything.
LEMMA PlacerGoesOn ==
    ASSUME LeaseInv, NEW w \in Workers, NEW l, Goto(w, l), Quiet, Placing(w),
           l \in {"add", "undo", "unroute", "pingEnd", "addrs", "ping", "finish"},
           l \in {"pingEnd", "ping"} => w \notin Runs,
           l \in {"unroute", "addrs", "finish"} => w \in Runs,
           added[w] # <<>> => l \in ChangedPCs,
           taken[w] # {} => l \in TakenPCs,
           w \in Runs /\ routed[w] => l \in RoutedPCs
    PROVE  RecordInv' /\ RouteInv' /\ HostInv'
<1>1. w \in Callers => w \notin Runs
  BY ConstantsOK
<1>2. MayGo(w, l)
  BY <1>1 DEF MayGo, CallerPCs, RunPCs, PlacePCs
<1>3. w \in Runs => (pc[w] \in PlacingRunPCs /\ l \in PlacingRunPCs)
  BY <1>1 DEF Placing, PlacingRun, PlacingRunPCs, PlacePCs
<1>4. w \in Callers => (pc[w] \in PingingPCs /\ l \in PingingPCs)
  BY <1>1 DEF Placing, PingingCaller, PingingPCs, PlacePCs
<1> QED
  BY <1>2, <1>3, <1>4, QuietStep DEF Quiet

\* A worker that places, and goes on placing after its step.
LEMMA PlacesOn ==
    ASSUME LeaseInv, NEW w \in Workers, NEW l, Goto(w, l),
           \/ l \in PlacePCs
           \/ w \in Runs /\ l \in PlacingRunPCs
           \/ w \in Callers /\ l \in PingingPCs
    PROVE  Placing(w)' /\ pc'[w] = l /\ \A v \in Workers \ {w} : pc'[v] = pc[v]
<1>1. pc'[w] = l /\ \A v \in Workers \ {w} : pc'[v] = pc[v]
  BY DEF Goto, LeaseInv, TypeInv, TypeOK
<1> QED
  BY <1>1 DEF Placing, PlacingRun, PingingCaller, PlacePCs, PlacingRunPCs, PingingPCs, Workers

\* placeAddr's FindAddr and Remove.
LEMMA TakeStep ==
    ASSUME LeaseInv, OneUser', NEW w \in Workers, PlaceTake(w)
    PROVE  RecordInv' /\ RouteInv' /\ HostInv'
<1> DEFINE have == { e \in host : e[1] = job[w].sink[1] }
<1>0. pc[w] = "take" /\ Placing(w) /\ (w \in Callers <=> w \notin Runs)
  BY PlacerPlaces, ConstantsOK DEF PlaceTake, PlacePCs, Workers
<1>1. added[w] = <<>> /\ taken[w] = {} /\ (w \in Runs => ~routed[w])
  <2>1. FitsRecord(w)
    BY FitsNow
  <2> QED
    BY <2>1, <1>0 DEF FitsRecord, ChangedPCs, TakenPCs, RoutedPCs
<1>2. UNCHANGED <<added, routed, route, refused, hostBefore, routeBefore>>
  BY DEF PlaceTake, baseVars
<1>3. CASE UNCHANGED <<host, taken>> /\ \E l \in {"unroute", "pingEnd", "add", "addrs", "ping"} :
             /\ Goto(w, l)
             /\ l \in {"pingEnd", "ping"} => w \notin Runs
             /\ l \in {"unroute", "addrs"} => w \in Runs
  BY <1>0, <1>1, <1>2, <1>3, PlacerGoesOn DEF Quiet
<1>4. CASE \E e \in have : host' = host \ {e} /\ taken' = [taken EXCEPT ![w] = {e}] /\ Goto(w, "add")
  <2>1. PICK e \in have : host' = host \ {e} /\ taken' = [taken EXCEPT ![w] = {e}] /\ Goto(w, "add")
    BY <1>4
  <2>2. taken'[w] = {e} /\ \A v \in Workers \ {w} : taken'[v] = taken[v]
    BY <2>1 DEF LeaseInv, TypeInv, TypeOK, WorkTypes
  <2>3. Placing(w)' /\ pc'[w] = "add" /\ \A v \in Workers \ {w} : pc'[v] = pc[v]
    BY <2>1, PlacesOn DEF PlacePCs
  <2>4. RecordInv'
    <3>1. FitsRecord(w)'
      BY <1>0, <1>1, <1>2, <2>3 DEF FitsRecord, PlacePCs, TakenPCs
    <3> QED
      BY <3>1, <1>2, <2>2, <2>3, RecordsMove
  <2>5. RouteInv'
    BY <1>2 DEF LeaseInv, RouteInv
  <2>6. ASSUME ~refused' PROVE LedBy(w)'
    <3>1. LedBy(w)
      BY <2>6, <1>0, <1>2 DEF LeaseInv, HostInv
    <3>2. PICK h : IsChain(h, hostBefore, added[w]) /\ host = h[Len(added[w])] \ taken[w]
      BY <3>1 DEF LedBy
    <3>3. taken'[w] \subseteq h[Len(added[w])] /\ host' = h[Len(added[w])] \ taken'[w]
      BY <3>2, <1>1, <2>1, <2>2
    <3> QED
      BY <3>2, <3>3, <1>2 DEF LedBy
  <2>7. HostInv'
    BY <2>3, <2>6, HostUsed
  <2> QED
    BY <2>4, <2>5, <2>7
<1>5. \/ UNCHANGED <<host, taken>> /\ \E l \in {"unroute", "pingEnd", "add", "addrs", "ping"} :
             /\ Goto(w, l)
             /\ l \in {"pingEnd", "ping"} => w \notin Runs
             /\ l \in {"unroute", "addrs"} => w \in Runs
      \/ \E e \in have : host' = host \ {e} /\ taken' = [taken EXCEPT ![w] = {e}] /\ Goto(w, "add")
  BY DEF PlaceTake, GiveUp, Placed
<1> QED
  BY <1>3, <1>4, <1>5

\* placeAddr's Add, or what it took off put back.
LEMMA AddStep ==
    ASSUME LeaseInv, OneUser', NEW w \in Workers, PlaceAdd(w)
    PROVE  RecordInv' /\ RouteInv' /\ HostInv'
<1> DEFINE want == job[w].sink
           ch == [addr |-> want, replaced |-> taken[w]]
<1>0. pc[w] = "add" /\ Placing(w) /\ (w \in Callers <=> w \notin Runs)
  BY PlacerPlaces, ConstantsOK DEF PlaceAdd, PlacePCs, Workers
<1>1. added[w] = <<>> /\ (w \in Runs => ~routed[w])
  <2>1. FitsRecord(w)
    BY FitsNow
  <2> QED
    BY <2>1, <1>0 DEF FitsRecord, ChangedPCs, RoutedPCs
<1>2. /\ UNCHANGED <<routed, route, hostBefore, routeBefore>>
      /\ taken' = [taken EXCEPT ![w] = {}]
      /\ ~refused' => ~refused
  BY DEF PlaceAdd, baseVars, LeaseInv, TypeInv, TypeOK, HostTypes
<1>3. taken'[w] = {} /\ \A v \in Workers \ {w} : taken'[v] = taken[v]
  BY <1>2 DEF LeaseInv, TypeInv, TypeOK, WorkTypes
<1>4. RouteInv'
  BY <1>2 DEF LeaseInv, RouteInv
<1>5. ASSUME ~refused' PROVE \E h : /\ IsChain(h, hostBefore, <<>>) /\ taken[w] \subseteq h[0]
                                    /\ host = h[0] \ taken[w]
  <2>1. LedBy(w) /\ Len(<<>>) = 0
    BY <1>5, <1>0, <1>2 DEF LeaseInv, HostInv
  <2> QED
    BY <2>1, <1>1 DEF LedBy
<1>6. CASE /\ want \notin host /\ host' = host \cup {want} /\ Placed(w)
           /\ added' = [added EXCEPT ![w] = Append(@, ch)]
  <2>1. PICK l \in {"addrs", "ping"} : Goto(w, l) /\ (l = "addrs" <=> w \in Runs)
    BY <1>6 DEF Placed
  <2>2. Placing(w)' /\ pc'[w] = l /\ \A v \in Workers \ {w} : pc'[v] = pc[v]
    BY <2>1, <1>0, PlacesOn DEF PlacingRunPCs, PingingPCs
  <2>3. added'[w] = Append(<<>>, ch) /\ \A v \in Workers \ {w} : added'[v] = added[v]
    BY <1>1, <1>6 DEF LeaseInv, TypeInv, TypeOK, WorkTypes
  <2>4. RecordInv'
    <3>1. FitsRecord(w)'
      BY <1>0, <1>1, <1>2, <1>3, <2>1, <2>2 DEF FitsRecord, CallerPCs, RunPCs, ChangedPCs
    <3> QED
      BY <3>1, <1>2, <1>3, <2>2, <2>3, RecordsMove
  <2>5. ASSUME ~refused' PROVE LedBy(w)'
    <3>1. PICK h : IsChain(h, hostBefore, <<>>) /\ taken[w] \subseteq h[0] /\ host = h[0] \ taken[w]
      BY <2>5, <1>5
    <3>2. ch \in Change /\ hostBefore \in SUBSET Entry
      <4>1. want \in Entry /\ taken[w] \in SUBSET Entry
        BY <1>0 DEF LeaseInv, TypeInv, SinkKnown, TypeOK, WorkTypes
      <4> QED
        BY <4>1, ChangeFields DEF LeaseInv, TypeInv, TypeOK, HostTypes
    <3>3. Len(<<>>) = 0 /\ <<>> \in Seq(Change) /\ Len(Append(<<>>, ch)) = 1
      BY <3>2
    <3>4. ch.replaced = taken[w] /\ ch.addr = want
      OBVIOUS
    <3>5. PICK k : IsChain(k, hostBefore, Append(<<>>, ch)) /\ k[1] = (h[0] \ ch.replaced) \cup {ch.addr}
      <4>1. ch.replaced \subseteq h[Len(<<>>)] /\ ch.addr \notin h[Len(<<>>)] \ ch.replaced
        BY <3>1, <3>3, <3>4, <1>6
      <4>2. ASSUME NEW s \in Seq(Change), NEW a \in Change, IsChain(h, hostBefore, s),
                   a.replaced \subseteq h[Len(s)], a.addr \notin h[Len(s)] \ a.replaced
            PROVE  \E k : /\ IsChain(k, hostBefore, Append(s, a))
                          /\ k[Len(s) + 1] = (h[Len(s)] \ a.replaced) \cup {a.addr}
        BY ONLY <3>2, <4>2, ChainGrows
      <4> HIDE DEF ch
      <4>3. \E k : /\ IsChain(k, hostBefore, Append(<<>>, ch))
                   /\ k[Len(<<>>) + 1] = (h[Len(<<>>)] \ ch.replaced) \cup {ch.addr}
        BY <3>1, <3>2, <3>3, <4>1, <4>2
      <4>4. Len(<<>>) + 1 = 1 /\ Len(<<>>) = 0
        BY <3>3
      <4> QED
        BY ONLY <4>3, <4>4
    <3>6. host' = k[1]
      BY <3>1, <3>4, <3>5, <1>6
    <3>7. IsChain(k, hostBefore', added'[w]) /\ Len(added'[w]) = 1
      BY <3>3, <3>5, <2>3, <1>2
    <3> QED
      BY <3>6, <3>7, <1>3 DEF LedBy
  <2>6. HostInv'
    BY <2>2, <2>5, HostUsed
  <2> QED
    BY <1>4, <2>4, <2>6
<1>7. CASE GiveUp(w) /\ UNCHANGED added /\ (host' = host \cup taken[w] \/ refused')
  <2>1. PICK l \in {"unroute", "pingEnd"} : Goto(w, l) /\ (l = "unroute" <=> w \in Runs)
    BY <1>7 DEF GiveUp
  <2>2. Placing(w)' /\ pc'[w] = l /\ \A v \in Workers \ {w} : pc'[v] = pc[v]
    BY <2>1, <1>0, PlacesOn DEF PlacingRunPCs, PingingPCs
  <2>3. RecordInv'
    <3>1. FitsRecord(w)'
      BY <1>0, <1>1, <1>2, <1>3, <1>7, <2>1, <2>2 DEF FitsRecord, CallerPCs, RunPCs
    <3> QED
      BY <3>1, <1>2, <1>3, <1>7, <2>2, RecordsMove
  <2>4. ASSUME ~refused' PROVE LedBy(w)'
    <3>1. PICK h : IsChain(h, hostBefore, <<>>) /\ taken[w] \subseteq h[0] /\ host = h[0] \ taken[w]
      BY <2>4, <1>5
    <3>2. host' = h[0]
      BY <2>4, <3>1, <1>7
    <3>3. added'[w] = <<>> /\ Len(<<>>) = 0
      BY <1>1, <1>7
    <3> QED
      BY <3>1, <3>2, <3>3, <1>2, <1>3 DEF LedBy
  <2>5. HostInv'
    BY <2>2, <2>4, HostUsed
  <2> QED
    BY <1>4, <2>3, <2>5
<1>8. \/ /\ want \notin host /\ host' = host \cup {want} /\ Placed(w)
         /\ added' = [added EXCEPT ![w] = Append(@, ch)]
      \/ GiveUp(w) /\ UNCHANGED added /\ (host' = host \cup taken[w] \/ refused')
  BY DEF PlaceAdd
<1> QED
  BY <1>6, <1>7, <1>8

\* undo's Remove of what was added last.
LEMMA RemoveStep ==
    ASSUME LeaseInv, OneUser', NEW w \in Workers, UndoRemove(w)
    PROVE  RecordInv' /\ RouteInv' /\ HostInv'
<1> DEFINE s == added[w]
           ch == s[Len(s)]
<1>0. pc[w] = "undo" /\ Placing(w) /\ (w \in Callers <=> w \notin Runs)
  BY PlacerPlaces, ConstantsOK DEF UndoRemove, PlacePCs, Workers
<1>1. taken[w] = {} /\ (w \in Runs => ~routed[w])
  <2>1. FitsRecord(w)
    BY FitsNow
  <2> QED
    BY <2>1, <1>0 DEF FitsRecord, TakenPCs, RoutedPCs
<1>2. /\ UNCHANGED <<routed, route, hostBefore, routeBefore>>
      /\ ~refused' => ~refused
  BY DEF UndoRemove, baseVars, LeaseInv, TypeInv, TypeOK, HostTypes
<1>3. CASE s = <<>>
  <2>1. /\ Goto(w, IF w \in Runs THEN "finish" ELSE "pingEnd")
        /\ UNCHANGED <<host, refused, added, taken>>
    BY <1>3 DEF UndoRemove
  <2>2. PICK l \in {"finish", "pingEnd"} : Goto(w, l) /\ (l = "finish" <=> w \in Runs)
    BY <2>1
  <2>3. Quiet
    BY <2>1, <1>2 DEF Quiet
  <2> QED
    BY <1>0, <1>1, <1>3, <2>2, <2>3, PlacerGoesOn
<1>4. CASE s # <<>>
  <2>1. /\ host' = host \ {ch.addr} \/ refused'
        /\ added' = [added EXCEPT ![w] = SubSeq(@, 1, Len(@) - 1)]
        /\ taken' = [taken EXCEPT ![w] = ch.replaced]
        /\ Goto(w, IF ch.replaced = {} THEN "undo" ELSE "putBack")
    BY <1>4 DEF UndoRemove
  <2>2. PICK l \in {"undo", "putBack"} : Goto(w, l) /\ (l = "undo" <=> ch.replaced = {})
    BY <2>1
  <2>3. Placing(w)' /\ pc'[w] = l /\ \A v \in Workers \ {w} : pc'[v] = pc[v]
    BY <2>2, PlacesOn DEF PlacePCs
  <2>4. /\ added'[w] = SubSeq(s, 1, Len(s) - 1) /\ taken'[w] = ch.replaced
        /\ \A v \in Workers \ {w} : added'[v] = added[v] /\ taken'[v] = taken[v]
    BY <2>1 DEF LeaseInv, TypeInv, TypeOK, WorkTypes
  <2>5. RecordInv'
    <3>1. FitsRecord(w)'
      BY <1>0, <1>1, <1>2, <2>2, <2>3, <2>4 DEF FitsRecord, PlacePCs, ChangedPCs, TakenPCs
    <3> QED
      BY <3>1, <1>2, <2>3, <2>4, RecordsMove
  <2>6. RouteInv'
    BY <1>2 DEF LeaseInv, RouteInv
  <2>7. ASSUME ~refused' PROVE LedBy(w)'
    <3>1. LedBy(w)
      BY <2>7, <1>0, <1>2 DEF LeaseInv, HostInv
    <3>2. PICK h : IsChain(h, hostBefore, s) /\ host = h[Len(s)]
      BY <3>1, <1>1 DEF LedBy
    <3>3. s \in Seq(Change) /\ hostBefore \in SUBSET Entry
      BY DEF LeaseInv, TypeInv, TypeOK, WorkTypes, HostTypes
    <3> HIDE DEF s
    <3>4. /\ \E k : IsChain(k, hostBefore, SubSeq(s, 1, Len(s) - 1)) /\ k[Len(s) - 1] = h[Len(s) - 1]
          /\ Len(SubSeq(s, 1, Len(s) - 1)) = Len(s) - 1
          /\ s[Len(s)].replaced \subseteq h[Len(s) - 1]
          /\ h[Len(s)] \ {s[Len(s)].addr} = h[Len(s) - 1] \ s[Len(s)].replaced
      BY <1>4, <3>2, <3>3, ChainShrinks
    <3>5. PICK k : IsChain(k, hostBefore, SubSeq(s, 1, Len(s) - 1)) /\ k[Len(s) - 1] = h[Len(s) - 1]
      BY <3>4
    <3>6. host' = k[Len(s) - 1] \ ch.replaced /\ ch.replaced \subseteq k[Len(s) - 1]
      BY <2>1, <2>7, <3>2, <3>4, <3>5
    <3>7. hostBefore' = hostBefore
      BY <1>2
    <3> QED
      BY <3>4, <3>5, <3>6, <3>7, <2>4 DEF LedBy
  <2>8. HostInv'
    BY <2>3, <2>7, HostUsed
  <2> QED
    BY <2>5, <2>6, <2>8
<1> QED
  BY <1>3, <1>4

\* undo's Add of the entry that was there before.
LEMMA PutBackStep ==
    ASSUME LeaseInv, OneUser', NEW w \in Workers, UndoPutBack(w)
    PROVE  RecordInv' /\ RouteInv' /\ HostInv'
<1>0. pc[w] = "putBack" /\ Placing(w) /\ (w \in Callers <=> w \notin Runs)
  BY PlacerPlaces, ConstantsOK DEF UndoPutBack, PlacePCs, Workers
<1>1. w \in Runs => ~routed[w]
  <2>1. FitsRecord(w)
    BY FitsNow
  <2> QED
    BY <2>1, <1>0 DEF FitsRecord, RoutedPCs
<1>2. /\ UNCHANGED <<added, routed, route, hostBefore, routeBefore>>
      /\ host' = host \cup taken[w] \/ refused'
      /\ taken' = [taken EXCEPT ![w] = {}] /\ Goto(w, "undo")
      /\ ~refused' => ~refused
  BY DEF UndoPutBack, baseVars, LeaseInv, TypeInv, TypeOK, HostTypes
<1>3. Placing(w)' /\ pc'[w] = "undo" /\ \A v \in Workers \ {w} : pc'[v] = pc[v]
  BY <1>2, PlacesOn DEF PlacePCs
<1>4. taken'[w] = {} /\ \A v \in Workers \ {w} : taken'[v] = taken[v]
  BY <1>2 DEF LeaseInv, TypeInv, TypeOK, WorkTypes
<1>5. RecordInv'
  <2>1. FitsRecord(w)'
    BY <1>0, <1>1, <1>2, <1>3, <1>4 DEF FitsRecord, PlacePCs, ChangedPCs
  <2> QED
    BY <2>1, <1>2, <1>3, <1>4, RecordsMove
<1>6. RouteInv'
  BY <1>2 DEF LeaseInv, RouteInv
<1>7. ASSUME ~refused' PROVE LedBy(w)'
  <2>1. LedBy(w)
    BY <1>7, <1>0, <1>2 DEF LeaseInv, HostInv
  <2>2. PICK h : /\ IsChain(h, hostBefore, added[w])
                 /\ taken[w] \subseteq h[Len(added[w])]
                 /\ host = h[Len(added[w])] \ taken[w]
    BY <2>1 DEF LedBy
  <2>3. host' = h[Len(added[w])]
    BY <1>2, <1>7, <2>2
  <2> QED
    BY <2>2, <2>3, <1>2, <1>4 DEF LedBy
<1>8. HostInv'
  BY <1>3, <1>7, HostUsed
<1> QED
  BY <1>5, <1>6, <1>8

\* configureIPs' loop over the plan.
LEMMA AddGnbStep ==
    ASSUME LeaseInv, OneUser', NEW r \in Runs, AddGnbAddr(r)
    PROVE  RecordInv' /\ RouteInv' /\ HostInv'
<1> DEFINE e == Head(job[r].plan)
           ch == [addr |-> e, replaced |-> {}]
           s == added[r]
<1>0. pc[r] = "addrs" /\ Placing(r) /\ r \in Workers /\ r \notin Callers
  BY ConstantsOK DEF AddGnbAddr, Placing, PlacingRun, Workers
<1>1. taken[r] = {} /\ ~routed[r]
  <2>1. FitsRecord(r)
    BY <1>0, FitsNow
  <2> QED
    BY <2>1, <1>0 DEF FitsRecord, TakenPCs, RoutedPCs
<1>2. UNCHANGED <<taken, routed, route, refused, hostBefore, routeBefore>>
  BY DEF AddGnbAddr, baseVars
<1>3. CASE UNCHANGED <<host, added>> /\ \E l \in {"engine", "unroute"} : Goto(r, l)
  <2>1. PICK l \in {"engine", "unroute"} : Goto(r, l)
    BY <1>3
  <2>2. RunGoes(r, l)
    BY <1>0, <2>1 DEF RunGoes, RunPCs, PlacePCs, ChangedPCs, TakenPCs, RoutedPCs, PlacingRunPCs
  <2>3. Quiet
    BY <1>2, <1>3 DEF Quiet
  <2> QED
    BY <2>2, <2>3, RunStep
<1>4. CASE /\ e \notin host /\ host' = host \cup {e} /\ UNCHANGED pc
           /\ added' = [added EXCEPT ![r] = Append(@, ch)]
  <2>1. Placing(r)' /\ pc'[r] = "addrs"
    BY <1>0, <1>4 DEF Placing, PlacingRun, PingingCaller
  <2>2. added'[r] = Append(s, ch) /\ \A v \in Workers \ {r} : added'[v] = added[v]
    BY <1>0, <1>4 DEF LeaseInv, TypeInv, TypeOK, WorkTypes
  <2>3. RecordInv'
    <3>1. FitsRecord(r)'
      BY <1>0, <1>1, <1>2, <2>1 DEF FitsRecord, RunPCs, ChangedPCs
    <3> QED
      BY <3>1, <1>0, <1>2, <1>4, <2>2, RecordsMove
  <2>4. RouteInv'
    BY <1>2 DEF LeaseInv, RouteInv
  <2>5. ASSUME ~refused' PROVE LedBy(r)'
    <3>1. LedBy(r)
      BY <2>5, <1>0, <1>2 DEF LeaseInv, HostInv
    <3>2. PICK h : IsChain(h, hostBefore, s) /\ host = h[Len(s)]
      BY <3>1, <1>1 DEF LedBy
    <3>3. s \in Seq(Change) /\ hostBefore \in SUBSET Entry /\ job[r] \in Job
      BY <1>0 DEF LeaseInv, TypeInv, TypeOK, WorkTypes, HostTypes
    <3>4. ch \in Change /\ ch.addr = e /\ ch.replaced = {}
      <4>1. job[r].plan \in Seq(Entry) /\ job[r].plan # <<>>
        BY <3>3, JobFields DEF AddGnbAddr
      <4>2. e \in Entry
        BY <4>1, HeadTailOfSeq
      <4> QED
        BY <4>2, ChangeFields
    <3> HIDE DEF s, ch, e
    <3>5. PICK k : /\ IsChain(k, hostBefore, Append(s, ch))
                   /\ k[Len(s) + 1] = (h[Len(s)] \ ch.replaced) \cup {ch.addr}
      <4>1. ch.replaced \subseteq h[Len(s)] /\ ch.addr \notin h[Len(s)] \ ch.replaced
        BY <3>2, <3>4, <1>4
      <4> QED
        BY <3>2, <3>3, <3>4, <4>1, ChainGrows
    <3>6. Len(Append(s, ch)) = Len(s) + 1
      BY <3>3
    <3>7. host' = k[Len(s) + 1]
      BY <3>2, <3>4, <3>5, <1>4
    <3>8. hostBefore' = hostBefore /\ taken'[r] = {}
      BY <1>1, <1>2
    <3> QED
      BY <2>2, <3>5, <3>6, <3>7, <3>8 DEF LedBy
  <2>6. HostInv'
    BY <1>0, <2>1, <2>5, HostUsed
  <2> QED
    BY <2>3, <2>4, <2>6
<1>5. \/ UNCHANGED <<host, added>> /\ \E l \in {"engine", "unroute"} : Goto(r, l)
      \/ /\ e \notin host /\ host' = host \cup {e} /\ UNCHANGED pc
         /\ added' = [added EXCEPT ![r] = Append(@, ch)]
  BY DEF AddGnbAddr, GiveUp
<1> QED
  BY <1>3, <1>4, <1>5

-----------------------------------------------------------------------------
\* A step of a run that leaves the addresses alone, whatever it does to the route.
LEMMA AddressesAlone ==
    ASSUME LeaseInv, NEW r \in Runs, NEW l \in RunPCs \cup PlacePCs, Goto(r, l),
           UNCHANGED <<host, hostBefore, added, taken>>, ~refused' => ~refused,
           l \in PlacingRunPCs, Placing(r),
           added[r] # <<>> => l \in ChangedPCs, taken[r] = {},
           routed'[r] => l \in RoutedPCs, \A q \in Runs \ {r} : routed'[q] = routed[q],
           OneUser'
    PROVE  RecordInv' /\ HostInv'
<1>0. r \in Workers /\ r \notin Callers
  BY ConstantsOK DEF Workers
<1>1. Placing(r)' /\ pc'[r] = l /\ \A v \in Workers \ {r} : pc'[v] = pc[v]
  BY <1>0, PlacesOn
<1>2. FitsRecord(r)'
  BY <1>0, <1>1 DEF FitsRecord
<1>3. RecordInv'
  BY <1>0, <1>1, <1>2, RecordsMove
<1>4. ASSUME ~refused' PROVE LedBy(r)'
  <2>1. LedBy(r)
    BY <1>4, <1>0 DEF LeaseInv, HostInv
  <2> QED
    BY <2>1 DEF LedBy
<1>5. HostInv'
  BY <1>0, <1>1, <1>4, HostUsed
<1> QED
  BY <1>3, <1>5

\* EnsureRoute records a route only when there was none.
LEMMA EnsureRouteStep ==
    ASSUME LeaseInv, OneUser', NEW r \in Runs, EnsureRoute(r)
    PROVE  RecordInv' /\ RouteInv' /\ HostInv'
<1>0. pc[r] = "addrs" /\ Placing(r) /\ r \in Workers
  BY DEF EnsureRoute, Placing, PlacingRun, Workers
<1>1. taken[r] = {} /\ ~routed[r]
  <2>1. FitsRecord(r)
    BY <1>0, FitsNow
  <2> QED
    BY <2>1, <1>0 DEF FitsRecord, TakenPCs, RoutedPCs
<1>2. UNCHANGED <<host, hostBefore, routeBefore, added, taken, refused>>
  BY DEF EnsureRoute, baseVars
<1>3. CASE route' = TRUE /\ routed' = [routed EXCEPT ![r] = ~route] /\ Goto(r, "engine")
  <2>1. routed'[r] = ~route /\ \A q \in Runs \ {r} : routed'[q] = routed[q]
    BY <1>3 DEF LeaseInv, TypeInv, TypeOK, WorkTypes
  <2>2. RecordInv' /\ HostInv'
    <3>1. "engine" \in RunPCs \cup PlacePCs /\ "engine" \in PlacingRunPCs
          /\ "engine" \in ChangedPCs /\ "engine" \in RoutedPCs
      BY DEF RunPCs, PlacingRunPCs, ChangedPCs, RoutedPCs
    <3> QED
      BY <3>1, <1>0, <1>1, <1>2, <1>3, <2>1, AddressesAlone
  <2>3. RouteInv'
    <3> SUFFICES ASSUME ~refused'
                 PROVE  /\ \A q \in Runs : routed'[q] => route' /\ ~routeBefore'
                        /\ (\A q \in Runs : ~routed'[q]) => route' = routeBefore'
      BY DEF RouteInv
    <3>1. /\ \A q \in Runs : routed[q] => route /\ ~routeBefore
          /\ (\A q \in Runs : ~routed[q]) => route = routeBefore
      BY <1>2 DEF LeaseInv, RouteInv
    <3>2. route \in BOOLEAN /\ routeBefore \in BOOLEAN /\ route' = TRUE /\ routeBefore' = routeBefore
      BY <1>2, <1>3 DEF LeaseInv, TypeInv, TypeOK, HostTypes
    <3>3. CASE route
      BY <3>1, <3>2, <3>3, <2>1, <1>1
    <3>4. CASE ~route
      <4>1. \A q \in Runs : ~routed[q]
        BY <3>1, <3>4
      <4>2. routeBefore = FALSE
        BY <3>1, <3>2, <3>4, <4>1
      <4> QED
        BY <2>1, <3>2, <3>4, <4>1, <4>2
    <3> QED
      BY <3>3, <3>4
  <2> QED
    BY <2>2, <2>3
<1>4. CASE Goto(r, "unroute") /\ UNCHANGED <<route, routed>>
  <2>1. RunGoes(r, "unroute")
    BY <1>0, <1>4 DEF RunGoes, RunPCs, PlacePCs, ChangedPCs, TakenPCs, RoutedPCs, PlacingRunPCs
  <2>2. Quiet
    BY <1>2, <1>4 DEF Quiet
  <2> QED
    BY <2>1, <2>2, RunStep
<1>5. \/ route' = TRUE /\ routed' = [routed EXCEPT ![r] = ~route] /\ Goto(r, "engine")
      \/ Goto(r, "unroute") /\ UNCHANGED <<route, routed>>
  BY DEF EnsureRoute, GiveUp
<1> QED
  BY <1>3, <1>4, <1>5

\* removeIPs takes back the route on record, and that only.
LEMMA RemoveRouteStep ==
    ASSUME LeaseInv, OneUser', NEW r \in Runs, RemoveRoute(r)
    PROVE  RecordInv' /\ RouteInv' /\ HostInv'
<1>0. pc[r] = "unroute" /\ Placing(r) /\ r \in Workers
  BY DEF RemoveRoute, Placing, PlacingRun, Workers
<1>1. taken[r] = {}
  <2>1. FitsRecord(r)
    BY <1>0, FitsNow
  <2> QED
    BY <2>1, <1>0 DEF FitsRecord, TakenPCs
<1>2. /\ UNCHANGED <<host, hostBefore, routeBefore, added, taken>>
      /\ routed' = [routed EXCEPT ![r] = FALSE] /\ Goto(r, "undo")
      /\ \/ route' = (route /\ ~routed[r]) /\ UNCHANGED refused
         \/ refused'
      /\ ~refused' => ~refused
  BY DEF RemoveRoute, baseVars, LeaseInv, TypeInv, TypeOK, HostTypes
<1>3. ~routed'[r] /\ \A q \in Runs \ {r} : routed'[q] = routed[q]
  BY <1>2 DEF LeaseInv, TypeInv, TypeOK, WorkTypes
<1>4. RecordInv' /\ HostInv'
  <2>1. "undo" \in RunPCs \cup PlacePCs /\ "undo" \in PlacingRunPCs /\ "undo" \in ChangedPCs
    BY DEF PlacePCs, PlacingRunPCs, ChangedPCs
  <2> QED
    BY <2>1, <1>0, <1>1, <1>2, <1>3, AddressesAlone
<1>5. \A q \in Runs \ {r} : ~routed[q]
  <2>1. \A q \in Runs : routed[q] => Placing(q) /\ q \in Workers
    BY DEF LeaseInv, RecordInv, RoutedPCs, Placing, PlacingRun, Workers
  <2> QED
    BY <2>1, <1>0, OnePlaces DEF LeaseInv
<1>6. RouteInv'
  <2> SUFFICES ASSUME ~refused' PROVE route' = routeBefore'
    BY <1>3, <1>5 DEF RouteInv
  <2>1. /\ routed[r] => route /\ ~routeBefore
        /\ ~routed[r] => route = routeBefore
    BY <1>2, <1>5 DEF LeaseInv, RouteInv
  <2>2. route \in BOOLEAN /\ routeBefore \in BOOLEAN
    BY DEF LeaseInv, TypeInv, TypeOK, HostTypes
  <2> QED
    BY <2>1, <2>2, <1>2
<1> QED
  BY <1>4, <1>6

-----------------------------------------------------------------------------
\* The host is as it was found at first, and nobody has changed it.
LEMMA InitLeaseInv == Init => LeaseInv
<1> SUFFICES ASSUME Init PROVE LeaseInv
  OBVIOUS
<1>1. TypeInv
  BY InitTypeInv
<1>2. \A w \in Workers : ~Placing(w)
  BY ConstantsOK DEF Init, Placing, PlacingRun, PingingCaller, PlacePCs, Workers
<1>3. OneUser
  BY <1>2 DEF Init, OneUser, Placing, Workers, RunActive
<1>4. RecordInv
  BY ConstantsOK DEF Init, RecordInv, Workers, CallerPCs, RunPCs
<1>5. RouteInv
  BY DEF Init, RouteInv
<1>6. HostInv
  BY <1>2 DEF Init, HostInv
<1> QED
  BY <1>1, <1>3, <1>4, <1>5, <1>6 DEF LeaseInv

LEMMA StepLeaseInv == LeaseInv /\ [Next]_vars => LeaseInv'
<1> SUFFICES ASSUME LeaseInv, [Next]_vars PROVE LeaseInv'
  OBVIOUS
<1>1. TypeInv' /\ OneUser'
  BY StepTypeInv, StepOneUser DEF LeaseInv
<1>2. ASSUME NEW w \in Workers, Place(w) PROVE RecordInv' /\ RouteInv' /\ HostInv'
  BY <1>1, <1>2, TakeStep, AddStep, RemoveStep, PutBackStep DEF Place
<1>3. ASSUME NEW c \in Callers, Request(c) \/ Handle(c) PROVE RecordInv' /\ RouteInv' /\ HostInv'
  <2>1. c \in Workers
    BY DEF Workers
  <2>2. CASE PingEnd(c)
    <3>1. Quiet /\ pc[c] = "pingEnd" /\ Goto(c, "idle")
      BY <2>2 DEF PingEnd, Quiet, hostVars, baseVars
    <3> QED
      BY <3>1, <2>1, GivesBack
  <2> QED
    BY <1>2, <1>3, <2>1, <2>2, HandlerSteps, CommitStep, PingBegins DEF Request, Handle
<1>4. ASSUME NEW r \in Runs, Execute(r) PROVE RecordInv' /\ RouteInv' /\ HostInv'
  <2>1. r \in Workers
    BY DEF Workers
  <2>2. CASE Finish(r)
    <3>1. Quiet /\ pc[r] = "finish" /\ Goto(r, "unpin")
      BY <2>2 DEF Finish, Quiet, hostVars, baseVars, workVars
    <3> QED
      BY <3>1, <2>1, GivesBack
  <2> QED
    BY <1>1, <1>2, <1>4, <2>1, <2>2, ExecuteSteps, AddGnbStep, EnsureRouteStep, RemoveRouteStep DEF Execute
<1>5. RecordInv' /\ RouteInv' /\ HostInv'
  BY <1>3, <1>4, OtherSteps DEF Next
<1> QED
  BY <1>1, <1>5 DEF LeaseInv

\* While nobody has the host it is as it was found; while somebody has it, what is
\* missing of it is on record.
LEMMA LeaseInvKeepsHost == LeaseInv => HostKept
<1> SUFFICES ASSUME LeaseInv PROVE HostKept
  OBVIOUS
<1> USE DEF LeaseInv
<1>1. HostRestored
  <2> SUFFICES ASSUME ~RunActive, ~pinging, ~refused PROVE host = hostBefore /\ route = routeBefore
    BY DEF HostRestored
  <2>1. \A w \in Workers : ~Placing(w)
    BY DEF OneUser, Placing
  <2>2. \A r \in Runs : ~routed[r]
    BY <2>1 DEF RecordInv, RoutedPCs, Placing, PlacingRun, Workers
  <2> QED
    BY <2>1, <2>2 DEF HostInv, RouteInv
<1>2. NoEntryForgotten
  <2> SUFFICES ASSUME ~refused, NEW e \in hostBefore \ host
               PROVE  \E w \in Workers :
                          \/ e \in taken[w]
                          \/ \E i \in DOMAIN added[w] : e \in added[w][i].replaced
    BY DEF NoEntryForgotten
  <2>1. PICK w \in Workers : LedBy(w)
    BY DEF HostInv
  <2>2. PICK h : IsChain(h, hostBefore, added[w]) /\ host = h[Len(added[w])] \ taken[w]
    BY <2>1 DEF LedBy
  <2>3. added[w] \in Seq(Change) /\ Len(added[w]) \in Nat /\ DOMAIN added[w] = 1 .. Len(added[w])
    BY DEF TypeInv, TypeOK, WorkTypes
  <2>4. CASE e \notin h[Len(added[w])]
    <3>1. Len(added[w]) \in 0 .. Len(added[w])
      BY <2>3
    <3> QED
      BY <2>2, <2>3, <2>4, <3>1 DEF IsChain
  <2> QED
    BY <2>2, <2>4
<1> QED
  BY <1>1, <1>2 DEF HostKept

\* The tester gives the host back as it found it: whichever requests come, however the
\* steps of runs and ping tests interleave and wherever a run is stopped or fails, with no
\* run active and no ping test every address and route is as it was before, and until then
\* every address of the host's own that is off it is on record for putting back.
THEOREM HostKeptAlways == Spec => []HostKept
<1>1. Init => LeaseInv
  BY InitLeaseInv
<1>2. LeaseInv /\ [Next]_vars => LeaseInv'
  BY StepLeaseInv
<1>3. LeaseInv => HostKept
  BY LeaseInvKeepsHost
<1> QED
  BY <1>1, <1>2, <1>3, PTL DEF Spec

-----------------------------------------------------------------------------
\* The lease's holder changes only with the last run's number or state, or with a ping test.
LEMMA OwnerKept ==
    ASSUME TypeInv, UNCHANGED <<current, pinging>>,
           \A r \in Runs : st'[r] \in ActiveStates <=> st[r] \in ActiveStates
    PROVE  Owner' = Owner
<1>1. current = NoRun \/ current \in Runs
  BY DEF TypeInv, TypeOK, CtlTypes
<1>2. RunActive' <=> RunActive
  BY <1>1 DEF RunActive
<1> QED
  BY <1>2 DEF Owner

\* A worker that places holds the lease.
LEMMA PlacerOwns ==
    ASSUME OneUser, NEW w \in Workers, Placing(w)
    PROVE  Owner # <<"free", 0>>
BY DEF OneUser, Placing, Owner, Workers

\* A holder's step that changes the host is a use of the lease.
LEMMA HolderUses ==
    ASSUME LeaseInv, TypeInv', NEW w \in Workers, Placing(w), Owner' = Owner, UNCHANGED baseVars,
           refused => refused'
    PROVE  Lease!Next
<1>1. Owner # <<"free", 0>>
  BY PlacerOwns DEF LeaseInv
<1>2. <<host, route>>' \in (SUBSET Entry) \X BOOLEAN /\ refused' \in BOOLEAN
  BY DEF TypeInv, TypeOK, HostTypes
<1>3. Lease!Use
  BY <1>1, <1>2 DEF Lease!Use, baseVars
<1> QED
  BY <1>3 DEF Lease!Next

\* A step that touches neither the host nor the holder does not show.
LEMMA LeaseUnseen ==
    ASSUME Owner' = Owner, UNCHANGED <<host, route, refused, hostBefore, routeBefore>>
    PROVE  UNCHANGED Lease!vars
BY DEF Lease!vars

\* The host goes from nobody to a run, or to a ping test.
LEMMA HostAcquired ==
    ASSUME LeaseInv, \/ \E c \in Callers : StartCommit(c) /\ ~(Busy \/ current + 1 > MaxRuns)
                     \/ \E c \in Callers : PingRequest(c)
    PROVE  Lease!Next
<1>0. ~Busy /\ Owner = <<"free", 0>>
  BY DEF PingRequest, Busy, Owner
<1>1. CASE \E c \in Callers : PingRequest(c)
  <2>1. Owner' = <<"ping", 0>> /\ UNCHANGED <<host, route, refused, hostBefore, routeBefore>>
    BY <1>1 DEF PingRequest, Owner, hostVars, baseVars
  <2>2. Lease!Acquire(<<"ping", 0>>)
    BY <1>0, <2>1 DEF Lease!Acquire
  <2> QED
    BY <2>2 DEF Lease!Next
<1>2. CASE \E c \in Callers : StartCommit(c) /\ ~(Busy \/ current + 1 > MaxRuns)
  <2> DEFINE r == current + 1
  <2>1. current \in {NoRun} \cup Runs /\ st \in [Runs -> RunStates]
    BY DEF LeaseInv, TypeInv, TypeOK, CtlTypes, RunTypes
  <2>2. r \in Runs /\ r # NoRun
    <3>1. r \in Runs
      BY <1>2, <2>1, NextRun
    <3> QED
      BY <3>1, <2>1, NextRun DEF NoRun, Runs
  <2>3. /\ current' = r /\ st' = [st EXCEPT ![r] = "configuring"] /\ UNCHANGED pinging
        /\ UNCHANGED <<host, route, refused, hostBefore, routeBefore>>
    BY <1>2 DEF StartCommit, hostVars, baseVars
  <2> HIDE DEF r
  <2>4. st'[r] \in ActiveStates
    BY <2>1, <2>2, <2>3 DEF ActiveStates
  <2>5. Owner' = <<"run", r>>
    BY <1>0, <2>2, <2>3, <2>4 DEF Owner, RunActive, Busy
  <2>6. Lease!Acquire(<<"run", r>>)
    BY <1>0, <2>3, <2>5 DEF Lease!Acquire
  <2> QED
    BY <2>2, <2>6 DEF Lease!Next
<1> QED
  BY <1>1, <1>2

\* Who gives the host back gives it back as it was found.
LEMMA HostReleased ==
    ASSUME LeaseInv, NEW w \in Workers,
           \/ w \in Callers /\ PingEnd(w)
           \/ w \in Runs /\ Finish(w)
    PROVE  Lease!Next
<1>1. UNCHANGED <<host, route, refused, hostBefore, routeBefore>> /\ pc[w] \in {"pingEnd", "finish"}
  BY DEF PingEnd, Finish, hostVars, baseVars
<1>2. Placing(w)
  BY DEF PingEnd, Finish, Placing, PlacingRun, PingingCaller
<1>3. Owner # <<"free", 0>>
  BY <1>2, PlacerOwns DEF LeaseInv
<1>4. added[w] = <<>> /\ taken[w] = {} /\ (w \in Runs => ~routed[w])
  <2>1. FitsRecord(w)
    BY FitsNow
  <2> QED
    BY <2>1, <1>1 DEF FitsRecord, ChangedPCs, TakenPCs, RoutedPCs
<1>5. <<host, route>> = <<hostBefore, routeBefore>> \/ refused
  <2> SUFFICES ASSUME ~refused PROVE host = hostBefore /\ route = routeBefore
    OBVIOUS
  <2>1. LedBy(w)
    BY <1>2 DEF LeaseInv, HostInv
  <2>2. host = hostBefore
    BY <1>4, <2>1, LedByNoneOnly
  <2>3. \A q \in Runs : ~routed[q]
    <3>1. \A q \in Runs : routed[q] => Placing(q) /\ q \in Workers
      BY DEF LeaseInv, RecordInv, RoutedPCs, Placing, PlacingRun, Workers
    <3> QED
      BY <1>2, <1>4, <3>1, OnePlaces DEF LeaseInv
  <2> QED
    BY <2>2, <2>3 DEF LeaseInv, RouteInv
<1>6. Owner' = <<"free", 0>>
  <2>1. CASE w \in Callers /\ PingEnd(w)
    <3>1. pinging /\ ~RunActive
      BY <2>1 DEF PingEnd, LeaseInv, OneUser, PingingCaller
    <3>2. ~pinging' /\ UNCHANGED <<current, st>>
      BY <2>1 DEF PingEnd, runVars
    <3> QED
      BY <3>1, <3>2 DEF Owner, RunActive
  <2>2. CASE w \in Runs /\ Finish(w)
    <3>1. w = current /\ RunActive /\ ~pinging
      BY <2>2 DEF Finish, LeaseInv, OneUser, PlacingRun
    <3>2. UNCHANGED <<current, pinging>> /\ st'[w] \in {"failed", "stopped"}
      BY <2>2 DEF Finish, ctlVars, LeaseInv, TypeInv, TypeOK, RunTypes
    <3> QED
      BY <3>1, <3>2 DEF Owner, RunActive, ActiveStates
  <2> QED
    BY <2>1, <2>2
<1>7. Lease!Release
  BY <1>1, <1>3, <1>5, <1>6 DEF Lease!Release
<1> QED
  BY <1>7 DEF Lease!Next

\* Every other step of placeAddr, undo, configureIPs and removeIPs is the holder's.
LEMMA HostInUse ==
    ASSUME LeaseInv, TypeInv', NEW w \in Workers,
           Place(w) \/ (w \in Runs /\ (AddGnbAddr(w) \/ EnsureRoute(w) \/ RemoveRoute(w)))
    PROVE  Lease!Next
<1>1. Placing(w)
  BY DEF Place, PlaceTake, PlaceAdd, UndoRemove, UndoPutBack, AddGnbAddr, EnsureRoute, RemoveRoute,
         Placing, PlacingRun, PingingCaller, PlacePCs, Workers
<1>2. UNCHANGED <<current, pinging, st>> /\ UNCHANGED baseVars /\ (refused => refused')
  BY DEF Place, PlaceTake, PlaceAdd, UndoRemove, UndoPutBack, AddGnbAddr, EnsureRoute, RemoveRoute,
         ctlVars, runVars
<1>3. Owner' = Owner
  BY <1>2, OwnerKept DEF LeaseInv
<1> QED
  BY <1>1, <1>2, <1>3, HolderUses

\* The others leave the host alone, and whoever has it.
LEMMA HostLeftAlone ==
    ASSUME LeaseInv,
           \/ \E c \in Callers :
                  \/ StartRequest(c) \/ StartCheck(c) \/ StartValidate(c) \/ StartAllocation(c)
                  \/ PingResolve(c) \/ PingReplies(c) \/ SetCpusRequest(c) \/ SetCpusSave(c)
                  \/ StartCommit(c) /\ (Busy \/ current + 1 > MaxRuns)
           \/ \E r \in Runs :
                  \/ Pin(r) \/ StartDataplane(r) \/ LaunchN2(r) \/ N2Returns(r) \/ Stopping(r)
                  \/ Cleanup(r) \/ Unpin(r) \/ Done(r) \/ StopRequest(r) \/ TimerFires(r)
           \/ BenchStart \/ BenchEnds \/ Signal \/ ShutdownReturns \/ Exit \/ UNCHANGED vars
    PROVE  UNCHANGED Lease!vars
<1>1. UNCHANGED <<host, route, refused, hostBefore, routeBefore>>
  BY DEF StartRequest, StartCheck, StartValidate, StartAllocation, StartCommit, PingResolve, PingReplies,
         SetCpusRequest, SetCpusSave, Pin, StartDataplane, LaunchN2, N2Returns, Stopping, Cleanup, Unpin, Done,
         StopRequest, TimerFires, BenchStart, BenchEnds, Signal, ShutdownReturns, Exit, vars, hostVars, baseVars
<1>2. UNCHANGED <<current, pinging>>
  BY DEF StartRequest, StartCheck, StartValidate, StartAllocation, StartCommit, PingResolve, PingReplies,
         SetCpusRequest, SetCpusSave, Pin, StartDataplane, LaunchN2, N2Returns, Stopping, Cleanup, Unpin, Done,
         StopRequest, TimerFires, BenchStart, BenchEnds, Signal, ShutdownReturns, Exit, vars, ctlVars
<1>3. \A q \in Runs : st'[q] \in ActiveStates <=> st[q] \in ActiveStates
  <2> SUFFICES ASSUME NEW q \in Runs PROVE st'[q] \in ActiveStates <=> st[q] \in ActiveStates
    OBVIOUS
  <2>1. st \in [Runs -> RunStates]
    BY DEF LeaseInv, TypeInv, TypeOK, RunTypes
  <2>2. CASE UNCHANGED st
    BY <2>2
  <2>3. ASSUME NEW r \in Runs, LaunchN2(r) \/ N2Returns(r) \/ Stopping(r)
        PROVE  st'[q] \in ActiveStates <=> st[q] \in ActiveStates
    <3>1. st[r] \in ActiveStates
      BY <2>3 DEF LeaseInv, OneUser, PlacingRun, RunActive, LaunchN2, N2Returns, Stopping
    <3>2. UNCHANGED st \/ \E s \in ActiveStates : st' = [st EXCEPT ![r] = s]
      BY <2>3 DEF LaunchN2, N2Returns, Stopping, ActiveStates
    <3> QED
      BY <2>1, <3>1, <3>2
  <2>4. UNCHANGED st \/ \E r \in Runs : LaunchN2(r) \/ N2Returns(r) \/ Stopping(r)
    BY DEF StartRequest, StartCheck, StartValidate, StartAllocation, StartCommit, PingResolve, PingReplies,
           SetCpusRequest, SetCpusSave, Pin, StartDataplane, Cleanup, Unpin, Done,
           StopRequest, TimerFires, BenchStart, BenchEnds, Signal, ShutdownReturns, Exit, vars, runVars
  <2> QED
    BY <2>2, <2>3, <2>4
<1>4. Owner' = Owner
  BY <1>2, <1>3, OwnerKept DEF LeaseInv
<1> QED
  BY <1>1, <1>4, LeaseUnseen

\* The tester leases the host's configuration (module HostLease): one holder at a time, a
\* run or a ping test, only the holder changes it, and it is given back as it was found
\* unless the kernel refused to take something back.
THEOREM HostIsLeased == Spec => ImplementsLease
<1>1. Init => Lease!Init
  <2> SUFFICES ASSUME Init PROVE Lease!Init
    OBVIOUS
  <2>1. Owner = <<"free", 0>>
    BY DEF Init, Owner, RunActive
  <2>2. <<host, route>> \in (SUBSET Entry) \X BOOLEAN
    BY DEF Init
  <2> QED
    BY <2>1, <2>2 DEF Init, Lease!Init
<1>2. LeaseInv /\ [Next]_vars => [Lease!Next]_(Lease!vars)
  <2> SUFFICES ASSUME LeaseInv, [Next]_vars PROVE Lease!Next \/ UNCHANGED Lease!vars
    OBVIOUS
  <2>1. TypeInv'
    BY StepTypeInv DEF LeaseInv
  <2>2. ASSUME NEW c \in Callers, Request(c) \/ Handle(c) PROVE Lease!Next \/ UNCHANGED Lease!vars
    <3>1. c \in Workers
      BY DEF Workers
    <3>2. CASE StartCommit(c)
      BY <3>2, HostAcquired, HostLeftAlone
    <3> QED
      BY <2>1, <2>2, <3>1, <3>2, HostAcquired, HostReleased, HostInUse, HostLeftAlone DEF Request, Handle
  <2>3. ASSUME NEW r \in Runs, Execute(r) PROVE Lease!Next \/ UNCHANGED Lease!vars
    <3>1. r \in Workers
      BY DEF Workers
    <3> QED
      BY <2>1, <2>3, <3>1, HostReleased, HostInUse, HostLeftAlone DEF Execute
  <2> QED
    BY <2>2, <2>3, HostLeftAlone DEF Next
<1> QED
  BY <1>1, <1>2, InitLeaseInv, StepLeaseInv, PTL DEF Spec, ImplementsLease, Lease!Spec

-----------------------------------------------------------------------------
\* Where a run's data plane may be open, and where its addresses are all on the host.
OpenPCs  == {"launch", "n2", "hold", "stop", "cleanup"}
AddrsPCs == {"addrs", "engine"} \cup OpenPCs

\* A run's data plane, and what it is bound to.  A stopping run skips what is left of the
\* plan, and then the data plane too.
Bound(r) ==
    /\ r \in engines => pc[r] \in OpenPCs
    /\ r \in engines \/ (pc[r] = "engine" /\ ~ctxDone[r]) => route /\ job[r].plan = <<>>
    /\ pc[r] \in AddrsPCs => \A i \in DOMAIN added[r] : added[r][i].addr \in host

EngineInv == \A r \in Runs : Bound(r)

\* A run that has addresses on the host is the one that changes it.
LEMMA BoundPlaces ==
    ASSUME NEW r \in Runs, pc[r] \in AddrsPCs
    PROVE  Placing(r) /\ r \in Workers
BY DEF AddrsPCs, OpenPCs, Placing, PlacingRun, Workers

\* Steps that leave the runs where they are, and the host as it is.
LEMMA RunsRest ==
    ASSUME EngineInv, \A r \in Runs : /\ pc'[r] = pc[r] /\ job'[r] = job[r] /\ added'[r] = added[r]
                                      /\ ctxDone[r] => ctxDone'[r],
           UNCHANGED <<engines, host, route>>
    PROVE  EngineInv'
BY DEF EngineInv, Bound

\* A step of the run that has the host: the other runs have nothing on it.
LEMMA HolderMoves ==
    ASSUME LeaseInv, EngineInv, NEW r \in Runs, Placing(r), Bound(r)',
           \A q \in Runs \ {r} : pc'[q] = pc[q] /\ (q \in engines' <=> q \in engines)
    PROVE  EngineInv'
<1> SUFFICES ASSUME NEW q \in Runs, q # r PROVE Bound(q)'
  BY DEF EngineInv
<1>1. pc[q] \notin AddrsPCs
  BY BoundPlaces, OnePlaces DEF LeaseInv, Workers
<1>2. q \notin engines
  BY <1>1 DEF EngineInv, Bound, AddrsPCs
<1> QED
  BY <1>1, <1>2 DEF Bound, AddrsPCs

\* A step after which no run has addresses on the host.
LEMMA NobodyBound ==
    ASSUME EngineInv, \A r \in Runs : pc'[r] \notin AddrsPCs, engines' \subseteq engines,
           \A r \in Runs : pc[r] \notin AddrsPCs
    PROVE  EngineInv'
BY DEF EngineInv, Bound, AddrsPCs

\* Handlers: a ping test changes the host only while no run has addresses on it.
LEMMA HandlersKeepBound ==
    ASSUME LeaseInv, EngineInv, NEW c \in Callers, Request(c) \/ Handle(c)
    PROVE  EngineInv'
<1>0. c \in Workers /\ c \notin Runs /\ \A r \in Runs : r \in Workers /\ r # c
  BY ConstantsOK DEF Workers
<1>1. CASE Place(c)
  <2>1. \A r \in Runs : pc[r] \notin AddrsPCs
    <3>1. Placing(c)
      BY <1>0, <1>1, PlacerPlaces DEF Place, PlaceTake, PlaceAdd, UndoRemove, UndoPutBack, PlacePCs
    <3> QED
      BY <3>1, <1>0, BoundPlaces, OnePlaces DEF LeaseInv
  <2>2. PICK l : Goto(c, l)
    BY <1>1 DEF Place, PlaceTake, PlaceAdd, UndoRemove, UndoPutBack, GiveUp, Placed
  <2>3. \A r \in Runs : pc'[r] = pc[r]
    BY <1>0, <2>2 DEF Goto, LeaseInv, TypeInv, TypeOK
  <2>4. UNCHANGED engines
    BY <1>1 DEF Place, PlaceTake, PlaceAdd, UndoRemove, UndoPutBack
  <2> QED
    BY <2>1, <2>3, <2>4, NobodyBound
<1>2. CASE StartCommit(c) /\ ~(Busy \/ current + 1 > MaxRuns)
  <2>1. \A r \in Runs : pc[r] \notin AddrsPCs
    BY <1>2, BoundPlaces DEF Busy, LeaseInv, OneUser, Placing
  <2>2. pc' = [pc EXCEPT ![c] = "idle", ![current + 1] = "pin"] /\ UNCHANGED engines
    BY <1>2 DEF StartCommit
  <2>3. \A r \in Runs : pc'[r] \in {pc[r], "pin"}
    BY <1>0, <2>2 DEF LeaseInv, TypeInv, TypeOK
  <2> QED
    BY <2>1, <2>2, <2>3, NobodyBound DEF AddrsPCs, OpenPCs
<1>3. CASE \/ StartRequest(c) \/ StartCheck(c) \/ StartValidate(c) \/ StartAllocation(c)
           \/ PingRequest(c) \/ PingResolve(c) \/ PingReplies(c) \/ PingEnd(c)
           \/ SetCpusRequest(c) \/ SetCpusSave(c)
           \/ StartCommit(c) /\ (Busy \/ current + 1 > MaxRuns)
  <2>1. \E l : Goto(c, l)
    BY <1>3 DEF StartRequest, StartCheck, StartValidate, StartAllocation, StartCommit, PingRequest, PingResolve,
                PingReplies, PingEnd, SetCpusRequest, SetCpusSave
  <2>2. \A r \in Runs : pc'[r] = pc[r]
    BY <1>0, <2>1 DEF Goto, LeaseInv, TypeInv, TypeOK
  <2>3. UNCHANGED <<ctxDone, added, engines, host, route>>
    BY <1>3 DEF StartRequest, StartCheck, StartValidate, StartAllocation, StartCommit, PingRequest, PingResolve,
                PingReplies, PingEnd, SetCpusRequest, SetCpusSave, runVars, workVars, hostVars
  <2>4. job' = job \/ \E j : job' = [job EXCEPT ![c] = j]
    BY <1>3 DEF StartRequest, StartCheck, StartValidate, StartAllocation, StartCommit, PingRequest, PingResolve,
                PingReplies, PingEnd, SetCpusRequest, SetCpusSave, workVars
  <2>5. \A r \in Runs : job'[r] = job[r]
    BY <1>0, <2>4 DEF LeaseInv, TypeInv, TypeOK, WorkTypes
  <2> QED
    BY <2>2, <2>3, <2>5, RunsRest
<1> QED
  BY <1>1, <1>2, <1>3 DEF Request, Handle

\* execute: the data plane opens once everything is in place and closes before removeIPs.
LEMMA ExecuteKeepsBound ==
    ASSUME LeaseInv, EngineInv, NEW r \in Runs, Execute(r)
    PROVE  EngineInv'
<1>0. r \in Workers /\ r \notin Callers
  BY ConstantsOK DEF Workers
<1>1. Bound(r)
  BY DEF EngineInv
<1>2. \A l : Goto(r, l) => pc'[r] = l /\ \A q \in Runs \ {r} : pc'[q] = pc[q]
  BY <1>0 DEF Goto, LeaseInv, TypeInv, TypeOK, Workers
<1>3. CASE Unpin(r) \/ Done(r)
  <2>1. pc[r] \notin AddrsPCs /\ \E l \in {"return", "done"} : Goto(r, l)
    BY <1>3 DEF Unpin, Done, AddrsPCs, OpenPCs
  <2>2. /\ UNCHANGED <<ctxDone, added, engines, host, route>>
        /\ \A q \in Runs \ {r} : job'[q] = job[q]
    BY <1>3 DEF Unpin, Done, runVars, workVars, hostVars, LeaseInv, TypeInv, TypeOK, WorkTypes, Workers
  <2>3. r \notin engines /\ pc'[r] \notin AddrsPCs
    BY <1>1, <1>2, <2>1 DEF Bound, AddrsPCs, OpenPCs
  <2>4. Bound(r)'
    BY <2>2, <2>3 DEF Bound, AddrsPCs
  <2>5. \A q \in Runs \ {r} : Bound(q)'
    BY <1>2, <2>1, <2>2 DEF EngineInv, Bound
  <2> QED
    BY <2>4, <2>5 DEF EngineInv
<1>4. CASE ~(Unpin(r) \/ Done(r))
  <2>1. Placing(r)
    BY <1>4 DEF Execute, Pin, Place, PlaceTake, PlaceAdd, UndoRemove, UndoPutBack, AddGnbAddr, EnsureRoute,
                StartDataplane, LaunchN2, N2Returns, Stopping, Cleanup, RemoveRoute, Finish,
                Placing, PlacingRun, PlacePCs
  <2>2. \A q \in Runs \ {r} : pc'[q] = pc[q] /\ (q \in engines' <=> q \in engines)
    <3>1. UNCHANGED pc \/ \E l : Goto(r, l)
      BY <1>4 DEF Execute, Pin, Place, PlaceTake, PlaceAdd, UndoRemove, UndoPutBack, AddGnbAddr, EnsureRoute,
                  StartDataplane, LaunchN2, N2Returns, Stopping, Cleanup, RemoveRoute, Finish, GiveUp, Placed
    <3>2. engines' = engines \/ engines' = engines \cup {r} \/ engines' = engines \ {r}
      BY <1>4 DEF Execute, Pin, Place, PlaceTake, PlaceAdd, UndoRemove, UndoPutBack, AddGnbAddr, EnsureRoute,
                  StartDataplane, LaunchN2, N2Returns, Stopping, Cleanup, RemoveRoute, Finish, workVars
    <3> QED
      BY <1>2, <3>1, <3>2
  <2>3. Bound(r)'
    <3>1. CASE Pin(r) \/ PlaceTake(r) \/ UndoRemove(r) \/ UndoPutBack(r) \/ RemoveRoute(r) \/ Finish(r)
      <4>1. pc[r] \notin OpenPCs /\ UNCHANGED engines
        BY <3>1 DEF Pin, PlaceTake, UndoRemove, UndoPutBack, RemoveRoute, Finish, OpenPCs, workVars
      <4>2. r \notin engines'
        BY <1>1, <4>1 DEF Bound
      <4>3. PICK l \in {"take", "add", "unroute", "undo", "putBack", "finish", "unpin", "addrs"} :
                Goto(r, l) /\ (l = "addrs" => PlaceTake(r))
        BY <3>1 DEF Pin, PlaceTake, UndoRemove, UndoPutBack, RemoveRoute, Finish, GiveUp, Placed
      <4>4. CASE l # "addrs"
        BY <1>2, <4>2, <4>3, <4>4 DEF Bound, AddrsPCs, OpenPCs
      <4>5. CASE l = "addrs"
        <5>1. added[r] = <<>> /\ UNCHANGED added
          <6>1. FitsRecord(r) /\ pc[r] = "take" /\ UNCHANGED added
            BY <1>0, <4>3, <4>5, FitsNow DEF PlaceTake
          <6> QED
            BY <6>1 DEF FitsRecord, ChangedPCs
        <5>2. DOMAIN added'[r] = {}
          BY <5>1
        <5> QED
          BY <1>2, <4>2, <4>3, <4>5, <5>2 DEF Bound, AddrsPCs, OpenPCs
      <4> QED
        BY <4>4, <4>5
    <3>2. CASE PlaceAdd(r)
      <4> DEFINE ch == [addr |-> job[r].sink, replaced |-> taken[r]]
      <4>1. r \notin engines' /\ added[r] = <<>>
        <5>1. FitsRecord(r) /\ pc[r] = "add" /\ UNCHANGED engines
          BY <1>0, <3>2, FitsNow DEF PlaceAdd
        <5> QED
          BY <5>1, <1>1 DEF FitsRecord, ChangedPCs, Bound, OpenPCs
      <4>2. CASE Goto(r, "unroute")
        BY <1>2, <4>1, <4>2 DEF Bound, AddrsPCs, OpenPCs
      <4>3. CASE Goto(r, "addrs") /\ added' = [added EXCEPT ![r] = Append(@, ch)] /\ host' = host \cup {job[r].sink}
        <5>1. added'[r] = Append(<<>>, ch)
          BY <1>0, <4>1, <4>3 DEF LeaseInv, TypeInv, TypeOK, WorkTypes
        <5>2. \A i \in DOMAIN added'[r] : added'[r][i] = ch
          BY <5>1
        <5>3. ch.addr \in host'
          BY <4>3
        <5> QED
          BY <1>2, <4>1, <4>3, <5>2, <5>3 DEF Bound, AddrsPCs, OpenPCs
      <4> QED
        BY <3>2, <4>2, <4>3 DEF PlaceAdd, GiveUp, Placed
    <3>3. CASE AddGnbAddr(r)
      <4> DEFINE e == Head(job[r].plan)
                 ch == [addr |-> e, replaced |-> {}]
      <4>1. pc[r] = "addrs" /\ UNCHANGED <<ctxDone, engines>> /\ r \notin engines'
        BY <3>3, <1>1 DEF AddGnbAddr, Bound, OpenPCs
      <4>2. CASE ctxDone[r] /\ Goto(r, "engine") /\ UNCHANGED <<host, added>>
        BY <1>1, <1>2, <4>1, <4>2 DEF Bound, AddrsPCs, OpenPCs
      <4>3. CASE Goto(r, "unroute")
        BY <1>2, <4>1, <4>3 DEF Bound, AddrsPCs, OpenPCs
      <4>4. CASE UNCHANGED pc /\ host' = host \cup {e} /\ added' = [added EXCEPT ![r] = Append(@, ch)]
        <5>1. added'[r] = Append(added[r], ch) /\ added[r] \in Seq(Change)
          BY <1>0, <4>4 DEF LeaseInv, TypeInv, TypeOK, WorkTypes
        <5>2. \A i \in DOMAIN added'[r] : (i \in DOMAIN added[r] /\ added'[r][i] = added[r][i]) \/ added'[r][i] = ch
          BY <5>1
        <5>3. \A i \in DOMAIN added'[r] : added'[r][i].addr \in host'
          <6>1. \A i \in DOMAIN added[r] : added[r][i].addr \in host
            BY <1>1, <4>1 DEF Bound, AddrsPCs
          <6>2. ch.addr = e
            OBVIOUS
          <6> QED
            BY <5>2, <6>1, <6>2, <4>4
        <5> QED
          BY <4>1, <4>4, <5>3 DEF Bound, OpenPCs
      <4> QED
        BY <3>3, <4>2, <4>3, <4>4 DEF AddGnbAddr, GiveUp
    <3>4. CASE EnsureRoute(r)
      <4>1. pc[r] = "addrs" /\ job[r].plan = <<>> /\ UNCHANGED <<job, host, added, engines>> /\ r \notin engines'
        BY <3>4, <1>1 DEF EnsureRoute, Bound, OpenPCs
      <4>2. CASE route' = TRUE /\ Goto(r, "engine")
        BY <1>1, <1>2, <4>1, <4>2 DEF Bound, AddrsPCs, OpenPCs
      <4>3. CASE Goto(r, "unroute")
        BY <1>2, <4>1, <4>3 DEF Bound, AddrsPCs, OpenPCs
      <4> QED
        BY <3>4, <4>2, <4>3 DEF EnsureRoute, GiveUp
    <3>5. CASE StartDataplane(r)
      <4>1. pc[r] = "engine" /\ UNCHANGED <<ctxDone, job, host, route, added>> /\ r \notin engines
        BY <3>5, <1>1 DEF StartDataplane, Bound, OpenPCs, hostVars
      <4>2. CASE Goto(r, "unroute") /\ UNCHANGED engines
        BY <1>2, <4>1, <4>2 DEF Bound, AddrsPCs, OpenPCs
      <4>3. CASE Goto(r, "launch") /\ (UNCHANGED engines \/ ~ctxDone[r])
        BY <1>1, <1>2, <4>1, <4>3 DEF Bound, AddrsPCs, OpenPCs
      <4> QED
        BY <3>5, <4>2, <4>3 DEF StartDataplane, GiveUp
    <3>6. CASE LaunchN2(r) \/ N2Returns(r) \/ Stopping(r)
      <4>1. UNCHANGED <<ctxDone, job, host, route, added, engines>> /\ pc[r] \in AddrsPCs
        BY <3>6 DEF LaunchN2, N2Returns, Stopping, workVars, hostVars, AddrsPCs, OpenPCs
      <4>2. PICK l \in {"stop", "n2", "hold", "cleanup"} : Goto(r, l)
        BY <3>6 DEF LaunchN2, N2Returns, Stopping
      <4> QED
        BY <1>1, <1>2, <4>1, <4>2 DEF Bound, OpenPCs, AddrsPCs
    <3>7. CASE Cleanup(r)
      <4>1. r \notin engines' /\ pc'[r] = "unroute"
        BY <1>2, <3>7 DEF Cleanup
      <4> QED
        BY <4>1 DEF Bound, OpenPCs, AddrsPCs
    <3> QED
      BY <1>4, <3>1, <3>2, <3>3, <3>4, <3>5, <3>6, <3>7 DEF Execute, Place
  <2> QED
    BY <2>1, <2>2, <2>3, HolderMoves
<1> QED
  BY <1>3, <1>4

\* While a data plane is open its run is the active one and has every address it planned on
\* the host, and the route, whoever else asks for the host in the meantime.
THEOREM EngineAlwaysHasAddresses == Spec => []EngineHasAddresses
<1> DEFINE Inv == LeaseInv /\ EngineInv
<1>1. Init => Inv
  <2>1. Init => EngineInv
    BY DEF Init, EngineInv, Bound, AddrsPCs, OpenPCs, Workers
  <2> QED
    BY <2>1, InitLeaseInv
<1>2. Inv /\ [Next]_vars => Inv'
  <2> SUFFICES ASSUME LeaseInv, EngineInv, [Next]_vars PROVE EngineInv'
    BY StepLeaseInv
  <2>1. ASSUME \/ \E r \in Runs : StopRequest(r) \/ TimerFires(r)
               \/ BenchStart \/ BenchEnds \/ Signal \/ ShutdownReturns \/ Exit \/ UNCHANGED vars
        PROVE  EngineInv'
    <3>1. UNCHANGED <<pc, job, added, engines, host, route>>
      BY <2>1 DEF StopRequest, TimerFires, BenchStart, BenchEnds, Signal, ShutdownReturns, Exit, vars,
                  workVars, hostVars
    <3>2. ctxDone' = ctxDone \/ \E r \in Runs : ctxDone' = [ctxDone EXCEPT ![r] = TRUE]
      <4>1. RunActive => current \in Runs
        BY DEF RunActive, LeaseInv, TypeInv, TypeOK, CtlTypes
      <4> QED
        BY <2>1, <4>1 DEF StopRequest, TimerFires, BenchStart, BenchEnds, Signal, ShutdownReturns, Exit, vars,
                  runVars, RequestStop
    <3>3. \A r \in Runs : ctxDone[r] => ctxDone'[r]
      BY <3>2 DEF LeaseInv, TypeInv, TypeOK, RunTypes
    <3> QED
      BY <3>1, <3>3, RunsRest
  <2> QED
    BY <2>1, HandlersKeepBound, ExecuteKeepsBound DEF Next
<1>3. Inv => EngineHasAddresses
  <2> SUFFICES ASSUME LeaseInv, EngineInv, NEW r \in engines
               PROVE  /\ r = current /\ RunActive
                      /\ route /\ job[r].plan = <<>>
                      /\ \A i \in DOMAIN added[r] : added[r][i].addr \in host
    BY DEF EngineHasAddresses
  <2>1. r \in Runs /\ Bound(r)
    BY DEF EngineInv, LeaseInv, TypeInv, TypeOK, WorkTypes
  <2>2. PlacingRun(r)
    BY <2>1 DEF Bound, OpenPCs, PlacingRun
  <2> QED
    BY <2>1, <2>2 DEF Bound, AddrsPCs, LeaseInv, OneUser
<1> QED
  BY <1>1, <1>2, <1>3, PTL DEF Spec

-----------------------------------------------------------------------------
(* Why a run stopped. *)

\* A run gets as far as stopping only when it was asked to, or failed.
AskedToStop(r) ==
    /\ ctxDone[r] => stopReason[r] # ""
    /\ st[r] \in {"stopping", "stopped"} => ctxDone[r]
    /\ pc[r] \in {"stop", "cleanup"} => ctxDone[r]
    /\ pc[r] \in {"unroute", "undo", "putBack", "finish"} => failed[r] \/ ctxDone[r]

StopInv == \A r \in Runs : AskedToStop(r)

LEMMA InitStopInv == Init => StopInv
BY DEF Init, StopInv, AskedToStop, Workers

\* A worker goes on to a place that asks for no more than the one it leaves.
LEMMA StopGoesOn ==
    ASSUME TypeInv, StopInv, NEW w \in Workers, NEW l, Goto(w, l), UNCHANGED <<st, stopReason, ctxDone>>,
           failed' = failed \/ failed' = [r \in Runs |-> failed[r] \/ r = w],
           w \in Runs => \/ l \notin {"stop", "cleanup", "unroute", "undo", "putBack", "finish"}
                         \/ failed'[w]
                            /\ l \in {"unroute", "undo", "putBack", "finish"}
                         \/ ctxDone[w]
                         \/ /\ pc[w] \in {"unroute", "undo", "putBack", "finish"}
                            /\ l \in {"unroute", "undo", "putBack", "finish"}
    PROVE  StopInv'
<1> SUFFICES ASSUME NEW r \in Runs PROVE AskedToStop(r)'
  BY DEF StopInv
<1>1. pc'[r] = IF r = w THEN l ELSE pc[r]
  BY DEF Goto, TypeInv, TypeOK, Workers
<1>2. failed[r] => failed'[r]
  BY DEF TypeInv, TypeOK, RunTypes
<1>3. AskedToStop(r)
  BY DEF StopInv
<1>4. CASE r = w
  BY <1>1, <1>2, <1>3, <1>4 DEF AskedToStop
<1>5. CASE r # w
  BY <1>1, <1>2, <1>3, <1>5 DEF AskedToStop
<1> QED
  BY <1>4, <1>5

\* Stop, Shutdown and the timer: the first reason is kept.
LEMMA StopAsked ==
    ASSUME TypeInv, StopInv, NEW r \in Runs, NEW reason \in {"user", "maxDuration"}, RequestStop(r, reason),
           UNCHANGED <<pc, st, failed>>
    PROVE  StopInv'
<1> SUFFICES ASSUME NEW q \in Runs PROVE AskedToStop(q)'
  BY DEF StopInv
<1>1. ctxDone'[q] = (q = r \/ ctxDone[q])
  BY DEF RequestStop, TypeInv, TypeOK, RunTypes
<1>2. stopReason'[q] = IF q = r /\ stopReason[q] = "" THEN reason ELSE stopReason[q]
  BY DEF RequestStop, TypeInv, TypeOK, RunTypes
<1>3. AskedToStop(q)
  BY DEF StopInv
<1> QED
  BY <1>1, <1>2, <1>3 DEF AskedToStop

LEMMA StepStopInv == TypeInv /\ StopInv /\ [Next]_vars => StopInv'
<1> SUFFICES ASSUME TypeInv, StopInv, [Next]_vars PROVE StopInv'
  OBVIOUS
<1> USE ConstantsOK
<1>1. ASSUME NEW w \in Workers, Place(w) PROVE StopInv'
  <2>1. ASSUME GiveUp(w), UNCHANGED <<st, stopReason, ctxDone>> PROVE StopInv'
    <3>1. \E l \in {"unroute", "pingEnd"} : Goto(w, l)
      BY <2>1 DEF GiveUp
    <3>2. failed' = [r \in Runs |-> failed[r] \/ r = w]
      BY <2>1 DEF GiveUp
    <3> QED
      BY <2>1, <3>1, <3>2, StopGoesOn
  <2>2. ASSUME NEW l, Goto(w, l), UNCHANGED <<st, stopReason, ctxDone, failed>>,
               l \notin {"stop", "cleanup", "unroute", "undo", "putBack", "finish"}
        PROVE  StopInv'
    BY <2>2, StopGoesOn
  <2>3. ASSUME NEW l, Goto(w, l), UNCHANGED <<st, stopReason, ctxDone, failed>>, pc[w] \in {"undo", "putBack"},
               l \in {"undo", "putBack", "finish", "pingEnd"}
        PROVE  StopInv'
    BY <2>3, StopGoesOn
  <2>4. CASE PlaceTake(w)
    <3>1. UNCHANGED <<st, stopReason, ctxDone>>
          /\ (GiveUp(w) \/ (UNCHANGED failed /\ \E l \in {"add", "addrs", "ping"} : Goto(w, l)))
      BY <2>4 DEF PlaceTake, Placed
    <3> QED
      BY <3>1, <2>1, <2>2
  <2>5. CASE PlaceAdd(w)
    <3>1. UNCHANGED <<st, stopReason, ctxDone>>
          /\ (GiveUp(w) \/ (UNCHANGED failed /\ \E l \in {"addrs", "ping"} : Goto(w, l)))
      BY <2>5 DEF PlaceAdd, Placed
    <3> QED
      BY <3>1, <2>1, <2>2
  <2>6. CASE UndoRemove(w)
    <3>1. /\ UNCHANGED <<st, stopReason, ctxDone, failed>> /\ pc[w] = "undo"
          /\ \E l \in {"undo", "putBack", "finish", "pingEnd"} : Goto(w, l)
      BY <2>6 DEF UndoRemove, runVars
    <3> QED
      BY <3>1, <2>3
  <2>7. CASE UndoPutBack(w)
    <3>1. UNCHANGED <<st, stopReason, ctxDone, failed>> /\ pc[w] = "putBack" /\ Goto(w, "undo")
      BY <2>7 DEF UndoPutBack, runVars
    <3> QED
      BY <3>1, <2>3
  <2> QED
    BY <1>1, <2>4, <2>5, <2>6, <2>7 DEF Place
<1>2. ASSUME NEW c \in Callers, Request(c) \/ Handle(c) PROVE StopInv'
  <2>1. c \in Workers /\ c \notin Runs
    BY DEF Workers
  <2>2. ASSUME NEW l, Goto(c, l), UNCHANGED <<st, stopReason, ctxDone, failed>> PROVE StopInv'
    BY <2>1, <2>2, StopGoesOn
  <2>3. CASE StartRequest(c) \/ PingRequest(c) \/ SetCpusRequest(c)
    BY <2>2, <2>3 DEF StartRequest, PingRequest, SetCpusRequest, runVars
  <2>4. CASE StartCheck(c) \/ StartValidate(c) \/ StartAllocation(c)
    BY <2>2, <2>4 DEF StartCheck, StartValidate, StartAllocation, runVars
  <2>5. CASE PingResolve(c) \/ PingReplies(c) \/ PingEnd(c) \/ SetCpusSave(c)
    BY <2>2, <2>5 DEF PingResolve, PingReplies, PingEnd, SetCpusSave, runVars
  <2>6. CASE StartCommit(c)
    <3>1. CASE Busy \/ current + 1 > MaxRuns
      <4>1. Goto(c, "idle") /\ UNCHANGED <<st, stopReason, ctxDone, failed>>
        BY <2>6, <3>1 DEF StartCommit
      <4> QED
        BY <4>1, <2>2
    <3>2. CASE ~(Busy \/ current + 1 > MaxRuns)
      <4> DEFINE r == current + 1
      <4>1. r \in Runs
        BY <3>2, NextRun DEF TypeInv, TypeOK, CtlTypes
      <4>2. /\ st' = [st EXCEPT ![r] = "configuring"] /\ pc' = [pc EXCEPT ![c] = "idle", ![r] = "pin"]
            /\ UNCHANGED <<stopReason, ctxDone, failed>>
        BY <2>6, <3>2 DEF StartCommit
      <4> HIDE DEF r
      <4>3. ASSUME NEW q \in Runs PROVE AskedToStop(q)'
        <5>1. AskedToStop(q)
          BY DEF StopInv
        <5>2. pc'[q] = IF q = r THEN "pin" ELSE pc[q]
          BY <2>1, <4>1, <4>2 DEF TypeInv, TypeOK, Workers
        <5>3. st'[q] = IF q = r THEN "configuring" ELSE st[q]
          BY <4>1, <4>2 DEF TypeInv, TypeOK, RunTypes
        <5>4. UNCHANGED <<stopReason, ctxDone, failed>>
          BY <4>2
        <5> QED
          BY <5>1, <5>2, <5>3, <5>4 DEF AskedToStop
      <4> QED
        BY <4>3 DEF StopInv
    <3> QED
      BY <3>1, <3>2
  <2> QED
    BY <1>1, <1>2, <2>1, <2>3, <2>4, <2>5, <2>6 DEF Request, Handle
<1>3. ASSUME NEW r \in Runs, Execute(r) PROVE StopInv'
  <2>1. r \in Workers /\ AskedToStop(r)
    BY DEF Workers, StopInv
  <2>2. ASSUME NEW l, Goto(r, l), UNCHANGED <<st, stopReason, ctxDone, failed>>,
               l \in {"stop", "cleanup", "unroute", "undo", "putBack", "finish"} => ctxDone[r]
        PROVE  StopInv'
    BY <2>1, <2>2, StopGoesOn
  <2>3. ASSUME GiveUp(r), UNCHANGED <<st, stopReason, ctxDone>> PROVE StopInv'
    <3>1. Goto(r, "unroute") /\ failed' = [q \in Runs |-> failed[q] \/ q = r]
      BY <2>3 DEF GiveUp
    <3> QED
      BY <2>1, <2>3, <3>1, StopGoesOn
  <2>4. ASSUME NEW l, Goto(r, l), NEW x, st' = [st EXCEPT ![r] = x], UNCHANGED <<stopReason, ctxDone, failed>>,
               l \in {"stop", "cleanup", "unroute", "undo", "putBack", "finish"} => ctxDone[r],
               x \in {"stopping", "stopped"} => ctxDone[r]
        PROVE  StopInv'
    <3> SUFFICES ASSUME NEW q \in Runs PROVE AskedToStop(q)'
      BY DEF StopInv
    <3>1. pc'[q] = IF q = r THEN l ELSE pc[q]
      BY <2>4 DEF Goto, TypeInv, TypeOK, Workers
    <3>2. st'[q] = IF q = r THEN x ELSE st[q]
      BY <2>4 DEF TypeInv, TypeOK, RunTypes
    <3>3. AskedToStop(q)
      BY DEF StopInv
    <3> QED
      BY <2>1, <2>4, <3>1, <3>2, <3>3 DEF AskedToStop
  <2>5. CASE Pin(r) \/ Unpin(r) \/ Done(r)
    BY <2>2, <2>5 DEF Pin, Unpin, Done, runVars
  <2>6. CASE AddGnbAddr(r)
    <3>1. CASE UNCHANGED pc
      <4>1. UNCHANGED <<pc, st, stopReason, ctxDone, failed>>
        BY <2>6, <3>1 DEF AddGnbAddr, GiveUp, Goto, TypeInv, TypeOK, Workers
      <4> QED
        BY <4>1 DEF StopInv, AskedToStop
    <3>2. CASE Goto(r, "engine") /\ UNCHANGED failed
      BY <2>2, <2>6, <3>2 DEF AddGnbAddr
    <3>3. CASE GiveUp(r)
      BY <2>3, <2>6, <3>3 DEF AddGnbAddr
    <3> QED
      BY <2>6, <3>1, <3>2, <3>3 DEF AddGnbAddr
  <2>7. CASE EnsureRoute(r)
    BY <2>2, <2>3, <2>7 DEF EnsureRoute
  <2>8. CASE StartDataplane(r)
    BY <2>2, <2>3, <2>8 DEF StartDataplane
  <2>9. CASE LaunchN2(r) \/ N2Returns(r)
    <3>1. CASE ctxDone[r]
      BY <2>2, <2>9, <3>1 DEF LaunchN2, N2Returns
    <3>2. CASE ~ctxDone[r]
      BY <2>4, <2>9, <3>2 DEF LaunchN2, N2Returns
    <3> QED
      BY <3>1, <3>2
  <2>10. CASE Stopping(r)
    <3>1. ctxDone[r]
      BY <2>1, <2>10 DEF Stopping, AskedToStop
    <3> QED
      BY <2>4, <2>10, <3>1 DEF Stopping
  <2>11. CASE Cleanup(r)
    <3>1. ctxDone[r]
      BY <2>1, <2>11 DEF Cleanup, AskedToStop
    <3> QED
      BY <2>2, <2>11, <3>1 DEF Cleanup, runVars
  <2>12. CASE RemoveRoute(r)
    <3>1. pc[r] = "unroute" /\ Goto(r, "undo") /\ UNCHANGED <<st, stopReason, ctxDone, failed>>
      BY <2>12 DEF RemoveRoute, runVars
    <3> QED
      BY <2>1, <3>1, StopGoesOn
  <2>13. CASE Finish(r)
    <3>1. failed[r] \/ ctxDone[r]
      BY <2>1, <2>13 DEF Finish, AskedToStop
    <3>2. /\ Goto(r, "unpin") /\ UNCHANGED <<stopReason, ctxDone, failed>>
          /\ st' = [st EXCEPT ![r] = IF failed[r] THEN "failed" ELSE "stopped"]
      BY <2>13 DEF Finish
    <3>3. CASE failed[r]
      <4>1. st' = [st EXCEPT ![r] = "failed"]
        BY <3>2, <3>3
      <4>2. "failed" \notin {"stopping", "stopped"}
        OBVIOUS
      <4>3. "unpin" \notin {"stop", "cleanup", "unroute", "undo", "putBack", "finish"}
        OBVIOUS
      <4> QED
        BY <2>4, <3>2, <4>1, <4>2, <4>3
    <3>4. CASE ~failed[r]
      <4>1. st' = [st EXCEPT ![r] = "stopped"]
        BY <3>2, <3>4
      <4> QED
        BY <2>4, <3>1, <3>2, <3>4, <4>1
    <3> QED
      BY <3>3, <3>4
  <2> QED
    BY <1>1, <1>3, <2>1, <2>5, <2>6, <2>7, <2>8, <2>9, <2>10, <2>11, <2>12, <2>13 DEF Execute
<1>4. ASSUME UNCHANGED <<pc, st, stopReason, ctxDone, failed>> PROVE StopInv'
  BY <1>4 DEF StopInv, AskedToStop
<1>5. ASSUME NEW r \in Runs, StopRequest(r) \/ TimerFires(r) PROVE StopInv'
  <2>1. UNCHANGED <<pc, st, failed>>
    BY <1>5 DEF StopRequest, TimerFires
  <2>2. RequestStop(r, "user") \/ RequestStop(r, "maxDuration") \/ UNCHANGED <<stopReason, ctxDone>>
    BY <1>5 DEF StopRequest, TimerFires
  <2> QED
    BY <1>4, <2>1, <2>2, StopAsked
<1>6. CASE Signal
  <2>1. UNCHANGED <<pc, st, failed>>
    BY <1>6 DEF Signal
  <2>2. (current \in Runs /\ RequestStop(current, "user")) \/ UNCHANGED <<stopReason, ctxDone>>
    BY <1>6 DEF Signal, RunActive, TypeInv, TypeOK, CtlTypes
  <2> QED
    BY <1>4, <2>1, <2>2, StopAsked
<1>7. CASE BenchStart \/ BenchEnds \/ ShutdownReturns \/ Exit \/ UNCHANGED vars
  BY <1>4, <1>7 DEF BenchStart, BenchEnds, ShutdownReturns, Exit, runVars, vars
<1> QED
  BY <1>2, <1>3, <1>5, <1>6, <1>7 DEF Next

\* A run that is stopping or stopped says why (Snapshot.StopReason).
THEOREM StopReasonAlwaysKnown == Spec => []StopReasonKnown
<1>1. Init => TypeInv /\ StopInv
  BY InitTypeInv, InitStopInv
<1>2. TypeInv /\ StopInv /\ [Next]_vars => (TypeInv /\ StopInv)'
  BY StepTypeInv, StepStopInv
<1>3. StopInv => StopReasonKnown
  BY DEF StopInv, AskedToStop, StopReasonKnown
<1> QED
  BY <1>1, <1>2, <1>3, PTL DEF Spec

-----------------------------------------------------------------------------
(* The process's CPUs. *)

\* Where a run has pinned the process and not yet given it back.
PinnedPCs == {"addrs", "engine", "launch", "n2", "hold", "stop", "cleanup", "unroute", "finish", "unpin"} \cup PlacePCs

Pins(r) == pc[r] \in PinnedPCs /\ job[r].cpus # Unpinned

\* Who has pinned the process is still to give it back.
CpusInv ==
    /\ \A r \in Runs : r > current => pc[r] = "none"
    /\ procCpus # Unpinned => \E r \in Runs : Pins(r)

LEMMA InitCpusInv == Init => CpusInv
BY DEF Init, CpusInv, Workers

\* A run goes on, and pins the process no less than before.
LEMMA PinsOn ==
    ASSUME TypeInv, CpusInv, NEW w \in Workers, NEW l, Goto(w, l), UNCHANGED <<current, procCpus>>,
           \A r \in Runs : job'[r].cpus = job[r].cpus,
           w \in Runs => pc[w] # "none" /\ (pc[w] \in PinnedPCs => l \in PinnedPCs)
    PROVE  CpusInv'
<1>1. \A r \in Runs : pc'[r] = IF r = w THEN l ELSE pc[r]
  BY DEF Goto, TypeInv, TypeOK, Workers
<1>2. ASSUME NEW r \in Runs, r > current' PROVE pc'[r] = "none"
  BY <1>1, <1>2 DEF CpusInv
<1>3. ASSUME NEW r \in Runs, Pins(r) PROVE Pins(r)'
  BY <1>1, <1>3 DEF Pins
<1> QED
  BY <1>2, <1>3 DEF CpusInv

LEMMA StepCpusInv == TypeInv /\ CpusInv /\ [Next]_vars => CpusInv'
<1> SUFFICES ASSUME TypeInv, CpusInv, [Next]_vars PROVE CpusInv'
  OBVIOUS
<1> USE ConstantsOK
<1>1. ASSUME NEW w \in Workers, NEW l, Goto(w, l), UNCHANGED <<current, procCpus, job>>,
             w \in Runs => pc[w] # "none" /\ (pc[w] \in PinnedPCs => l \in PinnedPCs)
      PROVE  CpusInv'
  BY <1>1, PinsOn
<1>2. ASSUME UNCHANGED <<current, procCpus, job, pc>> PROVE CpusInv'
  BY <1>2 DEF CpusInv, Pins
<1>3. ASSUME NEW w \in Workers, GiveUp(w), UNCHANGED <<current, procCpus, job>>, w \in Runs => pc[w] # "none"
      PROVE  CpusInv'
  <2>1. Goto(w, IF w \in Runs THEN "unroute" ELSE "pingEnd")
    BY <1>3 DEF GiveUp
  <2> QED
    BY <1>1, <1>3, <2>1 DEF PinnedPCs
<1>4. ASSUME NEW w \in Workers, Place(w) PROVE CpusInv'
  <2>1. UNCHANGED <<current, procCpus, job>> /\ pc[w] \in PlacePCs
    BY <1>4 DEF Place, PlaceTake, PlaceAdd, UndoRemove, UndoPutBack, ctlVars, cpuVars
  <2>2. pc[w] # "none"
    BY <2>1
  <2>3. \/ GiveUp(w)
        \/ \E l \in PlacePCs \cup {"addrs", "finish"} : Goto(w, l)
        \/ w \notin Runs /\ \E l \in {"ping", "pingEnd"} : Goto(w, l)
    <3>1. CASE PlaceTake(w) \/ PlaceAdd(w)
      BY <3>1 DEF PlaceTake, PlaceAdd, Placed
    <3>2. CASE UndoRemove(w) \/ UndoPutBack(w)
      BY <3>2 DEF UndoRemove, UndoPutBack
    <3> QED
      BY <1>4, <3>1, <3>2 DEF Place
  <2>4. ASSUME NEW l \in PlacePCs \cup {"addrs", "finish"}, Goto(w, l) PROVE CpusInv'
    <3>1. l \in PinnedPCs
      BY DEF PinnedPCs
    <3> QED
      BY <1>1, <2>1, <2>2, <2>4, <3>1
  <2>5. ASSUME NEW l, Goto(w, l), w \notin Runs PROVE CpusInv'
    BY <1>1, <2>1, <2>5
  <2> QED
    BY <1>3, <2>1, <2>2, <2>3, <2>4, <2>5
<1>5. ASSUME NEW c \in Callers, Request(c) \/ Handle(c) PROVE CpusInv'
  <2>1. c \in Workers /\ c \notin Runs
    BY DEF Workers
  <2>2. ASSUME NEW l, Goto(c, l), UNCHANGED <<current, procCpus>>, \A r \in Runs : job'[r] = job[r] PROVE CpusInv'
    BY <2>1, <2>2, PinsOn
  <2>3. CASE StartRequest(c) \/ PingRequest(c) \/ SetCpusRequest(c)
    BY <2>2, <2>3 DEF StartRequest, PingRequest, SetCpusRequest, ctlVars, cpuVars, workVars
  <2>4. CASE StartCheck(c) \/ PingReplies(c) \/ SetCpusSave(c)
    BY <2>2, <2>4 DEF StartCheck, PingReplies, SetCpusSave, ctlVars, cpuVars, workVars
  <2>5. CASE StartValidate(c) \/ StartAllocation(c) \/ PingResolve(c) \/ PingEnd(c)
    <3>1. UNCHANGED <<current, procCpus>>
      BY <2>5 DEF StartValidate, StartAllocation, PingResolve, PingEnd, ctlVars, cpuVars
    <3>2. \A r \in Runs : job'[r] = job[r]
      BY <2>1, <2>5 DEF StartValidate, StartAllocation, PingResolve, PingEnd, TypeInv, TypeOK, WorkTypes, Workers
    <3>3. \E l : Goto(c, l)
      BY <2>5 DEF StartValidate, StartAllocation, PingResolve, PingEnd
    <3> QED
      BY <2>2, <3>1, <3>2, <3>3
  <2>6. CASE StartCommit(c)
    <3>1. CASE Busy \/ current + 1 > MaxRuns
      <4>1. Goto(c, "idle") /\ UNCHANGED <<current, procCpus>> /\ job' = [job EXCEPT ![c] = NoJob]
        BY <2>6, <3>1 DEF StartCommit, cpuVars
      <4>2. \A r \in Runs : job'[r] = job[r]
        BY <2>1, <4>1 DEF TypeInv, TypeOK, WorkTypes, Workers
      <4> QED
        BY <4>1, <4>2, <2>2
    <3>2. CASE ~(Busy \/ current + 1 > MaxRuns)
      <4>1. current + 1 \in Runs /\ current \in Nat
        BY <3>2, NextRun DEF TypeInv, TypeOK, CtlTypes
      <4>2. /\ current' = current + 1 /\ procCpus' = procCpus
            /\ pc' = [pc EXCEPT ![c] = "idle", ![current + 1] = "pin"]
            /\ job' = [job EXCEPT ![current + 1] = job[c], ![c] = NoJob]
        BY <2>6, <3>2 DEF StartCommit, cpuVars
      <4>3. pc[current + 1] = "none"
        BY <4>1 DEF CpusInv
      <4>4. ASSUME NEW q \in Runs PROVE q # current + 1 => pc'[q] = pc[q] /\ job'[q] = job[q]
        BY <2>1, <4>1, <4>2 DEF TypeInv, TypeOK, WorkTypes, Workers
      <4>5. ASSUME NEW q \in Runs, q > current' PROVE pc'[q] = "none"
        <5>1. q \in Nat /\ q > current + 1
          BY <4>2, <4>5, NextRun
        <5>2. q > current /\ q # current + 1
          BY <4>1, <5>1
        <5> QED
          BY <4>4, <5>2 DEF CpusInv
      <4>6. ASSUME NEW q \in Runs, Pins(q) PROVE Pins(q)'
        <5>1. q # current + 1
          BY <4>3, <4>6 DEF Pins, PinnedPCs
        <5> QED
          BY <4>4, <4>6, <5>1 DEF Pins
      <4> QED
        BY <4>2, <4>5, <4>6 DEF CpusInv
    <3> QED
      BY <3>1, <3>2
  <2> QED
    BY <1>4, <1>5, <2>1, <2>3, <2>4, <2>5, <2>6 DEF Request, Handle
<1>6. ASSUME NEW r \in Runs, Execute(r) PROVE CpusInv'
  <2>1. r \in Workers
    BY DEF Workers
  <2>2. ASSUME NEW l, Goto(r, l), UNCHANGED <<current, procCpus, job>>, l \in PinnedPCs, pc[r] # "none" PROVE CpusInv'
    BY <1>1, <2>1, <2>2
  <2>3. CASE Pin(r)
    <3>1. /\ pc[r] = "pin" /\ Goto(r, "take") /\ UNCHANGED <<current, job>>
          /\ procCpus' = IF job[r].cpus = Unpinned THEN procCpus ELSE job[r].cpus
      BY <2>3 DEF Pin, ctlVars, workVars
    <3>2. CASE job[r].cpus = Unpinned
      BY <2>2, <3>1, <3>2 DEF PinnedPCs
    <3>3. CASE job[r].cpus # Unpinned
      <4>1. \A q \in Runs : pc'[q] = IF q = r THEN "take" ELSE pc[q]
        BY <2>1, <3>1 DEF Goto, TypeInv, TypeOK, Workers
      <4>2. Pins(r)'
        BY <3>1, <3>3, <4>1 DEF Pins, PinnedPCs
      <4>3. ASSUME NEW q \in Runs, q > current' PROVE pc'[q] = "none"
        BY <3>1, <4>1, <4>3 DEF CpusInv
      <4> QED
        BY <4>2, <4>3 DEF CpusInv
    <3> QED
      BY <3>2, <3>3
  <2>4. CASE Unpin(r)
    <3>1. /\ pc[r] = "unpin" /\ Goto(r, "return") /\ UNCHANGED <<current, job>>
          /\ procCpus' = IF job[r].cpus = Unpinned THEN procCpus ELSE Unpinned
      BY <2>4 DEF Unpin, ctlVars, workVars
    <3>2. \A q \in Runs : pc'[q] = IF q = r THEN "return" ELSE pc[q]
      BY <2>1, <3>1 DEF Goto, TypeInv, TypeOK, Workers
    <3>3. ASSUME NEW q \in Runs, q > current' PROVE pc'[q] = "none"
      BY <3>1, <3>2, <3>3 DEF CpusInv
    <3>4. ASSUME NEW q \in Runs, Pins(q), job[r].cpus = Unpinned PROVE Pins(q)'
      BY <3>1, <3>2, <3>4 DEF Pins
    <3> QED
      BY <3>1, <3>3, <3>4 DEF CpusInv
  <2>5. CASE AddGnbAddr(r)
    <3>1. UNCHANGED <<current, procCpus>> /\ pc[r] = "addrs"
      BY <2>5 DEF AddGnbAddr, ctlVars, cpuVars
    <3>2. CASE UNCHANGED job /\ Goto(r, "engine")
      BY <2>2, <3>1, <3>2 DEF PinnedPCs
    <3>3. CASE UNCHANGED job /\ GiveUp(r)
      BY <1>3, <2>1, <3>1, <3>3
    <3>4. CASE UNCHANGED pc /\ job' = [job EXCEPT ![r].plan = Tail(@)]
      <4>1. \A q \in Runs : job'[q].cpus = job[q].cpus
        BY <3>4 DEF TypeInv, TypeOK, WorkTypes, Workers, Job
      <4> QED
        BY <3>1, <3>4, <4>1 DEF CpusInv, Pins
    <3> QED
      BY <2>5, <3>2, <3>3, <3>4 DEF AddGnbAddr
  <2>6. CASE EnsureRoute(r) \/ StartDataplane(r)
    <3>1. UNCHANGED <<current, procCpus, job>> /\ pc[r] \in {"addrs", "engine"}
      BY <2>6 DEF EnsureRoute, StartDataplane, ctlVars, cpuVars
    <3>2. GiveUp(r) \/ \E l \in {"engine", "launch"} : Goto(r, l)
      BY <2>6 DEF EnsureRoute, StartDataplane
    <3> QED
      BY <1>3, <2>1, <2>2, <3>1, <3>2 DEF PinnedPCs
  <2>7. CASE LaunchN2(r) \/ N2Returns(r) \/ Stopping(r) \/ Cleanup(r) \/ RemoveRoute(r) \/ Finish(r)
    <3>1. UNCHANGED <<current, procCpus, job>> /\ pc[r] # "none"
      BY <2>7 DEF LaunchN2, N2Returns, Stopping, Cleanup, RemoveRoute, Finish, ctlVars, cpuVars, workVars
    <3>2. \E l \in {"stop", "n2", "hold", "cleanup", "unroute", "undo", "unpin"} : Goto(r, l)
      BY <2>7 DEF LaunchN2, N2Returns, Stopping, Cleanup, RemoveRoute, Finish
    <3> QED
      BY <2>2, <3>1, <3>2 DEF PinnedPCs
  <2>8. CASE Done(r)
    <3>1. /\ pc[r] = "return" /\ Goto(r, "done") /\ UNCHANGED <<current, procCpus>>
          /\ job' = [job EXCEPT ![r] = NoJob]
      BY <2>8 DEF Done, ctlVars, cpuVars
    <3>2. \A q \in Runs : pc'[q] = IF q = r THEN "done" ELSE pc[q]
      BY <2>1, <3>1 DEF Goto, TypeInv, TypeOK, Workers
    <3>3. \A q \in Runs : q # r => job'[q] = job[q]
      BY <3>1 DEF TypeInv, TypeOK, WorkTypes, Workers
    <3>4. ASSUME NEW q \in Runs, q > current' PROVE pc'[q] = "none"
      BY <3>1, <3>2, <3>4 DEF CpusInv
    <3>5. ASSUME NEW q \in Runs, Pins(q) PROVE Pins(q)'
      <4>1. q # r
        BY <3>1, <3>5 DEF Pins, PinnedPCs
      <4> QED
        BY <3>2, <3>3, <3>5, <4>1 DEF Pins
    <3> QED
      BY <3>1, <3>4, <3>5 DEF CpusInv
  <2> QED
    BY <1>4, <1>6, <2>1, <2>3, <2>4, <2>5, <2>6, <2>7, <2>8 DEF Execute
<1>7. ASSUME NEW r \in Runs, StopRequest(r) \/ TimerFires(r) PROVE CpusInv'
  BY <1>2, <1>7 DEF StopRequest, TimerFires, ctlVars, cpuVars, workVars
<1>8. CASE Signal \/ BenchStart \/ BenchEnds \/ ShutdownReturns \/ Exit \/ UNCHANGED vars
  BY <1>2, <1>8 DEF Signal, BenchStart, BenchEnds, ShutdownReturns, Exit, ctlVars, cpuVars, workVars, vars
<1> QED
  BY <1>5, <1>6, <1>7, <1>8 DEF Next

\* Once no execute goroutine is left, the process has all its CPUs back, however the
\* un-pinning of one run and the pinning of the next interleave.
THEOREM CpusAlwaysReleased == Spec => []CpusReleased
<1>1. Init => TypeInv /\ CpusInv
  BY InitTypeInv, InitCpusInv
<1>2. TypeInv /\ CpusInv /\ [Next]_vars => (TypeInv /\ CpusInv)'
  BY StepTypeInv, StepCpusInv
<1>3. CpusInv => CpusReleased
  BY DEF CpusInv, Pins, PinnedPCs, CpusReleased
<1> QED
  BY <1>1, <1>2, <1>3, PTL DEF Spec

-----------------------------------------------------------------------------
(* The reports. *)

\* Of runs that have finished but for the last ones, the loop of Reports keeps the first.
LEMMA FinishedFirst ==
    ASSUME NEW runs \in Seq(Runs), NEW n \in 0..Len(runs),
           \A i \in 1..n : st[runs[i]] \in {"stopped", "failed"},
           \A i \in (n + 1)..Len(runs) : st[runs[i]] \notin {"stopped", "failed"}
    PROVE  FinishedOf(runs) = SubSeq(runs, 1, n)
<1> DEFINE F(out) == [i \in 0..Len(runs) |->
                         IF i = 0 THEN <<>>
                         ELSE IF st[runs[i]] \in {"stopped", "failed"} THEN Append(out[i - 1], runs[i])
                         ELSE out[i - 1]]
           g == [i \in 0..Len(runs) |-> SubSeq(runs, 1, IF i <= n THEN i ELSE n)]
<1>1. Len(runs) \in Nat /\ n \in Nat /\ n <= Len(runs)
  OBVIOUS
<1>2. ASSUME NEW i \in 0..Len(runs) PROVE g[i] = F(g)[i]
  <2>1. CASE i = 0
    BY <2>1
  <2>2. CASE i \in 1..n
    <3>1. g[i] = SubSeq(runs, 1, i) /\ g[i - 1] = SubSeq(runs, 1, i - 1)
      BY <1>1, <2>2
    <3>2. SubSeq(runs, 1, i) = Append(SubSeq(runs, 1, i - 1), runs[i])
      BY <1>1, <2>2
    <3>3. i \in 0..Len(runs) /\ i # 0 /\ st[runs[i]] \in {"stopped", "failed"}
      BY <1>1, <2>2
    <3> HIDE DEF g
    <3>4. F(g)[i] = Append(g[i - 1], runs[i])
      BY <3>3
    <3>5. g[i] = Append(g[i - 1], runs[i])
      BY ONLY <3>1, <3>2
    <3> QED
      BY <3>4, <3>5
  <2>3. CASE i \in (n + 1)..Len(runs)
    <3>1. g[i] = SubSeq(runs, 1, n) /\ g[i - 1] = SubSeq(runs, 1, n)
      <4>1. i - 1 \in 0..Len(runs) /\ ~(i <= n) /\ (i - 1 <= n => i - 1 = n)
        BY <1>1, <2>3
      <4> QED
        BY <4>1
    <3>2. i \in 0..Len(runs) /\ i # 0 /\ st[runs[i]] \notin {"stopped", "failed"}
      BY <1>1, <2>3
    <3> HIDE DEF g
    <3>3. F(g)[i] = g[i - 1]
      BY <3>2
    <3> HIDE DEF F
    <3> QED
      BY <3>1, <3>3
  <2>4. i = 0 \/ i \in 1..n \/ i \in (n + 1)..Len(runs)
    BY <1>1
  <2> HIDE DEF F, g
  <2> QED
    BY <2>1, <2>2, <2>3, <2>4
<1>3. g = F(g)
  BY <1>2
<1>4. ASSUME NEW h, h = F(h) PROVE h = g
  <2> DEFINE T == { i \in 0..Len(runs) : h[i] # g[i] }
  <2>1. ASSUME T # {} PROVE FALSE
    <3>1. T \in SUBSET Nat
      BY <1>1
    <3>2. PICK i \in T : \A j \in T : i <= j
      BY <2>1, <3>1, LeastNat
    <3>3. i \in 0..Len(runs) /\ h[i] = F(h)[i] /\ g[i] = F(g)[i] /\ h[i] # g[i]
      BY <1>3, <1>4, <3>2
    <3>4. i # 0
      BY <3>3
    <3>5. i - 1 \in 0..Len(runs) /\ ~(i <= i - 1)
      BY <1>1, <3>3, <3>4
    <3>6. h[i - 1] = g[i - 1]
      BY <3>2, <3>5
    <3>7. F(h)[i] = F(g)[i]
      BY <3>3, <3>4, <3>6
    <3> QED
      BY <3>3, <3>7
  <2>2. \A i \in 0..Len(runs) : h[i] = g[i]
    BY <2>1
  <2>3. h = [i \in 0..Len(runs) |-> h[i]]
    BY <1>4
  <2>4. g = [i \in 0..Len(runs) |-> g[i]]
    OBVIOUS
  <2> QED
    BY <2>2, <2>3, <2>4
<1>5. FinishedOf(runs) = (CHOOSE h : h = F(h))[Len(runs)]
  BY DEF FinishedOf
<1>6. (CHOOSE h : h = F(h)) = g
  BY <1>3, <1>4
<1>7. g[Len(runs)] = SubSeq(runs, 1, n)
  BY <1>1
<1> QED
  BY <1>5, <1>6, <1>7

\* How many runs before the n-th one past holds.
KeptBefore(n) == IF n = NoRun THEN 0 ELSE IF n - 1 > KeptReports THEN KeptReports ELSE n - 1

\* Runs are numbered as they start, past is the newest of those before the current one.
PastInv ==
    /\ \A r \in Runs : r < current => st[r] \in {"stopped", "failed"}
    /\ \A r \in Runs : r > current => st[r] = "none"
    /\ current # NoRun => st[current] # "none"
    /\ Len(past) = KeptBefore(current)
    /\ \A i \in 1..Len(past) : past[i] = current - 1 - Len(past) + i

LEMMA InitPastInv == Init => PastInv
<1> SUFFICES ASSUME Init PROVE PastInv
  OBVIOUS
<1>1. current = 0 /\ past = <<>> /\ Len(past) = 0 /\ \A r \in Runs : st[r] = "none"
  BY DEF Init, NoRun
<1>2. \A r \in Runs : ~(r < 0)
  BY ConstantsOK DEF Runs
<1> QED
  BY <1>1, <1>2 DEF PastInv, KeptBefore, NoRun

\* The run started last goes on to another state.
LEMMA CurrentMoves ==
    ASSUME TypeInv, PastInv, NEW x, x # "none",
           current \in Runs, st' = [st EXCEPT ![current] = x], UNCHANGED <<current, past>>
    PROVE  PastInv'
<1>1. \A r \in Runs : st'[r] = IF r = current THEN x ELSE st[r]
  BY DEF TypeInv, TypeOK, RunTypes
<1>2. \A r \in Runs : r \in Nat
  BY NextRun DEF Runs
<1> QED
  BY <1>1, <1>2 DEF PastInv, KeptBefore

\* One more run is started: the one before it is over, and joins the past.
LEMMA NextStarts ==
    ASSUME TypeInv, PastInv, NEW c \in Callers, StartCommit(c), ~(Busy \/ current + 1 > MaxRuns)
    PROVE  PastInv'
<1> DEFINE r == current + 1
           finished == Append(past, current)
<1>1. MaxRuns \in Nat /\ KeptReports \in Nat /\ KeptReports > 0
  BY ConstantsOK
<1>2. current \in Nat /\ r \in Runs /\ current' = r
  BY NextRun DEF StartCommit, TypeInv, TypeOK, CtlTypes
<1>3. /\ st' = [st EXCEPT ![r] = "configuring"]
      /\ past' = IF current = NoRun THEN past
                 ELSE IF Len(finished) > KeptReports THEN Tail(finished) ELSE finished
  BY DEF StartCommit
<1>4. \A q \in Runs : st'[q] = IF q = r THEN "configuring" ELSE st[q]
  BY <1>2, <1>3 DEF TypeInv, TypeOK, RunTypes
<1>5. current # NoRun => current \in Runs /\ st[current] \in {"stopped", "failed"}
  BY DEF Busy, RunActive, ActiveStates, PastInv, TypeInv, TypeOK, CtlTypes, RunTypes, RunStates
<1>6. \A q \in Runs : q \in Nat /\ q # NoRun
  BY <1>1 DEF Runs, NoRun
<1>7. past \in Seq(Runs) /\ Len(past) \in Nat
  BY DEF TypeInv, TypeOK, CtlTypes
<1>8. ASSUME NEW q \in Runs PROVE /\ q < r => st'[q] \in {"stopped", "failed"}
                                  /\ q > r => st'[q] = "none"
  <2>1. CASE q = current
    <3>1. q # r /\ ~(q > r) /\ st[q] \in {"stopped", "failed"}
      BY <1>2, <1>5, <1>6, <2>1
    <3> QED
      BY <1>4, <3>1
  <2>2. CASE q # current
    <3>1. q < r => q < current /\ q # r
      BY <1>2, <1>6, <2>2
    <3>2. q > r => q > current /\ q # r
      BY <1>2, <1>6, <2>2
    <3> QED
      BY <1>4, <3>1, <3>2 DEF PastInv
  <2> QED
    BY <2>1, <2>2
<1>9. st'[r] # "none" /\ r # NoRun
  BY <1>2, <1>4 DEF NoRun
<1>10. /\ Len(past') = KeptBefore(r)
       /\ \A i \in 1..Len(past') : past'[i] = r - 1 - Len(past') + i
  <2>1. CASE current = NoRun
    BY <1>1, <1>2, <1>3, <2>1 DEF PastInv, KeptBefore, NoRun
  <2>2. CASE current # NoRun
    <3>1. /\ finished \in Seq(Runs) /\ Len(finished) = Len(past) + 1 /\ finished # <<>>
          /\ \A i \in 1..Len(finished) : finished[i] = IF i = Len(past) + 1 THEN current ELSE past[i]
      BY <1>5, <1>7, <2>2
    <3>2. \A i \in 1..Len(finished) : finished[i] = current - Len(finished) + i
      BY <1>2, <1>7, <3>1 DEF PastInv
    <3>3. Len(past) = IF current - 1 > KeptReports THEN KeptReports ELSE current - 1
      BY <2>2 DEF PastInv, KeptBefore
    <3> HIDE DEF finished
    <3>4. CASE Len(finished) > KeptReports
      <4>1. past' = Tail(finished)
        BY <1>3, <2>2, <3>4
      <4>2. /\ Len(past') = Len(finished) - 1
            /\ \A i \in 1..Len(past') : past'[i] = finished[i + 1] /\ i + 1 \in 1..Len(finished)
        BY <3>1, <4>1
      <4>3. Len(past') = KeptReports /\ current > KeptReports
        BY <1>1, <1>2, <1>7, <2>2, <3>1, <3>3, <3>4, <4>2 DEF NoRun
      <4>4. KeptBefore(r) = KeptReports
        BY <1>1, <1>2, <4>3 DEF KeptBefore, NoRun
      <4>5. ASSUME NEW i \in 1..Len(past') PROVE past'[i] = r - 1 - Len(past') + i
        <5>1. finished[i + 1] = current - Len(finished) + (i + 1)
          BY <3>2, <4>2
        <5> QED
          BY <1>1, <1>2, <1>7, <3>1, <4>2, <4>3, <5>1
      <4> QED
        BY <4>3, <4>4, <4>5
    <3>5. CASE ~(Len(finished) > KeptReports)
      <4>1. past' = finished
        BY <1>3, <2>2, <3>5
      <4>2. Len(finished) = current
        BY <1>1, <1>2, <1>7, <2>2, <3>1, <3>3, <3>5 DEF NoRun
      <4>3. KeptBefore(r) = current
        BY <1>1, <1>2, <3>5, <4>2 DEF KeptBefore, NoRun
      <4> QED
        BY <1>2, <3>2, <4>1, <4>2, <4>3
    <3> QED
      BY <3>4, <3>5
  <2> QED
    BY <2>1, <2>2
<1> HIDE DEF r
<1> QED
  BY <1>2, <1>8, <1>9, <1>10 DEF PastInv

LEMMA StepPastInv == TypeInv /\ OneUser /\ PastInv /\ [Next]_vars => PastInv'
<1> SUFFICES ASSUME TypeInv, OneUser, PastInv, [Next]_vars PROVE PastInv'
  OBVIOUS
<1>1. ASSUME UNCHANGED <<current, past, st>> PROVE PastInv'
  BY <1>1 DEF PastInv, KeptBefore
<1>2. ASSUME NEW w \in Workers, Place(w) PROVE PastInv'
  <2>1. UNCHANGED <<current, past>>
    BY <1>2 DEF Place, PlaceTake, PlaceAdd, UndoRemove, UndoPutBack, ctlVars
  <2>2. UNCHANGED st
    BY <1>2 DEF Place, PlaceTake, PlaceAdd, UndoRemove, UndoPutBack, runVars
  <2> QED
    BY <1>1, <2>1, <2>2
<1>3. ASSUME NEW c \in Callers, Request(c) \/ Handle(c) PROVE PastInv'
  <2>1. CASE StartRequest(c) \/ PingRequest(c) \/ SetCpusRequest(c)
    BY <1>1, <2>1 DEF StartRequest, PingRequest, SetCpusRequest, ctlVars, runVars
  <2>2. CASE StartCheck(c) \/ StartValidate(c) \/ StartAllocation(c)
    BY <1>1, <2>2 DEF StartCheck, StartValidate, StartAllocation, ctlVars, runVars
  <2>3. CASE PingResolve(c) \/ PingReplies(c) \/ PingEnd(c) \/ SetCpusSave(c)
    BY <1>1, <2>3 DEF PingResolve, PingReplies, PingEnd, SetCpusSave, ctlVars, runVars
  <2>4. CASE StartCommit(c)
    <3>1. CASE Busy \/ current + 1 > MaxRuns
      <4>1. UNCHANGED <<current, past, st>>
        BY <2>4, <3>1 DEF StartCommit
      <4> QED
        BY <1>1, <4>1
    <3> QED
      BY <2>4, <3>1, NextStarts
  <2>5. c \in Workers
    BY DEF Workers
  <2> QED
    BY <1>2, <1>3, <2>1, <2>2, <2>3, <2>4, <2>5 DEF Request, Handle
<1>4. ASSUME NEW r \in Runs, Execute(r) PROVE PastInv'
  <2>1. ASSUME PlacingRun(r), NEW x, x # "none", st' = [st EXCEPT ![r] = x], UNCHANGED <<current, past>>
        PROVE  PastInv'
    <3>1. r = current
      BY <2>1 DEF OneUser
    <3> QED
      BY <2>1, <3>1, CurrentMoves
  <2>2. CASE Pin(r) \/ Unpin(r) \/ Done(r) \/ Cleanup(r) \/ RemoveRoute(r)
    BY <1>1, <2>2 DEF Pin, Unpin, Done, Cleanup, RemoveRoute, ctlVars, runVars
  <2>3. CASE AddGnbAddr(r) \/ EnsureRoute(r) \/ StartDataplane(r)
    BY <1>1, <2>3 DEF AddGnbAddr, EnsureRoute, StartDataplane, ctlVars, runVars
  <2>4. CASE LaunchN2(r)
    <3>1. UNCHANGED <<current, past>> /\ PlacingRun(r)
      BY <2>4 DEF LaunchN2, ctlVars, PlacingRun
    <3>2. UNCHANGED st \/ st' = [st EXCEPT ![r] = "n2"]
      BY <2>4 DEF LaunchN2
    <3> QED
      BY <1>1, <2>1, <3>1, <3>2
  <2>5. CASE N2Returns(r)
    <3>1. UNCHANGED <<current, past>> /\ PlacingRun(r)
      BY <2>5 DEF N2Returns, ctlVars, PlacingRun
    <3>2. UNCHANGED st \/ st' = [st EXCEPT ![r] = "running"]
      BY <2>5 DEF N2Returns
    <3> QED
      BY <1>1, <2>1, <3>1, <3>2
  <2>6. CASE Stopping(r)
    <3>1. UNCHANGED <<current, past>> /\ PlacingRun(r) /\ st' = [st EXCEPT ![r] = "stopping"]
      BY <2>6 DEF Stopping, ctlVars, PlacingRun
    <3> QED
      BY <2>1, <3>1
  <2>7. CASE Finish(r)
    <3>1. UNCHANGED <<current, past>> /\ PlacingRun(r)
      BY <2>7 DEF Finish, ctlVars, PlacingRun
    <3>2. st' = [st EXCEPT ![r] = "failed"] \/ st' = [st EXCEPT ![r] = "stopped"]
      BY <2>7 DEF Finish
    <3> QED
      BY <2>1, <3>1, <3>2
  <2>8. r \in Workers
    BY DEF Workers
  <2> QED
    BY <1>2, <1>4, <2>2, <2>3, <2>4, <2>5, <2>6, <2>7, <2>8 DEF Execute
<1>5. ASSUME NEW r \in Runs, StopRequest(r) \/ TimerFires(r) PROVE PastInv'
  BY <1>1, <1>5 DEF StopRequest, TimerFires, ctlVars, runVars
<1>6. CASE Signal \/ BenchStart \/ BenchEnds \/ ShutdownReturns \/ Exit \/ UNCHANGED vars
  BY <1>1, <1>6 DEF Signal, BenchStart, BenchEnds, ShutdownReturns, Exit, ctlVars, runVars, vars
<1> QED
  BY <1>3, <1>4, <1>5, <1>6 DEF Next

\* The runs from the one after the first b up to the e-th, oldest first.
RunsUpTo(b, e) == [i \in 1..(e - b) |-> b + i]

\* Reports lists the finished runs, the newest KeptReports of them.
LEMMA ReportsListed ==
    ASSUME TypeInv, PastInv
    PROVE  \E k \in Nat, m \in Nat :
               /\ { r \in Runs : st[r] \in {"stopped", "failed"} } = 1..k
               /\ m = IF k > KeptReports THEN KeptReports ELSE k
               /\ Reports = RunsUpTo(k - m, k)
<1>1. KeptReports \in Nat /\ KeptReports > 0 /\ MaxRuns \in Nat
  BY ConstantsOK
<1>2. current \in 0..MaxRuns /\ past \in Seq(Runs) /\ Len(past) \in Nat
  BY <1>1 DEF TypeInv, TypeOK, CtlTypes, NoRun, Runs
<1>3. CASE current = NoRun
  <2>1. { r \in Runs : st[r] \in {"stopped", "failed"} } = 1..0
    BY <1>1, <1>3 DEF PastInv, NoRun, Runs
  <2>2. past = <<>> /\ PastAndCurrent = past
    BY <1>2, <1>3 DEF PastInv, KeptBefore, PastAndCurrent
  <2>3. FinishedOf(past) = SubSeq(past, 1, 0)
    <3>1. 0 \in 0..Len(past) /\ 1..0 = {} /\ (0 + 1)..Len(past) = {}
      BY <2>2
    <3> QED
      BY <1>2, <3>1, FinishedFirst
  <2>4. Reports = <<>>
    BY <1>1, <2>2, <2>3 DEF Reports
  <2>5. RunsUpTo(0 - 0, 0) = <<>>
    BY DEF RunsUpTo
  <2> QED
    BY <1>1, <2>1, <2>4, <2>5
<1>4. CASE current # NoRun
  <2> DEFINE all == Append(past, current)
             k == IF st[current] \in {"stopped", "failed"} THEN current ELSE current - 1
             n == IF st[current] \in {"stopped", "failed"} THEN Len(all) ELSE Len(all) - 1
             out == SubSeq(all, 1, n)
  <2>1. current \in Runs /\ current \in Nat /\ current > 0
    BY <1>2, <1>4 DEF NoRun, Runs
  <2>2. k \in Nat /\ k <= current /\ k >= current - 1
    BY <2>1
  <2>3. { r \in Runs : st[r] \in {"stopped", "failed"} } = 1..k
    <3>1. ASSUME NEW r \in Runs PROVE st[r] \in {"stopped", "failed"} <=> r <= k
      <4>1. r \in Nat
        BY <1>1 DEF Runs
      <4>2. CASE r = current
        BY <2>1, <4>2
      <4>3. CASE r < current
        BY <2>1, <2>2, <4>1, <4>3 DEF PastInv
      <4>4. CASE r > current
        BY <2>1, <2>2, <4>1, <4>4 DEF PastInv
      <4> QED
        BY <2>1, <4>1, <4>2, <4>3, <4>4
    <3>2. 1..k \subseteq Runs
      BY <1>1, <1>2, <2>1, <2>2 DEF Runs
    <3>3. \A r \in Runs : r \in Nat /\ r >= 1
      BY <1>1 DEF Runs
    <3> HIDE DEF k
    <3> QED
      BY <2>2, <3>1, <3>2, <3>3
  <2>4. /\ all \in Seq(Runs) /\ Len(all) = Len(past) + 1
        /\ \A i \in 1..Len(all) : all[i] = IF i = Len(past) + 1 THEN current ELSE past[i]
    BY <1>2, <2>1
  <2>5. \A i \in 1..Len(all) : all[i] = current - Len(all) + i
    BY <1>2, <2>1, <2>4 DEF PastInv
  <2>6. Len(past) = IF current - 1 > KeptReports THEN KeptReports ELSE current - 1
    BY <1>4 DEF PastInv, KeptBefore
  <2> HIDE DEF all
  <2>7. n \in 0..Len(all) /\ Len(all) - n = current - k
    BY <1>2, <2>1, <2>4
  <2>8. FinishedOf(all) = out
    <3>1. \A i \in 1..n : st[all[i]] \in {"stopped", "failed"}
      <4> SUFFICES ASSUME NEW i \in 1..n PROVE st[all[i]] \in {"stopped", "failed"}
        OBVIOUS
      <4>1. CASE i = Len(all)
        BY <1>2, <2>1, <2>4, <2>5, <4>1
      <4>2. CASE i # Len(all)
        <5>1. i \in 1..Len(all) /\ i < Len(all)
          BY <1>2, <2>4, <2>7, <4>2
        <5>2. all[i] \in Runs /\ all[i] < current
          BY <1>2, <2>1, <2>4, <2>5, <5>1
        <5> QED
          BY <5>2 DEF PastInv
      <4> QED
        BY <4>1, <4>2
    <3>2. \A i \in (n + 1)..Len(all) : st[all[i]] \notin {"stopped", "failed"}
      BY <1>2, <2>1, <2>4, <2>5
    <3> HIDE DEF n
    <3> QED
      BY <2>4, <2>7, <3>1, <3>2, FinishedFirst
  <2>9. /\ out \in Seq(Runs) /\ Len(out) = n /\ n \in Nat
        /\ \A i \in 1..n : out[i] = k - n + i
    <3>1. out \in Seq(Runs) /\ Len(out) = n /\ n \in Nat /\ \A i \in 1..n : out[i] = all[i] /\ i \in 1..Len(all)
      BY <1>2, <2>4, <2>7
    <3> HIDE DEF out, n, k
    <3>2. ASSUME NEW i \in 1..n PROVE out[i] = k - n + i
      <4>1. out[i] = current - Len(all) + i
        BY <2>5, <3>1
      <4> QED
        BY <1>2, <2>1, <2>2, <2>4, <2>7, <3>1, <4>1
    <3> QED
      BY <3>1, <3>2
  <2> DEFINE m == IF k > KeptReports THEN KeptReports ELSE k
  <2>10. m \in Nat
    BY <1>1, <2>2
  <2>11. n <= k /\ m = IF n > KeptReports THEN KeptReports ELSE n
    <3> HIDE DEF n, k
    <3> QED
      BY <1>1, <1>2, <2>1, <2>2, <2>4, <2>6, <2>7
  <2>12. Reports = RunsUpTo(k - m, k)
    <3>1. PastAndCurrent = all
      BY <1>4 DEF PastAndCurrent, all
    <3>2. Reports = IF n > KeptReports THEN SubSeq(out, n - KeptReports + 1, n) ELSE out
      BY <2>8, <2>9, <3>1 DEF Reports
    <3> HIDE DEF n, k, out, m
    <3>3. RunsUpTo(k - m, k) = [i \in 1..m |-> k - m + i]
      BY <2>2, <2>10 DEF RunsUpTo
    <3>4. CASE n > KeptReports
      <4>1. SubSeq(out, n - KeptReports + 1, n) = [i \in 1..m |-> out[n - KeptReports + i]]
        BY <1>1, <2>9, <2>11, <3>4
      <4>2. \A i \in 1..m : out[n - KeptReports + i] = k - m + i
        BY <1>1, <2>2, <2>9, <2>11, <3>4
      <4> QED
        BY <3>2, <3>3, <3>4, <4>1, <4>2
    <3>5. CASE ~(n > KeptReports)
      <4>1. out = [i \in 1..n |-> out[i]] /\ m = n
        BY <2>9, <2>11, <3>5
      <4> QED
        BY <2>9, <3>2, <3>3, <3>5, <4>1
    <3> QED
      BY <3>4, <3>5
  <2> HIDE DEF k
  <2> QED
    BY <2>2, <2>3, <2>10, <2>12
<1> QED
  BY <1>3, <1>4

\* Reports is the newest KeptReports finished runs, oldest first, so a run followed at once
\* by the next is still picked up (Reports and Start, controller.go).
THEOREM ReportsAlwaysNewest == Spec => []ReportsAreNewest
<1>1. Init => TypeInv /\ OneUser /\ PastInv
  BY InitOneUser, InitTypeInv, InitPastInv
<1>2. TypeInv /\ OneUser /\ PastInv /\ [Next]_vars => (TypeInv /\ OneUser /\ PastInv)'
  BY StepTypeInv, StepOneUser, StepPastInv
<1>3. TypeInv /\ PastInv => ReportsAreNewest
  <2> SUFFICES ASSUME TypeInv, PastInv PROVE ReportsAreNewest
    OBVIOUS
  <2>1. PICK k \in Nat, m \in Nat :
            /\ { r \in Runs : st[r] \in {"stopped", "failed"} } = 1..k
            /\ m = IF k > KeptReports THEN KeptReports ELSE k
            /\ Reports = RunsUpTo(k - m, k)
    BY ReportsListed
  <2>2. KeptReports \in Nat /\ m <= k
    BY <2>1, ConstantsOK
  <2>3. /\ DOMAIN Reports = 1..m
        /\ \A i \in 1..m : Reports[i] = k - m + i
    BY <2>1, <2>2 DEF RunsUpTo
  <2>4. { Reports[i] : i \in DOMAIN Reports } = (k - m + 1)..k
    <3>1. ASSUME NEW r \in (k - m + 1)..k PROVE \E i \in 1..m : r = k - m + i
      <4>1. r - (k - m) \in 1..m /\ r = k - m + (r - (k - m))
        BY <2>2, <3>1
      <4> QED
        BY <4>1
    <3>2. \A i \in 1..m : k - m + i \in (k - m + 1)..k
      BY <2>2
    <3> QED
      BY <2>3, <3>1, <3>2
  <2>5. ASSUME NEW r \in 1..k PROVE Cardinality({ q \in 1..k : q > r }) = k - r
    <3>1. { q \in 1..k : q > r } = (r + 1)..k
      BY <2>5
    <3>2. Cardinality((r + 1)..k) = IF r + 1 > k THEN 0 ELSE k - (r + 1) + 1
      BY FS_Interval
    <3>3. Cardinality((r + 1)..k) = k - r
      BY <2>5, <3>2
    <3> QED
      BY <3>1, <3>3
  <2>6. { r \in 1..k : Cardinality({ q \in 1..k : q > r }) < KeptReports } = (k - m + 1)..k
    <3>1. \A r \in 1..k : Cardinality({ q \in 1..k : q > r }) < KeptReports <=> r > k - m
      BY <2>1, <2>2, <2>5
    <3> QED
      BY <2>2, <3>1
  <2>7. \A i, j \in DOMAIN Reports : i < j => Reports[i] < Reports[j]
    BY <2>2, <2>3
  <2> QED
    BY <2>1, <2>4, <2>6, <2>7 DEF ReportsAreNewest
<1> QED
  BY <1>1, <1>2, <1>3, PTL DEF Spec

-----------------------------------------------------------------------------
(* The runs of MCRuns, for any constants. *)

\* "stopped" has the behaviours of Controller.
LEMMA StoppedAreRuns == StoppedSpec => Spec /\ [](instance = "stopped")
<1>1. (instance = "stopped") /\ [MCNext]_mcVars => (instance = "stopped")' /\ [Next]_vars
  BY DEF MCNext, mcVars
<1> QED
  BY <1>1, PTL DEF StoppedSpec, Spec

\* No run ends without a reason, whoever asked it to stop (requestStop and stopReason).
THEOREM StopReasonGivenAlways == StoppedSpec => []StopReasonGiven
<1>1. StopReasonKnown => StopReasonGiven
  BY DEF StopReasonGiven
<1> QED
  BY <1>1, StoppedAreRuns, StopReasonAlwaysKnown, PTL

\* Reports is the newest finished runs, oldest first (Reports, controller.go).
THEOREM ReportsKeptAlways == StoppedSpec => []ReportsKept
<1>1. (instance = "stopped") /\ ReportsAreNewest => ReportsKept
  BY DEF ReportsKept
<1> QED
  BY <1>1, StoppedAreRuns, ReportsAlwaysNewest, PTL

\* Once no execute goroutine is left the process has all its CPUs back (Pin and Unpin).
THEOREM CpusGivenBackAlways == StoppedSpec => []CpusGivenBack
<1>1. (instance = "stopped") /\ CpusReleased => CpusGivenBack
  BY DEF CpusGivenBack
<1> QED
  BY <1>1, StoppedAreRuns, CpusAlwaysReleased, PTL

=============================================================================
