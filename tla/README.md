# fru-lab in TLA+

TLA+ specifications of **fru-lab**: the 5G core load tester `src/tester` (Go), the web
backend that deploys cores and lists testers, and the web frontend an operator works with.
The modules beside this file model the parts with state and concurrency of their own; TLC
checks them on small instances, and TLAPS proves their invariants, action properties and
refinements for every size.

Contents: [the system](#the-system) · [hard behaviours](#hard-behaviours) ·
[modules](#modules) · [runs](#runs) · [fairness](#fairness) · [proofs](#proofs) ·
[findings](#findings) · [observations](#observations) · [not modelled](#not-modelled)

## The system

fru-tester runs on a machine next to a 5G core. An operator starts a *run* from the web
page: simulated gNBs connect to the AMF, their UEs register and get PDU sessions,
throughput UEs send traffic, control-plane UEs register and deregister over and over,
until Stop; then everything is deregistered, closed, and the machine's network
configuration is put back. fru-lab's web backend keeps the list of testers, their
profiles and the history of their runs, and deploys cores, gNBs and UEs with docker
compose. The web frontend is a single page application: each page polls, or keeps a stream
open, and sends the operator's clicks; several browsers may do so at once.

| component | state it keeps | operations | talks to | must hold |
|---|---|---|---|---|
| **run controller** `tester/run/controller.go`, `ping.go`, `addr.go`, `cpus.go` | the current and the past runs, a ping in progress, each run's state, stop reason, contexts, addresses and routes to undo, the stored CPU allocation | Start, Stop, Ping, SetCpus, Reports, Shutdown; the goroutine `execute`; the maximum-duration timer | the API calls it; it calls netcfg, cpuset, dataplane, pipeline | one user of the host at a time; the host as it was afterwards; every run asked to stop ends; the reports are the newest |
| **pipeline** `controller.go` (runN2 … closeConns), `pipeline.go`, `cploop.go` | a dispatcher, a queue and attempts in flight per stage; each gNB's connection and each UE's progress; countdowns; the stage cards | N2 setup, registration, PDU session, the control-plane cycle, deregistration, closing; retry; watchAssociation | rrQueue, gnb, procedure, metrics | each UE in one place; counted once; done after Stop; nothing left open |
| **rrQueue** `rrqueue.go` | one FIFO per gNB, the ring of gNBs, a wake-up channel | push, pop, drain | pushed by attempts, popped by one dispatcher | no UE or wake-up lost; a gNB waits at most one round |
| **stage cards** `metrics/stage.go` | counters and histogram of a stage | Begin, Retrying, Finish, Skip | pipeline, run page | finished + skipped reaches the expected number; figures read at different moments still agree |
| **gnb**, **procedure** `gnb/association.go`, `procedure/procedure.go` | one SCTP association, its UEs' buffers | Run, deliver, Close; register, PDU session, deregister | AMF | a lost answer leaves tester and core able to go on |
| **dataplane** `dataplane/*` | sockets, shards of flows, a sender per shard, readers, counters per worker, the rate curve | Start, AddUE (with a timer), pace, receive, sample, Stop | controller, pipeline | every UE sent for; the newest sequence number never goes back; counters complete and the curve whole after Stop |
| **api** `api/api.go` | a connection's stream position | HTTP handlers, the run's event stream | controller, bench, pages | a waiting stream has sent the run as it is |
| **bench** `bench/bench.go` | the running benchmark | Start, Status | controller, bench page | refused during a run |
| **cmd** `cmd/root.go` | the process's life | serve | controller, HTTP server | a signal ends the process with the host restored |
| **cpuset, netcfg, profile, config, hoststat** | none (files, the kernel) | pinning, addresses, the expansion of a profile into a plan | controller | plans avoid the host's addresses |
| **deploy** `web/backend/internal/processor/deploy.go` | none: compose projects and their containers | DeployUp, DeployDown, statuses, UE deployments | docker, dashboard | nothing runs on a core that is down |
| **testers, profiles, history, images, accounts** `web/backend/internal` | records in bbolt; docker's images; a session key | CRUD, polls, pulls, login | pages, testers, docker | see the pages below |
| **run page** `TesterRunPage.tsx` | the snapshot shown, the page and filter of its table, one WebSocket and its retry timer | the stream, paging, Stop, following the URL | api | one stream, of the tester shown; what is shown ends up true |
| **dashboard** `DashboardPage.tsx` and its hooks | the polled statuses, an action under way per target, what is selected | Deploy, Stop, Tear down, UEs' deploy and stop, the topology, a terminal | deploy | actions kept apart; cards and buttons recover |
| **setup page** `TesterSetupPage.tsx`, `InterfaceField`, `PingTest` | the form, the profile open, a validation under way, the host's interfaces | edit, save, rename, delete, open, start, ping | profiles, testers | a verdict is of the form beside it |
| **tester pages** `TesterStatusPage`, `TesterCpus`, `TesterBenchPage`, `TesterRunsPage`, `TesterProfilesPage`, `TesterHistoryPage` | lists, ticks, polls under way, an edited CPU allocation | poll, add, remove, save, delete, start, compare, report | testers, profiles, history | late answers undo nothing; what is ticked is listed |
| **subscriber pages** `Subscribers*`, `subscriberForm.ts`, `bulk.ts` | the list with its search, ticks and deletions; the form's rows | create, edit, delete, in bulk by eight workers | free5GC's webconsole | a subscriber read back is the one saved; each item once |
| **images, logs** `ImagesPage.tsx`, `LogsPage.tsx` | actions under way per image; the source selected | pull, clear; fetch | images, deploy | one action per image; the source a link named stays |
| **session, clients, layout, messages** `apiClient.ts`, `webconsoleApiClient.ts`, `AppLayout`, `useNotifications.ts` | two tokens, a badge, messages with timers | login, logout, retry after a 401 | accounts, webconsole | an expired session is left; requests heal |

## Hard behaviours

In `tester/run` a run is a goroutine, each of its four stages is a dispatcher goroutine
with one more per attempt, each gNB has a watcher, and Start, Stop, Ping, Shutdown, a timer
and the core itself interfere at any step. In the frontend every request is answered
whenever it is, and the page has gone on by then. The hazards are listed one by one, at
their lines, in `PROJECT.json`; the classes are

* checks made under a lock and acted on after its release (Start, SetCpus, the bench,
  Shutdown, Stop, and the compose commands of the backend);
* partial failure and Stop in the middle of changing the host's addresses;
* a Stop that cuts through hand-overs of UEs between stages, retries and countdowns;
* answers that are lost or come too late, so that tester and core disagree;
* lost wake-ups and unfair turns in the queue, and a change that falls between the
  snapshot and the wait of a stream;
* lock-free sharing in the data plane: a list and its version, a compare-and-swap by
  several readers, counters published batch by batch, samples read outside the lock;
* pages that read before an await and write after it: overlapping polls, lists and
  deletions, validations of a form edited meanwhile, timers that outlive what set them;
* conversions that must come back: a subscription's rows, a CPU list, a page of a table
  that shrinks, the places of boxes in a drawing.

## Modules

| module | what it is |
|---|---|
| `HostLease` | abstract: the host's network configuration is leased to one user, who returns it as it was unless the kernel refuses an undo |
| `Controller` | API requests, `execute` goroutines, timer, shutdown, ping, CPUs; implements `HostLease` |
| `Pipeline` | one run between its configuration and the removal of its last address |
| `TurnQueue` | abstract: FIFO per gNB, gNBs in turn |
| `RRQueue` | `rrQueue` with ring, reclaiming and wake-up channel; implements `TurnQueue` |
| `Dataplane` | the traffic engine over UDP sockets: activation, senders, readers, sampler, Stop |
| `RunPage` | the run page's stream: the browser's sockets, the tester's `handleStream`, runs that change |
| `Lab` | the dashboard's actions and polls, `deploy.go`, the containers |
| `Topology` | what the dashboard draws from three polled lists, the selected node, a UE's terminal |
| `SetupPage`, `HostChecks` | the test plan's form with its saved profiles; the interface menus and ping tests beside it |
| `TesterFleet`, `TesterPanel`, `Cpus` | the list of testers; one tester's polls and CPU allocation; the CPU lists themselves |
| `Bench`, `Runs`, `Profiles`, `History` | the pages of these names |
| `Figures`, `Charts` | the run page's figures over counters read one after another; axes, cursor and halving of its charts |
| `Bulk`, `Subscribers`, `SubscriberForm` | `runLimited`; the subscribers' list; the form and its conversions |
| `Images`, `Logs`, `Session`, `Notifications` | the pages and services of these names |
| `MC*` | instances for TLC |
| `Ranked` | operators: numbers in their order, the elements of a sequence at some places, sequences one after another |
| `SumTheorems` | lemmas: the least number of a set, induction over numbers and finite sets, sums, and what `Ranked`'s operators return |
| `ControllerProofs`, `OutcomeProofs` (on `Pipeline`), `RRQueueProofs`, `DataplaneProofs`, `RunPageProofs`, `PageProofs` (on `MCPages`), `DrawnProofs` (on `PageProofs` and `Lab`) | theorems |

**Controller.** A request handler (`Callers`) and a run (`Runs`, numbered in the order
they were started) are *workers* with a program counter `pc`. The steps are the code's
atomic regions: what one holds of `Controller.mu` or `run.mu`, or one call into the
kernel. `StartCheck`/`StartValidate`/`StartAllocation`/`StartCommit` are Start, split
where it holds no lock; `StartCommit` also shifts `past`. `Pin … Done` are `execute` from
top to bottom with its deferred calls last. `placeAddr` is `PlaceTake` and `PlaceAdd`
because the host's own address is off the interface between the two, and `undo` is
`UndoRemove` and `UndoPutBack`. A ping test runs the same four actions. `StopRequest(r)`
is Stop; it reads `current` and the state before it acts, so it may act on a run that
has gone on since. `added` is `run.added`; `taken` is the local variable holding an entry
that is off the host. `hostBefore` and `routeBefore` are history variables. The plan is
*any* sequence of distinct IPs that `Expand` may return: none is the sink's, and none is
on the host at the time Validate looks.

**Pipeline.** `loop[s]`, `held[s]`, `queue[s]` and `flight[s]` are a stage's dispatcher,
the item it has popped, its queue and its attempts in flight. runN2's loop is the same
dispatcher over gNBs. `BeginAttempt` … `DeregRetry` are the attempts' ends, each with
everything the code does there: the card, the UE's state, the link, the countdown, the
next stage's queue, the failure list. `left` holds runN2's, `tpLeft` and deregisterAll's
countdowns. Items leave a queue in any order (`RRQueue` has the order). What the core
holds is in `core`: a failed or timed-out attempt may have reached it or not. Pacing is
time and left out.

**RRQueue.** `Push` is push up to its unlock and `Signal` its non-blocking send; `TryPop`
and `Wake` are the two halves of pop. `turns` is a history variable for `OneRound`.
`Reclaim` stands for 1024.

**Dataplane.** `activation[u]` is how far AddUE, its timer and activate have come with a
UE; `ActivationOrder` is the order of activate's stores, of which `shard.add` is two (the
append under the lock, the version after it). `Tick`/`Load`/`Add`/`Flush`/
`SenderPublishes` are a sender's `pace` and `batcher`, split where it touches something
shared; `Read`/`Receive`/`CompareAndSwap`/`ReaderPublishes` a reader's loop. A worker counts
in `acc` and publishes to `stats`, as the code does. `TakeRead`/`TakeCommit` are takeSample,
run by the sampler and by Stop, without a lock in between. `Extended` is `history.add`. How
many packets a tick allows and whose turn it is are any choice, as are what the kernel
refuses, what the UPF loses (packets nobody ever reads), reorders or sends down a wrong
tunnel. A packet is never duplicated. `seen` is a history variable. A sequence number
stands for one of fewer than 2^32. The AF_XDP engine shares `core` and is not modelled
separately.

**RunPage.** A connection (`conn`) holds both ends: the browser's socket (`state`, and
`mine` unless the page closed it), the frames and page requests on their way, and the
tester's sending goroutine: where it is (`pc`), the page it has taken, the notifications
it has. `Captured` is the order `handleStream` depends on: the channel of the next change,
the page wanted, and only then the snapshot. `Render` contains `RunBody`'s effect, which
goes back to the last page when a table shrinks; `Visit` is a new URL with the cleanups of
both effects. A run's own life is reduced to the states the page shows.

**Lab.** `host` is what runs, `card` what the page believes. A click becomes a call with
steps of its own: `Checked` is the backend's look at the dependency order, `UpEnds`,
`DownEnds` the slow compose command, and `TargetEnded`, `UeEnded`, `StopAllEnded` the page's
continuation, which reads the status again and takes its flag back. Tear down (`GoOn`)
works through the plan it made of the cards when it was clicked. A status may be kept and
answer later (`PollLate`, `LateAnswer`). Compose commands fail as they please.

**The other pages.** Each module has the page's state hooks by their names, one set of
requests under way, what the other side stores, and a counter of what has happened
(`…Events`), which bounds the instance. An answer is a message taken from the set in any
order; where React's effects drop an answer (a cleanup sets `ignore` or `cancelled`) the
request is dropped, and where they do not, it lands. `Figures`, `Charts`, `Cpus`,
`SubscriberForm` and `Topology` are mostly functions, translated as operators, with the few
actions that feed them.

How the modules fit: `Controller`'s step `N2Returns` and `Cleanup` stand for what
`Pipeline` details; `StartDataplane` and the `engines` it opens are a `Dataplane`, whose
`AddUe` is what follows `Pipeline`'s `PduAccepted`; `Pipeline`'s queues are `RRQueue`s seen
as bags, and `RRQueue`'s assumption that no UE is pushed while it is queued is `Pipeline`'s
`OnePlace`; `RunPage` shows the states `Controller` goes through, and `Figures` the cards
and states of `Pipeline`; `Charts` draws what `Dataplane`'s `Extended` keeps;
`Subscribers` and `SubscriberForm` each contain a `Bulk`.

## Runs

| run | checks | shows |
|---|---|---|
| `controller_host` | `TypeOK` `OneUser` `HostKept` `EngineHasAddresses` `ImplementsLease` | two clients start, stop, ping and bench on every host with up to two IPs in two prefix lengths: one user at a time; the host restored after a Stop or a failure at any step, and a replaced address always on record; the data plane only with all its addresses |
| `controller_runs` | `StopReasonGiven` `ReportsKept` `CpusGivenBack` `StopsEnd` `RequestsReturn` | two instances. *stopped*: a timer, a second Stop, a signal and undos the kernel may refuse, under fairness. *edited*: three runs with allocations changing in between: the report list is exactly the newest in order, and pins never outlive the last goroutine |
| `pipeline` | `OnePlaceEach` `NothingLeft` `AllDoneWhenStopped` `CyclesAfterLoad` `RunsEnd` | two instances. *load*: two throughput UEs on one of two gNBs, two attempts in flight, registrations retried. *cycles*: a throughput and a control-plane UE on a gNB that may be lost, N2 setups, PDU sessions and deregistrations retried, under fairness |
| `rrqueue` | `TurnsKept` `NoSleepOnWork` `AllHandedOut` `ImplementsTurnQueue` | three gNBs, four UEs, two pushers, the ring's front reclaimed beyond two turns |
| `dataplane` | `NewestSeen` `OwnPacketsKnown` `NoFlowBehind` `NothingUncounted` `HaltedAtOnce` | a UE activated while senders, two uplink readers and the sampler run and Stop comes at any moment; no deadlock, so Stop never waits for a worker that cannot end |
| `run_page` | `OneStreamAtMost` `PageExists` `NoChangeMissed` `EndIsSeen` | two testers, connections that drop and come back, a run that starts, changes and ends while the user pages, filters, stops it and goes to the other tester |
| `lab` | `ActionsApart` `CardsCatchUp` `TargetsFreed` | the core in two templates, a gNB of each kind and a UE, deployed, stopped and torn down with statuses that answer late and commands that fail |
| `pages` | `ItemsOnce` `TicksAreListed` `FormsHold` `DrawnRight` `NothingLost` `NothingUndone` | fourteen pages and panels, one open at a time, with answers in any order and other browsers saving and deleting: each item of a bulk action once; what is ticked is listed; forms and what comes back of them; drawings that fit; nothing stored is lost, nothing set undone |
| `panels` | `SessionHeals` `OutageHeals` `PagesSettle` | session, tester panel, bench and runs page under fairness: an expired session is left, a webconsole that restarted is used again, and the pages end up showing the testers as they are |
| `controller_bug_exit`, `pipeline_bug_failures`, `lab_bug_gnb` | one property each | the [findings](#findings) |

`MCPages` and `MCPanels` hold the page modules as instances over one pool of variables
`s1 … s19`: a page makes its state anew when it is opened, so the pages take turns with the
variables, and which one is open is chosen in `Init`. A property of these modules is a
conjunction with a line per page; the names there lead to the page's own definitions.
`MCRuns` and `MCPipeline` choose one of two instances in the same way.

**Bounds.** `MaxRuns` (1 for everything about one run, as runs only meet through `current`,
`past` and the CPUs; 3 with `KeptReports` 1 for those, so that the list is cut twice);
`PlanLen` 1 or 0 gNB addresses besides the sink, enough for a failure before, between and
after two changes; two IPs and two prefix lengths, so that the sink can be absent, there
as wanted, or there with another length, while the plan's address is free or not. Retries
are 0 or 1 and attempts in flight 1 or 2: a retry and a rival at each stage. A control-plane
UE cycles without bound; every counter of the model is bounded by the numbers of items.
`Reclaim` is 2, so the ring is cut often.
`Dataplane` has one UE and one sender per direction, since senders share nothing but what
activate and Stop do to each; two uplink packets in batches of two and two readers of
them, the least for a late packet and for a compare-and-swap that fails; one tick of the
sampler before Stop's, with a curve of two points, so that it is halved.
`RunPage` has two gNBs in pages of one (a table that shrinks from two pages to one), two
sockets (one the page has closed and one it has not), one frame on its way in each
direction, and three events of the network, the runs and the user; the stream itself goes
on for ever. `Lab` has `LabEvents` 2 clicks, failures or deletions and one late answer: two
actions that pass each other. The pages have two to five events each, the number at which
the shortest sequence a mutant needs was found and one more of its actions fits;
lists of three items shown two at a time, so that a deletion can empty a page; `Limit` 2
for `runLimited`'s eight workers, less than the items there are. `Topology` draws every
template with every list of services that can be read while one of them is `Watched`, and
the user selects one of three: one that may be missing, one that a template lacks and one
that is listed and not drawn (`Clicked`).
`Charts` goes through a table of times, peaks and widths on both sides of each threshold,
240 to 300 s among them, where a narrow plot's step changes. What the pages range over is in
`Pages.cfg`, so the theorems about them are for any such values; the run takes two to three
minutes.

`controller_host` permutes clients and IPs, which no definition tells apart; no run with
liveness uses symmetry. Deadlock is checked for `Dataplane`, whose end is a step
of its own, and not elsewhere: a system whose runs are used up, whose process has
exited, whose run has stopped or whose user has done what the bound allows does stop; that
it does not stop too early is what the liveness properties say.

## Fairness

Weak fairness of every handler and of every goroutine of a run, one by one: the Go
scheduler runs whatever is ready, and no step waits for an event that may not come, except
those the guards name. Attempts end because each has a timeout
(`context.WithTimeout` with the stage's timeout); so does a ping test (at most 3.4 s,
below the 5 s `srv.Shutdown` grants handlers, which is why `Exit` may wait for them).
Nothing is assumed about the environment: requests, signals, the timer, Stop and a lost
association may come or not. `RRQueue` alone has a strong fairness condition, on `Drain`:
its pushers stand for attempts of a stage whose dispatcher has gone, which come to an
end, so drain's condition that none is between unlock and signal cannot be denied forever.

For the pages: a timer that is set fires, a request that was sent is handled, and its answer
(or its failure) arrives; a compose command ends; the sender, the reader and the ticker of a
stream run, and the browser delivers what has arrived. Nobody has to click, a run may stay as
it is for ever, and a poll may fail any number of times: where recovery depends on the
tester answering again, that is the premise of the property (`OutageHeals`).

## Proofs

`ControllerProofs` proves, for any numbers of clients, runs, addresses and allocations
that satisfy `ConstantsOK`:

* `TypesCorrect`: `Spec => []TypeOK`. The inductive form is `TypeInv`, which adds
  `SinkKnown`: a worker that is placing or undoing an address has chosen one, without
  which `PlaceAdd`'s entry would have no type.
* `OneUserAlways`: `Spec => []OneUser`, the statement that Start's two checks and Ping's
  are enough. `OneUser` is inductive together with `TypeInv`: a step that makes a run
  active or a ping begin is guarded by `~Busy` in the same atomic step, and a run leaves
  its placing phases only in `Finish`, the step that makes it inactive.

On these two rest:

* `HostKeptAlways`: `Spec => []HostKept`. Neither half is inductive. `LeaseInv` adds
  `RecordInv` (records exist only where `execute` is between its first change and its last
  undo), `RouteInv` (a recorded route was not there before) and `HostInv`: the host is what
  one gets from `hostBefore` by making the recorded changes one after another, less the
  address that is off at the moment. That chain of hosts (`IsChain`) grows by one in
  `PlaceAdd` and shrinks by one in `UndoRemove`, so an undo that runs to its end arrives at
  `hostBefore`, whatever was recorded.
* `HostIsLeased`: `Spec => ImplementsLease`, the refinement of `HostLease`, from the same
  invariant: a step that takes the lease finds the host unleased, one that gives it back
  finds it restored or refused, and every other step is the holder's or does not show.
* `EngineAlwaysHasAddresses`: `Spec => []EngineHasAddresses`. `EngineInv` says it of
  the steps on the way: once the configuration has gone through, every address it added is
  on the host, also while a Stop waits to be noticed.
* `StopReasonGivenAlways`: a run that is stopping or stopped says why. `StopInv` follows
  the reason from the step that cancels `ctx`: whoever sets `ctxDone` has set the reason in
  the same step, and `execute` is past its first phases only if it failed or was cancelled.
* `CpusGivenBackAlways`: with no execute left, the process has all its CPUs. `CpusInv`: while the
  process is pinned, some run that pins is still on its way to `Unpin`. The next run can
  start while the last one is before its unpin, so it is not the active run that has to be.
* `ReportsKeptAlways`: Reports is the newest `KeptReports` finished runs in order. `PastInv`
  gives `past` in closed form, the runs before `current` by number, as many as are kept;
  Start's append and cut takes that list for one run to that list for the next.

The last three are stated of `MCRuns` as that module's run checks them, for its *stopped*
instance (`StoppedSpec`), which is `Controller` with the constants as they are, whatever
they are. *edited*, the same module with three runs, stays with TLC there.

`OutcomeProofs` proves, for any gNBs, UEs, retries and limits that satisfy `PipelineOK`:

* `OnePlaceAlways`: `Spec => []OnePlace`. `OnePlace` says nothing of which stage an item
  is in, so it is not inductive. `LoopInv` is: an item is in at most one place of one
  stage (`OnceInv`), of a stage for its kind (`KindsInv`); a throughput UE is nowhere
  before its gNB is up (`WaitInv`), so `N2Up` may queue it; a dispatcher that has not
  started or has returned holds nothing (`IdleInv`), and each phase has its dispatchers
  (`PhaseInv`), so `deregisterAll` may queue every UE. `CycleInv` adds that a
  control-plane UE in the middle of a cycle has its attempt. Most steps add nothing
  to any place; the four that do (`Moves`) have a lemma each.
* `ConnsClosedAlways`: `Spec => []ConnsClosed`. An open association is in `conns`, or its
  watcher or closeConns has taken it (`ConnsInv`).
* `LoadBeforeCyclesAlways`: `Spec => []LoadBeforeCycles`, by counting: each step that gives
  UEs their outcome takes as many off `tpLeft` as it takes out of `Unfinished` (`LoadInv`).
* `FailedAreListedAlways`: `Spec => []FailedAreListed`. A failed UE is in no stage but
  deregistration (`FailedIsDone`), whose states `setCleanupState` keeps from it.
* `CleanedUpAlways`: `Spec => []CleanedUp`. A UE with a link has a gNB whose watcher runs
  (`UpInv`), whose association is alive until closeConns unless the AMF ends it
  (`AliveInv`); so it is queued for deregistration, and stays in that stage while it has
  its link (`LinkInv`). `CoreInv` follows who is reported deregistered.
* `CountedOnceAlways`: `Spec => []CountedOnce`. `CountInv` says of each card which items are
  yet to be counted on it (`Uncounted`), by what the code asks before it counts: a gNB's
  state, `regDone`, `pduDone`, the stage of the cleanup. A step moves a card's numbers by
  as many as it takes out of that set and out of the attempts under way (`CardMoves`),
  whichever attempt ends, is retried or skipped.
* `DoneWhenStoppedAlways`: `Spec => []DoneWhenStopped`. `EndInv`: `registered` counts the
  control-plane UEs in `hold` and `deregister`, and from skipUnfinished on every UE has its
  last state or is queued to be deregistered.
* `RunsAreTyped`: `Spec => []TypeOK`, where the point is that n2Round.left, tpLeft and
  deregisterAll's left never go below zero: each is the number of those still awaited
  (`LeftInv`, `LoadInv`).

The four properties of the `pipeline` run follow for its *cycles* instance (`CyclesSpec`):
`OnePlaceEachAlways`, `NothingLeftAlways`, `AllDoneWhenStoppedAlways`,
`CyclesAfterLoadAlways`. That instance is `Pipeline` with the constants as they are; *load*
is the same module with other gNBs and UEs.

`RRQueueProofs` proves `TurnsAlwaysKept`, `NeverSleepsOnWork` and the refinement
`QueueOfTurns` of `TurnQueue`, for any gNBs, UEs, pushers and reclaiming bound. `QueueInv`
relates ring, head and FIFOs; the wake-up needs that a pusher before its signal, a token
in the channel or a dispatcher that has not tried yet accounts for every UE queued.

`DataplaneProofs` proves, for any UEs, shards, readers and bounds that satisfy `DataplaneOK`:

* `TypesAlways`: the types of everything but counters and samples, with `CasHolds`: a
  reader at its compare-and-swap holds a packet newer than the number it loaded.
* `NewestSeenAlways`: `Spec => []NewestSeen`, inductive with the types: a successful swap
  replaces a number that is the newest by a newer one, and a packet is called late only
  against a number that is at least its own.
* `OwnPacketsKnownAlways`: `Spec => []OwnPacketsKnown`. The inductive form `FlowsStored`
  follows a flow from `StoreFlow` through shard, sender and batch to the network.
* `NoFlowBehindAlways`: `Spec => []NoFlowBehind`. The inductive form `VersionsBehind` says
  that a sender's version is never ahead of its shard's and that a flow is in the list
  before the version counts it; hence a bump leaves every sender behind, and it reloads.
* `HaltedAtOnceAlways`: `Spec => HaltedAtOnce`, an action property: once Stop's wait for the
  senders is over nothing is built or sent. `StopOrderAlways` has who is gone at each of
  Stop's steps.
* `PacketsOnceAlways`: a packet is with its sender, on its way, with one reader, or handled,
  and in one of these places only. It rests on `OwnFlows`, that a UE's packets are built by
  one sender (`shard.add` has picked it), and that numbers are given in order.
* `CountsAgreeAlways`: at every step what the senders have built, by their published
  counters, their accumulators and what they hold, adds up to the numbers given out
  (`BuiltKept`); what the readers have checked adds up to the packets handled
  (`CheckedKept`). A worker's accumulator is empty where it does not count (`CountsKept`),
  so nothing is lost between it and `stats`.
* `CurveKeptAlways`: the samples of the sampler and of Stop are taken one after the other
  (`SamplesOrdered`), and the curve's points, the one being filled and the ones that a
  halving has added up, come to what was sampled since the first (`CurveKept`).
* `NothingUncountedAlways`: `Spec => []NothingUncounted`, the four together at the end of
  Stop, for any number of senders, readers and UEs.

`SumTheorems` has what counts, lists and forms need. The library's induction theorems are of
no use here, as they take an operator; its theorem on well-founded *sets* is. `LeastNat` gives
the least number of a set of numbers from it, `NatsAll` and `SetsByOne` inductions in which
what is proved is a set, too. `FoldFunctionOnSet` expands to a recursive function; `AdderAdds`
shows that it exists by the same induction, `SumTake` and `SumAt` what one addend changes.
Sorting, filtering and flattening are stated in `Ranked` without recursion, by how many come
before an element; its lemmas say that every rank is taken once, so that what is picked or put
one after another is all there, in order and once (`RunsThrough`).

`RunPageProofs` proves, for any testers, sizes of table and page, and sockets:

* `RunPageTypes`: `Spec => []TypeOK`.
* `OneStreamAlways`: `Spec => []OneStreamAtMost`. `OneStream` needs `MineInv` beside it: a
  connection that may still carry frames is the page's, one that is closing is not, so a
  late `onclose` of a socket the page closed sets no second timer.
* `NoChangeIsMissed`: `Spec => []NoChangeMissed`. The inductive form `Settled` adds that
  the page a sender took is the one asked for last, unless it is still to be told of
  another.
* `PageAlwaysExists`: `Spec => []PageExists`.

`PageProofs` proves of the pages in `MCPages`, for any items, searches, size of page,
workers and bounds that satisfy `PagesOK`:

* `EachItemOnceAlways`: runLimited, by itself. The items taken are exactly those below the
  shared index, and only workers that have ended have none (`BulkInv`).
* `ItemsAlwaysOnce`: `Spec => []ItemsOnce`. `PoolInv` carries `BulkInv` through everything
  else the subscribers' pages do; `SubsInv` adds that the items of a deletion are as many as
  its targets, so the ticks a bulk deletion leaves are subscribers. That rests on the list's
  sort and pages: `RankTaken` says that every rank from 0 has a subscriber, `SortedOK` and
  `PageOfOK` what follows for the rows. `ImagesInv` adds to `OneActionPerImage` that while
  the question to clear is open no action is under way on what it is about.
* `TicksAlwaysListed`: `Spec => []TicksAreListed`. The profiles' part is inductive by itself.
  `HistoryInv` adds that a run is ticked once and only from a list that has been read, that
  two are ticked while they are compared, and that a run's report is asked for once at a
  time; `FleetInv`, that statuses are asked only of testers the list has.
* `NothingEverLost`: `Spec => NothingLost`, an action property of three pages. While a bulk
  action runs, what it has done without failing is gone (`SubsKept`) or stored (`ManyKept`);
  its last step is taken when no worker has an item left, and `PoolEnded` says that then
  every item is done. On the setup page the save's answer and the start it leads to are one
  step, so the action under way needs only to keep its fields (`OpFields`).
* `FormsAlwaysHold`: `Spec => []FormsHold`. `SetsInv` puts together an invariant of each page
  with a form. `SetupInv`: a validation that may still count is of the form as it stands, and
  no profile is open while their list is loading. `HostInv`: the menu is there, or on its way.
  `RowsInv`: every stored subscription is what `ToSubscription` made of some rows; that they
  come back is `SubscriptionsReopen`. `CpusInv`: what is saved was written from two sets
  of CPUs without a CPU in common; that it reads back as those sets is `CpuListsReadBack`.
* `SubscriptionsReopen`, of any rows a subscription has room for, not only those a run reaches:
  `fromSubscription` takes them back from what `toSubscription` made of them. Every slice and
  each of its DNNs is listed where its row is (`SlicesOK`), so the rows that come back are the
  ones that went in, each once and grouped by slice (`WasOK`); a rule's slice, DNN and number
  are no other rule's, so it is joined with its own QoS and charging (`JoinedOK`).
* `CpuListsReadBack`, of any set of CPUs: the runs `FormatCpus` writes start where a CPU has
  none before it and end before the next gap; what they cover is the set.
* `NothingEverUndone`: `Spec => NothingUndone`, an action property. `Undoes` is what one step of
  the open page keeps; a click's CPUs before and after are compared through
  `CpuListsReadBack`.

`PagesOK` and its companions in `MCPages` are what those proofs assume of the constants: finite
sets of items and UEs, at least one row per page and one worker, a tester that is built in,
values told from `None` (`NoneOK`, `RowsAreOK`, `NoListOK`), curves with an even number of
points, times and rates in reach of the powers of two and of ten the charts are made of
(`ChartsOK`), and the lengths of the drawn names, of which the provers know none
(`LettersOK`). TLC evaluates them in every run of the module.

`DrawnProofs` goes on from there with what the pages draw, and with the dashboard's actions:

* `DrawnAlwaysRight`: `Spec => []DrawnRight`. For the charts (`ChartInv` is a matter of types)
  the work is in `AxesOK`: the grid's steps are 1, 2, 2.5, 5 and 10 times a power of ten, the
  time axis's are the code's table, and the least that fits follows from the one before it,
  which did not (`StepsBefore`). For the figures, `FigInv` says which UEs each counter
  of a card counts. The card of a stage counts a UE before the UE's state says so, and states
  stand still while the run is locked, so the counts read one after another still bound each
  other (`SnapFits` while the snapshot is made, `ShownFits` once it is shown).
* `BoxesNeverMeet`: the drawing's boxes, its frame and its lanes (`DrawnApart`), in every state
  of the topology, also where UEs are listed, where `DrawnRight` leaves them to the run
  without. `TopoInv` has the lists the page has polled; from there on it is arithmetic with the
  widths of the names: a box on the bus starts beyond the sum of the widths before it
  (`BusApart`), and every other one has its spot by template (`PlaneApart`).
* `ActionsAlwaysApart`: `LabSpec => []ActionsApart`, for any subscribers and templates.
  `ActionsApart` counts calls and is not inductive: an answer frees a button, and
  a second call on the same thing would still be under way. `CallsApart` says, until Tear down is
  clicked, that no two calls are on one thing, that a call's button is taken and that none
  was asked by Tear down; a button asks only for what is free, so it stays so.

All follow the same argument: one lemma per group of actions, put together by the cases
of `Next`. Every invariant and action property a run checks is a theorem as well. What stays
with TLC:

* liveness, as the prover has no ENABLED: `StopsEnd`, `RequestsReturn`, `RunsEnd`,
  `AllHandedOut`, `EndIsSeen`, `CardsCatchUp`, `TargetsFreed` and the properties of `panels`;
* the second instances of `MCRuns` and `MCPipeline`, the same modules with other constants.

## Findings

Each is a run of its own whose counterexample is a short behaviour of the code:

| run | the code says | the behaviour |
|---|---|---|
| `controller_bug_exit` | root.go:75, Shutdown stops the active run and removes its IPs | requests are accepted until `srv.Shutdown`, so a run can be launched after Shutdown read `current`; the process exits with its addresses on the host |
| `pipeline_bug_failures` | controller.go:862, Failed matches the failure list | a UE that failed its PDU session and then its deregistration is listed twice |
| `lab_bug_gnb` | deploy.go:240, a lower layer is never stopped out from under a running upper one | DeployUp's check of the core and DeployDown's of the gNBs each precede a slow compose command; a gNB deployed while the core is being stopped is up once the core is down |

## Observations

Behaviour met while modelling that a comment or a name leads one not to expect. The
models contain it, and no property denies it.

*Controller.* `execute` un-pins in a deferred call, after it has reported stopped: a Start
in between pins first and loses its pin (controller.go:557, against :347). SetCpus checks,
unlocks, saves; a Start in between runs while the allocation changes (cpus.go:39). Validate
looks at the host's addresses while a ping test may have one of them off, so the plan may
hand it out (expand.go:60 says it never does). `handleStart` and `Runner.Start` each check
the other once (api.go:196, bench.go:126), so a bench begun while Start validates runs beside
the run. A run's ID has one-second granularity: two runs that start in one second have the
same one, and the history keeps the first.

*Pipeline.* A cycle counts as complete whatever became of its deregistration
(controller.go:627). A dispatcher's `select` may start an attempt although its context is
done (pipeline.go:64, against :38). A UE whose deregistration was skipped by a second Stop
before it was queued stays *established* in the final report (controller.go:816).
`watchAssociation` that passed its check for Stop may still write *lost* over closeConns'
*closed*.

*Data plane.* A flow's 32-bit sequence number wraps after 2^32 packets and `last` does not:
from then on every packet of the flow counts as out of order.

*Run page.* `query` is read when a socket is made, but a page turned while it is still
connecting is neither in its URL nor sent, so the stream carries the old page until the next
turn (TesterRunPage.tsx:457 against :437). The table of failed UEs labels a failed
deregistration as a registration, and two rows of one UE have the same React key. A chart's
cursor is an index, so it jumps when the curve is halved. On a plot with room for two ticks
the time axis has a single tick between 241 and 299 s, where the step goes from two minutes to
five (TesterRunPage.tsx:128-137); the proof of `AxesFit` found it, and `AxesFit` now says so.

*Setup page.* What is typed while a save is under way is overwritten by its answer. Start
is enabled on the previous verdict within the 400 ms before the next validation. The menu of
interfaces may be that of the tester chosen before, when its list answers late, and a ping's
verdict stays when the tester is changed.

*Tester pages.* An answer to `loadSystem` sent before a Save restores the old allocation; one
after a short outage drops what was being edited; a failed one is not sent again while the
tester stays up. Lists read before and after an addition answer in any order. On the bench
page the result of the tester picked before may be shown. A click on the CPU map while the
typed list cannot be read drops what was typed; the page accepts CPUs up to 4095, fru-tester
up to 1023.

*Dashboard.* Before the first status is read, Tear down says torn down while the core is up; clicked later,
it clears the flags of actions it did not start. A UE whose subscriber was deleted has
no row, so nothing on the page stops it, and the gNB's stop is refused because of it. A
UE's Stop may stay disabled when the read after Stop all fails (UeInstancesPanel.tsx:76). A
listing with one of the two slices' services draws neither SMF; a selected function that
has gone keeps its highlight; the link to a gNB's logs opens the core's when the core is
down or not read yet (LogsPage.tsx:124).

*Subscribers.* One flag names the subscriber being deleted, so two deletions overwrite each
other's. A row that was not a default slice comes back as one when the subscription has no
default slice (subscriberForm.ts:356). An OP saved from the edit form is stored as OPc. Two
rows with one slice and DNN share the qosRef of their rules. A bulk creation that is retried
submits the IMSIs it has created again.

*Session and messages.* A 401 of a request sent with the token before drops the token that
replaced it. Messages added in the same millisecond share their ID and are closed together.

## Not modelled

Kernel interfaces (netlink, AF_XDP, eBPF), encodings and cryptography (NGAP, NAS) with the
per-UE buffers of an association, parsing and validation of input files, statistics and
their display, HTML reports, docker pulls as such, the terminal bridge's bytes, the
expansion of a profile into addresses, the poll that saves finished runs and the storage
behind the backend's lists, the migration of profiles, deployment files and docs. Of the
pages: markup, wording, colours, formats of single fields, and the generated clients. A
failure of `SetProcessCpus` is only logged by the code and left out. `PROJECT.json` says for
each component what is left out of it.
