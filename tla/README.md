# A formal model of zch-coding-agent

This directory holds TLA+ models of the program, the TLC configurations that
check them on small instances, and proofs that TLAPS checks for instances of any
size. Every definition is translated from the TypeScript source; PROJECT.json
(`map`) names, for each definition, the lines it stands for.

Contents: [the system](#the-system), [inventory](#inventory),
[modules](#modules), [runs](#runs), [fairness](#fairness),
[what is proved](#what-is-proved), [disagreements found](#disagreements-found),
[what is not modelled](#what-is-not-modelled), [plan](#plan).

## The system

A coding agent with a desktop host (Electron) and a headless host.

- The **main process** owns everything durable and everything that runs: one
  SQLite database, the *Sessions* (conversations of a Project with a model), their
  *Runs* (one user turn: a loop of model requests and tool batches), child agents,
  terminals, MCP servers, configuration.
- The **preload bridge** gives the sandboxed renderer one `invoke` call per IPC
  channel and one stream of pushed events.
- The **renderer** (Vue, Pinia) keeps a *replica* of the durable records and a
  live view of the Runs.

All of it is JavaScript: one thread per process, and interleaving happens only
where a function awaits. So an action of a model is what one handler does between
two real waits; what runs in one turn of the event loop (a chain of already
settled promises, a synchronous SQLite transaction) is one step. The hazards are
those of asynchronous code: state read before an `await` and used after it,
answers that overtake pushes, stops that arrive between two awaits, one step of
several failing, reservations that nobody gives back.

```text
 renderer ── invoke ──► IPC handlers ──► application services ─► coordinator queue ─► SQLite
    ▲                                       │        │                 │
    └── pushes (commits, runtime events) ◄──┼────────┼─────────────────┘   ReplicaSync
                                            ▼        ▼
                              live Session registry ─► SessionManager       LiveSessions
                                                         │
                     ConfigStore ── routes ──► Run controller ─ history     RunLifecycle, DurableHistory
                                       │        ▲
                        tool batch ◄───┘        │ wakeup                    ToolBatch
                            │                   │
              ┌─────────────┼──────────┬────────┴───────┬──────────────┐
         MCP servers   exec processes  terminals   subagents, Swarm   attachments
         McpManager    CommandSessions TerminalPool Subagents, Swarm  Attachments
```

## Inventory

State, operations and difficulty of every part; PROJECT.json (`components`) has
the source files and says of each whether it is modelled. "Correct means" is what
a module of the part has to state.

| part | state | operations | what is hard | correct means |
| --- | --- | --- | --- | --- |
| durable commits, renderer replica | commit sequence; cached Projects, Sessions, pages; cursor; selection | commands, pushes, bootstrap, loads, search, navigation | pushes and answers reorder; a gap; buffer overflow; stale answers | the cache never falls behind its cursor unnoticed; a resync ends; the selection is cached |
| live Session registry | one lifecycle entry with owner and operation token per Session; Project evictions | reserve, start, load, archive, rewind, delete, restore, remove or relocate a Project, invalidate, tear down | every pair of handlers interleaves; failed starts and commits | no context without an owner, none under a Run lost, evictions exclude Runs, every reservation ends |
| Run lifecycle | status, pause request, interjection queue, pending approval, side effects, client requests, wakeup eligibility | start, retry, interject, pause, resume, decide, interrupt, close | a stop at each await; a message during the last answer; a background event against the user | one Run at a time, messages neither lost nor reordered, terminal is final, every Run ends |
| tool batch | calls, their bodies and results, canonical history | prepare, execute, finalize, break off | stop, timeout and late answers; failure between two finalizations | each call has exactly one result, in order; "ok" means the body ran; serial calls are barriers |
| Subagent execution | active workers, capacity, waiters, message queue and pump per child | start, followup, send, pause, resume, cancel, dispose | a message against the end of a Run; a resume against settling; a stop while waiting for a slot | nobody works without a slot, every message is answered once in order, waiters are served |
| durable Run application service | request maps (start, retry, continue), owner tokens | start, retry, continue, interject, interrupt | a request sent twice while the first is in flight | one Run per request; a failed start releases what it reserved |
| Session and Project services | durable records | create, update, archive, restore, rewind, fork, delete | checks before an await, commits after it | transitions only from the state checked |
| SessionManager | contexts, Goal, Plan, mode | create, restore, mutate, close, dispose | mutation under a Run, close during create | a mutation is atomic with its commit |
| provider turn | attempts, partial stream | request, stream, retry, abort | a retry after partial output | at most one answer is committed; no retry after visible output |
| compaction | history window, summary | auto, manual, prepare, commit | messages accepted during it; a failed commit | history stays valid; nothing newer is dropped |
| context and canonical history | compiled messages | compile, validate, trim | tool calls without results | every call in the compiled history has its result |
| approvals and permissions | rules, remembered approvals, questions | authorize, ask, decide, expire | a stop between rule and question | nothing runs unauthorized; no question without a Run |
| command sessions | processes of a Run, capacity, logs | exec, write, poll, stop, finishRun | exit against stop, a stop that fails, output after exit | at most 16 at once; a Run ends after its commands |
| terminal pool | PTYs, reservations, generations, blocked Sessions | open, write, close, closeSession, dispose | open against close of the Session; the last exit | the limit counts reservations; nothing opens in a closed Session |
| background tasks | numeric handles, control admission | wait, list, control, cancel | completion against timeout of a wait | a handle names one task of its owner; a wait reports an authoritative snapshot |
| Swarm coordinator | groups, children, aggregated result | start, cancel, dispose | cancel during preparation; a child's update fails | a terminal root says what became of its children, after the last of them (a child whose own record could not be written may stay unfinished) |
| model pool | assignment | allocate, freeze | capability and quota matching | an assignment fits its requirements; the same input gives the same result |
| configuration store | config, secrets, mutation tail | update, reload, migrate | a failed write between secret and file | memory, file and secrets agree |
| attachments | transfers, blobs, references | begin, append, finish, cancel, collect | collection against an import | a referenced blob is never collected |
| project artifacts, temporary files | numbered files, leases, TTL | allocate, seal, collect, export | collection against use | a leased artifact survives |
| traces | capture state, one logger per Session | configure, beforeRun, write, afterRun, dispose | configuration during a Run; a failing logger | a trace changes only at Run boundaries |
| MCP | connections per server and workspace, catalog | reload, trust, start, stop, call | a reload during a start; a crash during a call | a stopped server's connection is never used |
| conversation titling | attempted Sessions, requests in flight | generate, dispose | a rename during generation | the user's title wins; one attempt each |
| renderer runtime stores | live Run view, carried messages, drafts | events, snapshots, flush | events against snapshots; a flush sent twice | a carried message starts one Run |
| host lifecycle | profile lock, disposer tasks | start, quit | a second process; a task that hangs | one owner per profile; every task is tried in order |
| headless host | one Run, exit status | run | signal against completion | status and output agree |
| provider adapters, tools, prompts, skills, persistence, contracts, IPC validation, presentation | – | – | conversions, I/O, SQL, layout | (data; see [what is not modelled](#what-is-not-modelled)) |

PROJECT.json (`hazards`) lists, at the line where each bites, what can go wrong in
the modelled parts, with the properties that would catch it.

## Modules

Each component is one module; `MC<module>` gives it the small constants (some put
several modules into one run, see below), the cfg files the instances, `<module>Proofs`
holds its theorems (`ToolsProofs` and `ServicesProofs` those of three each). Operators
whose name begins with `Mut` are deliberate faults of the operator after them, used to see
that each property notices one.

### ReplicaSync, ReplicaSyncProofs

`ApplicationStateCoordinator`, the preload buffer and the `agent-replica` store.

| model | code |
| --- | --- |
| `log` (the commit with the database after it) | a job of the coordinator's queue: transaction, `#sequence`, publication |
| `events`, `replies` | `webContents.send` in order; answers of `invoke`, which may overtake them |
| `buffer`, `overflowed`, `subscribed` | the preload bridge before the store listens |
| `cursor`, `rprojects`, `sess` | the store's cursor and cached records |
| `boot`, `loads`, `merges` | `bootstrapInFlight`, `session:get` calls, list, search and fallback answers |
| `Reconcile`, `Apply*` | `reconcile` and the `apply` of each topic |
| `InstallPage`, `DeliverBootLoad`, `InstallSession` | `performBootstrap`, `loadSession` |
| `SelectSession`, `LoadToSelect`, `DeliverLoad` | `selectSession` of a cached Session, or of a search hit that is loaded first |

A Session record is its revision and its lifecycle; message pages are left out, as
nothing the store decides depends on them. Queries run as jobs of the same queue, so an
answer is the database at a sequence number; the list of a bootstrap is any `PageSize`
of the active Sessions, and `Opened` are the Projects the database starts with. The
renderer does not outlive the main process, so the backend instance id is left out. Ids
of Sessions and Projects are not used again. `selectProject` is modelled with the
default of `selectLatest`, which its only caller (agent-runtime.ts:397) leaves.

`NeverLeftBehind` is about records that are `Adrift`: outdated by the commits the cursor
has passed, and no `session:get` under way that will tell. A step may set a record adrift
in three ways only, each of which the code has and TLC finds when its disjunct is taken
away: `Merged`, an answer of a list, search or fallback query, installed without looking
at revisions; `UnaskedAnswer`, an answer of `session:get` that arrives when the record is
not cached any more (a bootstrap dropped it, or it was deleted or archived out of the
page) and is installed with nothing to compare it to; and `FailedReload`, a load that a
gap in the revisions asked for and that fails. The property does not say that a record so
set adrift is ever brought up to date: it stays until the next commit of its Session, or
the next bootstrap.

### LiveSessions, LiveSessionsProofs

`LiveSessionContextRegistry` with everything it arbitrates between: contexts and
Runs of the SessionManager (`ctx`, `run`), durable bindings (`binding`), and the
services that start (`starts`), load (`loading`), archive and rewind (`evop`),
delete and restore (`checked`: past their idle check, before their transaction),
update Sessions and their plan status (`planning`) and remove or relocate Projects
(`removal`, `evicting`). `entry` is the registry's map: phase, owner token,
operation token, whether the Project is bound, and the teardown under way.

A Run whose first turn could not be stored (`FirstTurnFails`) rejects its start while it
is still in its catch: the start releases and closes the Session under it. It is the one
Run that `RunIsProtected` exempts, by its own state `failing`, and nothing of its Session
is durable. A teardown waits for a Run no longer than the grace period; after it the Run
is no longer the Session's (`FinishTeardown`), and the invariant says that this can only
be a `failing` one. A plan status is committed behind a flag of the context, without a
reservation; for a Session that is not durable yet it stores nothing and is left out.
`ReservationsEnd` says that an entry is none or live again and again, which is the same
as: every other phase leads to one of these.

Tokens are UUIDs; `Fresh` is any token nobody carries, so a released token never
returns while a handler still has it. Archive and rewind act on Sessions with a
durable record. `reserveSessionMutation` is modelled although the production
wiring does not call it. `LoadStale` models the check after a load; every writer's
idle check keeps it from finding a difference. A Run that a newer one replaced
while it settled is not seen by the registry's idle checks, and so `run` is the
newest one, as in the code. Left out: `dispose()`, and the open terminals that
`assertSessionIdle` also looks at.

### RunLifecycle, RunLifecycleProofs

`SessionRunController` with the pause control, interjection coordinator, approval
of a call, client requests and `BackgroundWakeupGate`, for one public Session.
`run[r].pc` names the await at which the `#run` function of a Run stands;
`Prepare` … `Settle` are the code between two awaits. `handled` (history) lists, of
each Run, the interjections that were injected, superseded and carried.

Abstractions: checkpoints that behave alike are one (`Checkpoints`); an epoch of
the gate is named by the Run that made it; of a settled Run only what properties
read is kept (`Remains`). Left out: the callback of internal Runs (it is in
`Subagents`), compaction between two steps.

### ToolResults, ToolBatch, ToolsProofs

`ToolResults` says what a batch promises the conversation: one result per call,
in order, and the results still owed when it breaks off. `ToolBatch` is
`executeToolCalls` and `ToolExecutor.execute`: segments, preparation one by one,
bodies of a parallel segment side by side, the race of a body with its timeout and
the signal, finalization one by one, and the catch block. It implements
`ToolResults` (`ImplementsResults`). `mode` and `abortable` are what the tool
definitions say of each call, so a run covers every mix of them. One batch is
modelled, with distinct call ids; what tools do and how results are worded is not.

### Subagents, SubagentsProofs

`SubagentExecutionService`, `SubagentConversations`, `SubagentCapacity` and the
worker of one execution. `worker[c].pc`:

| pc | code |
| --- | --- |
| none | no entry in `#active` |
| reserved | `#startStandalone` awaits the artifacts; not in `#active` yet |
| waiting | a successor's worker awaits `capacity.acquire` |
| loading | the hidden Session is opened and the Run prepared |
| running, parked | the Run is under way, or paused without its slot |
| closing | the Session is closed, the execution recorded as terminal |
| settling | `captures.finish` and what follows it in the `finally` of `#launch` |

A control of a child holds that child's admission to its end, so it is one step. A
free slot is taken by the step that asks for it, as the promise is settled at once. The pump's launch has
the two awaits that matter (`preparing`, `created`). A pause by the deadline is the
same action as a pause by the parent. A boundary injects the whole inbox of a Run.
Each message is sent once, and the limit does not change. Left out: Swarm groups
(their leaves use the same capacity), artifacts, the deduplication of parent calls.

### Swarm, ServicesProofs

`SwarmCoordinator` for one parent tool call: the calls of `run()` and `start()` that
share it (`call`), the promise of the job (`promise`), the durable root and leaves
(`root`, `leaf`), the object the job works on (`mem`), the workers it hands to
`SubagentExecutionService` (`worker`, `doomed`, `marked`), stop requests (`stop`,
`wanted`, `aborted`), the shutdown (`down`, `caught`), the children the recovery of a
job that threw still has to see to (`rest`) and what was published last (`shown`). Its
leaves take their slots from the capacity of `Subagents`, which is not repeated here. A
query answers in the step that asks, a write lands in a later one, and each storage
request of the coordinator, of a worker and of a stop may fail. The recovery is the
catch of `#run` await by await: cancel the children, wait for those at work, finish the
records of the rest, then that of the root; what fails in between ends it there.
`lapsed` remembers the children whose worker could not read or write its own record:
the root counts them as failed while their records stay unfinished.

Left out: `Refresh()` of a root by a child's message (the FIFO queue of the store
orders what it publishes), the repair at startup, argument normalization, and the
result's size bound.

### CommandSessions, ToolsProofs

The scope of one Run in `CommandSessionManager`: `proc[p].at` is the await a start or
its process is at, `kill`, `again` and `timer` are the termination in flight, the
forced one chained to it and the grace period; `scope` is the Run's own progress
through `finishRun`. A termination may fail. Left out: reading and writing of a
process, the list of finished ones, the one-shot `runCommand`.

### TerminalPool, ToolsProofs

`term[t]` is one attempt to open a terminal and the terminal it became; `gen` and
`blocked` are the generations and blocks of Sessions, which an open compares after
its awaits; `watch` is what a `waitForSessionExit` waits for; `quiet` remembers the
Sessions such a wait was answered for. A kill may throw. Left out: buffers,
input, resizing, the 256 closed terminals that are kept.

### DurableHistory, DurableHistoryProofs

One conversation in its two forms. `mem` is `SessionState` (history, next position,
route), `db` the Session's row and messages, `bind` the `DurableSessionBinding`
that carries one into the other, `task` the Run and the place it stands at, `answer`
what the client was told of each request. A record is a position, a kind and
whether it is active. Runs, commands, interjections, automatic and manual
compaction, the transition to another route, rewind and fork, failing commits and a
crash at any await are actions. Left out: retry budgets of a compaction, token
measures (whether one is due is a choice), and what summaries say.

### Attachments, ServicesProofs

Main process: `project` and `removal` (`removeProject`), `xfer` (`#transfers`), `dir`,
`row`, `old` (past the grace period), `refs` (`attachment_drafts`), `sent`
(`message_attachments`), `gc` (`collect`). Renderer: `draft`, the import `jobs`, the
queue of reference syncs (`line`), the message being sent (`run`), `session`, and
what is being put back from a message into a draft (`asked`). `left` and `late` are
history: files a crash left, and a Session deleted while references were on
their way. One Project with one Session and the composer of a new one; one file per
import. Left out: limits, hashes, images, working copies, clipboard, `dispose`.

### ConfigStore, ConfigStoreProofs

`ConfigStore` with its `SecretStore`: `config` and `records` are memory, `file` and
`vault` the disk, `writes` the secret snapshots on their way, `job` where each change
stands in the mutation tail, `read` the `SecretStore.get` of each owner (which may
encrypt a secret again), `route` a freeze of the routes of a Run or a Swarm plan.
`fit` is what the annotations of a model are good for: the reasoning effort a route
asks for (`Usable`) and the rating the pool asks for (`Rated`).
A write or a read may fail and the host may die between any two. Left
out: environment keys, settings nothing else depends on (they go through the same two
writes), migrations, an unreadable file, a store without a file.

### McpManager, ServicesProofs

One configured server: `configs`, the `current` record and every record made (`rec`:
state, connection, the await of `#connect`, back-off timer, the `#stop` calls that
wait), the process of every connection (`proc`), tool calls (`toolCall`), `disposed`.
Left out: catalogs and their revisions, workspaces, stderr; a disabled server is not
told from one that is not trusted.

### MCRunSequence, MCSessionWork, MCServices

These put several modules into one run. The modules share no variable, and TLC
would only multiply their states, so `focus` names the one that moves in a
behaviour; the others rest in their initial states. They EXTEND their modules, so the
theorems and the runs speak of the same definitions (their names are apart for that);
only `MCSessionWork` takes `Swarm` by INSTANCE.

## Runs

The bounds are the smallest at which every action fires and every fault named
`Mut…` is noticed. A type invariant is checked where it says more than the types of
constants do; the types are proved for the modules with theorems.

| run | instance | shows |
| --- | --- | --- |
| `replica_reconcile` | 2 Sessions in 2 Projects, one persisted; 2 commits, 1 fault, 1 user act, 2 loads, pages and buffer of 1 | `NeverLeftBehind`, `ViewIsSound`, `ResyncCompletes` |
| `live_sessions` | 2 Sessions of 1 Project, 3 tokens, 2 revisions, 1 new start, 1 restore or deletion at once | `OwnershipHolds`, `RunIsProtected`, `LiveMatchesDurable`, `EvictionIsSafe`, `ReservationsEnd` |
| `run_lifecycle` | 1 Run, 2 steps, 2 noteworthy tool calls per batch, 2 interjections | `PausedIsQuiet`, `MessagesAreAnswered`, `TerminalIsFinal`, `RunsEnd` |
| `run_sequence` | callers: 2 Runs, 2 client requests, no tool calls; history: 2 Runs of 1 step, 2 routes, 1 note, 1 fault, 1 crash, 1 edit | `RunsTakeTurns`, `RequestsRunOnce`, `WakeupsYieldToUser`, `EpochIsWhole`, `MemoryIsDurable`, `AnswerIsTrue` |
| `tool_batch` | 3 calls, every mix of modes | `BodiesAreAccountedFor`, `SerialBarrier`, `StopStartsNothing`, `ImplementsResults`, `StoppedBatchEnds` |
| `subagents` | 2 children, 1 slot, 2 messages | `WorkersOwnSlots`, `MessagesKeepTheirOrder`, `RestIsAnnounced`, `WaitingIsServed` |
| `session_work` | 2 Sessions, 2 terminals, limit 1, 1 close; 2 processes, 2 failing kills, 1 stop; 1 call and 1 stop with 2 children and 1 failed request, or 1 child and 2 | `StoppedSessionsAreQuiet`, `RunsLeaveNoProcess`, `StoppedWorkEnds` |
| `services` | 2 Providers, 2 clients, 2 changes, 1 mishap; 2 attachments, 4 inputs; 2 calls, 2 children, 1 stop, 1 failed request; 3 records, 4 processes, 3 requests, 1 restart | `RootIsTrue`, `CallsShareTheJob`, `TrustIsRespected`, `NoCallIsCut`, `SentAttachmentsExist`, `ShownAttachmentsAreKept`, `NoStrayFiles`, `CredentialsAreThere`, `ClearedSecretsAreGone`, `RoutesAreWhole` |
| `run_compact` | 2 Runs, 1 interjection | a message lost by `/compact` |
| `subagent_leak` | as `subagents` | a slot that is never released |
| `history_route` | 2 Runs, 2 routes, 1 edit | memory left behind a committed transition |
| `mcp_exit` | 1 server with 2 records, 3 processes, 3 requests, 1 restart | a server process the shutdown does not find |

Why these bounds are enough to be worth checking:

- *ReplicaSync.* Two commits are the least with a gap, a reordering of push and
  answer, and a commit inside a bootstrap; a buffer of one overflows at the
  second. A second Project makes the selection move between Projects. A page of one
  leaves a Session out of the list, and two loads of a Session may cross. The bound on
  user acts only limits navigation, which nothing else counts.
- *LiveSessions.* A registry conflict is between two operations on one Session, or
  one on a Session and one on its Project; a second Session makes a Project
  eviction tear down several contexts. Three tokens are one per operation
  that can be under way on the two Sessions, and one more. Revision 2 is one
  commit after the first. The theorems below hold without these bounds.
- *RunLifecycle.* One Run with two steps passes every checkpoint twice; two
  interjections are the least that can be reordered; two calls are the least with
  an approval beside a side effect. Succession of Runs needs two, without the
  inner detail, and is a run of its own.
- *DurableHistory.* A second Run meets what the first left: its epoch, its route, a
  request sent again. One fault or one crash can fall on any commit; two
  in one behaviour add only what a second Run adds to the first.
- *ToolBatch.* Three calls make every shape of segments: parallel, serial,
  parallel on either side of serial. The theorems hold for every length.
- *Subagents.* One slot makes every second child wait; two messages are the least
  that can overtake each other, and the second starts the successor's successor.
- *TerminalPool, CommandSessions.* Two terminals with a limit of one meet at the
  limit; two Sessions show that the stop of one leaves the other alone. Two
  processes and two failing kills let one process be killed by force after its first
  kill failed while the other is still starting.
- *Swarm.* Two calls of one tool call are the least that can share the job; two
  children the least whose outcomes differ (`partial`). Liveness takes one call, as a
  call that joins or is refused waits for nothing of its own, and two instances: two
  children, one of which is at work while the failure of the other ends the job, and two
  failed requests, the least that make the recovery of a job fail too. Two of both take
  five minutes alone and were checked apart, the invariants with two calls as well. The
  theorems hold for any number.
- *McpManager.* Three records are the one in use, the one it replaced and one whose launch
  comes back; the fourth process is the one a replaced record starts beside theirs. Both
  theorems hold without the bounds. `mcp_exit` needs two records and three processes.
- *Attachments.* Two attachments let one be collected while the other's import ends;
  four inputs reach import, send, put back and delete in one behaviour. Both safety
  theorems hold without the bound.
- *ConfigStore.* Two changes wait for each other in the tail, with one mishap at any
  write. `Fits`: a model is annotated for everything or for nothing; all four
  combinations were checked on the store alone. The theorems hold without the bounds and
  for any `Fits`.

`CHECK_DEADLOCK FALSE` everywhere: each system may rightly come to rest, when the
bounded inputs are used up and all Runs have ended. Symmetry is used in runs whose
properties are invariants or action properties only.

## Fairness

Weak fairness only, and only for what the program does by itself:

- the event loop runs a continuation that is ready, and an awaited query, commit
  or teardown settles (`AnswerBootstrap`, `DeliverBootstrap`, `LoadStep`,
  `TeardownStep`, `RunStep`, `Step`, `ChildStep`). Every one of these has an outcome
  for failure too, so nothing is assumed to succeed;
- timers fire (`ApprovalExpires`, `CutShort`);
- a side effect that is tracked settles (`SideEffectSettles` in `RunLifecycle`): a
  Run waits for it before it leaves. In `ToolBatch`, where a batch must end without it,
  nothing is assumed of the end of a body that cannot be aborted;
- a Run that is under way ends (`EndRun`), which `RunLifecycle` shows of Runs that
  are not left paused;
- a process that was told to end by force ends, and so does a PTY after an explicit close
  (`Exit`, `Closed`, only for those: a process nobody kills may run for ever); its
  exit event is handled (`Exited`); a worker whose controller is aborted ends
  (`WorkerEnds`, only for aborted ones).

No fairness for anything the user, a client or a parent does: nobody must resume a
paused Run, so `RunsEnd` is conditional on the pauses ending and `WaitingIsServed` on no
pump that gave up. Commits, faults and stops are never fair.

## What is proved

`LiveSessionsProofs`, for any Sessions, Projects and tokens:

- The inductive invariant is `Inv == TypeOK /\ SessionInv /\ StartInv /\
  RemovalInv /\ StartTokens`. The checked invariants are not inductive by
  themselves: that a context is owned depends on what the handler that carries its
  token will do next. `SessionInv` says, for each phase of an entry, which context,
  binding, Run, load and teardown go with it; `StartInv` and `StartTokens` that a
  start still under way holds a token of its own, and what its Session
  looks like at each of its stages, that the Project it asked for is still there among
  it; `SessionInv` also that a plan commit is alone in its context; `RemovalInv` that a Project operation's list is
  covered by entries that carry its token.
- `InitInv` and one lemma per action (`…Type`, `…Inv`) make `Invariant`; from it
  follow `TypeCorrect`, `OwnershipIsKept`, `RunsAreProtected` and, as an action
  property, `EvictionsAreSafe`.
- `LiveRecordsAreDurable` needs `Durably` beside `Inv`: a context that is in use, or that a
  reservation may give back, agrees with the database, unless its Project's removal has
  committed (`Lost`); an archive or a rewind holds its reservation until it ends. So every
  writer finds either no context or the one it holds. `LoadsAreNotOvertaken` follows too:
  the second read of a load, which the code has, never finds a difference.
- The only assumption is `LiveAssumption`, on the shape of the constants.

`ToolsProofs` on `ToolBatch`, for any number of calls:

- The inductive invariant is `IInv == TypeOK /\ Position /\ Progress /\ Bodies /\
  OkMeansRan`. `Position` ties the place where the function stands to the length
  of the history; `Progress` says what the calls behind, inside and beyond the
  current segment look like; `Bodies` ties a body to its call's result. Without
  `Position` the order of results says nothing about the next step, and without
  `Progress` the barrier does not survive `Launch`, which enters all pending calls
  at once.
- From it follow `TypesHold`, `EveryCallHasItsResult`, `SerialCallsAreBarriers`,
  `BodiesAreTracked`, `StopIsHeard` (an action property) and `Refinement`: every
  batch is a behaviour of `ToolResults`.

`ToolsProofs` on `TerminalPool`, for any Sessions, opens, closes and kills that throw, and any
limit:

- The inductive invariant is `PoolInv == PoolTypes /\ Waits /\ Quiets /\ Leaves /\ Fits`.
  `Waits` is why a wait answered once stays true: what lives in a blocked Session lived when
  the wait began, as an open compares block and generation in the step that spawns
  (`OpenedKept`). `Fits` counts the opens under way with the terminals, which is what several
  opens between check and spawn race for. All other steps only let a terminal age (`Ages`).
- From it follows `StopsAreQuiet` (`StoppedSessionsAreQuiet`). The only assumption is
  `PoolAssumption`: the limit is a number.

`ToolsProofs` on `CommandSessions`, for any processes, limits, stops and kills that fail:

- The inductive invariant is `CommandInv`: the entries that hold a slot are finitely many,
  `active` counts them, and none is left when the scope is gone. No request, timer or answer
  of a kill changes what an entry holds (`RequestKeeps`, `ForcedKeeps`, `EntryKept`).
- From it follows `NoProcessIsLeft` (`RunsLeaveNoProcess`), without any assumption.

`RunLifecycleProofs`, for any number of Runs, steps and calls, any messages and requests:

- The inductive invariant is `IInv == Types /\ RunsInv /\ SessionInv`. `RunsInv` speaks
  of each Run alone: `Status` says what its pc tells of its status, its pause, its
  question and its commit, `Places` and `Placed` where its messages are. `SessionInv`
  says how Runs, requests and the gate refer to each other: `Turns` (only the active
  Run is under way), `Named` (a request and its Run name each other unless the Run failed
  before its input was durable), `Gate` (the epoch that may be claimed is
  that of a Run which ended by itself, in a Session at rest).
- No checked property is inductive alone. Two Runs would be live without `Turns`, as
  `start()` looks only at the active one; a retried request would run twice without
  `Named`, as the map forgets a failed Run; a message would be in two places without
  `Places`, as five handlers move it from one sequence to the next.
- Most steps change one Run in a way the Session does not notice (`Calm`): they owe only
  the part of `RunsInv` of that Run. Lemmas on sequences (`Injected`, `Left`,
  `Superseded`, ...) say that a message moved on is still placed.
- From it follow `TypeCorrect`, `TurnsTaken`, `PauseIsQuiet`, `RequestsOnce`,
  `EveryMessageMet` (`MessagesAreAnswered`) and, as action properties, `EndsAreFinal`
  (`TerminalIsFinal`) and `UserGoesFirst` (`WakeupsYieldToUser`).
- The assumptions are `RunBounds` (the bounds are numbers) and `RequestNames` (no
  request is called `NoRequest`).

`SubagentsProofs`, for any children and messages, and any limit above zero
(`LimitAssumption`; the schema of the configuration demands it):

- For the messages the inductive invariant is `IInv == MessageTypes /\ MessageInv`, where `MessageInv`
  says of each child what `ChildInv` says of its worker, launch, queue, fates and
  messages: `InOrder`, the property itself; `InboxUse`, that only a Run that is under
  way holds messages, and that nothing is queued beside it; `Counted`, that an
  execution costs a message; `LaunchUse`, that a launch is prepared beside no worker
  for a message that is still the head of the queue while it is wanted. Without
  `InboxUse` a message could go into the Run past the queue, or a Run that begins
  overwrite what its predecessor held; without `LaunchUse` a launch could drop a
  message that came in front of its own.
- The steps that touch no message are settled together (`QuietInv`: a slot that
  is released wakes other children, but changes none of their messages); the others are
  reduced to facts about one child (`ChildActs`) and lemmas on sequences
  (`OrderMet`, `OrderShifted`, `OrderSent`, ...).
- From it follow `MessageTypesHold`, `NoMessageIsLost` (`MessagesKeepTheirOrder`) and
  `ExecutionsHaveMessages`: no message starts two Runs.
- `RestsAreHeard` (`RestIsAnnounced`) follows with `RestInv`: a child without a worker
  was announced, or misses a message, or still has one queued. Every step spares a child
  that was at rest before or is heard of now (`Spared`, `Heard`).
- `SlotsAreOwned` (`WorkersOwnSlots`) follows with `SlotInv`, which says who waits: no
  execution at work or being prepared, to start only one that has not begun, and none
  that its worker has not come to. Without the first a worker could park, be admitted by
  its own old request and hold a slot while parked; without the last a new
  execution could be admitted before it asked.
- `#drain` is a loop over the waiters. The model has its result in closed form
  (`Fitting`: a waiter is admitted if there is room beside all who came before), TLC
  compares the two on every short list (`DrainAdmitsFitting`), and `FittingFits` proves
  of the closed form what the loop is for, by a least counterexample.

`ServicesProofs` on `Attachments`, for any attachments and any number of inputs, reloads and
crashes:

- The inductive invariant is `Inv == CoreTypes /\ Cleared /\ Owned`. `Owned` says of each
  attachment which row, files and transfer go together, and that what a
  message refers to has its row. `SentAttachmentsExist` alone does not survive
  `collect`, which looks at references, waits, and then deletes.
- From it follow `SentAttachmentsAreThere` and `FilesHaveOwners`.
- `ShownAttachmentsAreKept` speaks of a composer at rest; `ComposerInv` says what makes it
  so while calls cross. `Heard` says of every draft that the last call about it, on the wire or
  behind it in the queue, tells main exactly what the draft holds (a reconciliation may tell
  more), or that there is none and main has it already. That is not enough: a collection
  may look at the references in between. So `DraftsHold` adds that what a draft holds is
  spared by it (younger than a day, or in a message), or `Held`: in the references now
  and in every call about its draft. `Sending` is why a move to the new Session loses nothing:
  what the draft gained since the message was sent is young or of a message.
- A queue may not let a call pass an earlier one: `InOrder` says that there is a backlog
  only behind a call that will be answered (`QueueIs`, `RepliedIs`). The sync that ends an
  import does pass the backlog, and `DirectIs` is why it may: it says what the draft holds.
- From it follows `ShownAttachmentsStay` (`ShownAttachmentsAreKept`).

`ConfigStoreProofs`, for any Providers, requests, failures and crashes:

- The inductive invariant is `Inv == Store /\ Frozen`, with `Store == Types /\ Files /\
  Requests /\ Secrets`. A secret that a configuration names (in memory, on disk, or
  in the request that is writing it) is in memory, in the file and in every snapshot on
  its way to it; a Provider that keeps its revision keeps its key. The order of the
  two writes is what `Requests` is about.
- From it follow `SafeCredentials` and `SafeRoutes`. The assumption `Distinct` only
  tells the model values apart.
- `SecretsAreCleared` needs the converse, `Removed`: whatever is stored, on disk or on its
  way there, is named by the configuration, strays, or is of the one request in progress
  (`Requests` says that there is only one); the secret a request lets go is in no snapshot
  from its own on. A read that encrypts again (`Reencrypt`) stores a whole snapshot, so a
  read that goes on must be of a secret in force or of one that strayed since.

`ReplicaSyncProofs`, for any Sessions, Projects, commits, faults, navigations and loads:

- The inductive invariant is `IInv == Types /\ SelectionConsistent /\ Chased /\ Unborn /\
  History /\ Listed`.
  `LagExplained` says nothing of a replica with something in flight; `Chased` does: while no
  push is lost, the pushes on their way are the newest commits without a gap, and a replica
  that has not got as far as they have is waiting for a snapshot that is at least that new,
  or was when the commit reached it.
- `Types` says of each commit that it makes only the Session it names newer
  (`ChangesFollow`, by cases over the commands), and `History` of the whole log that a
  Session that exists at two moments exists in between and only gets newer. So what was
  read at the newest commit is outdated by nothing (`Fresh`), and a reconciler that applies
  the next commit leaves every cached record level with the cursor, as far behind as it was,
  gone, or being loaded (`Abreast`). `Listed` (the cached Projects are those at the cursor)
  is what tells that a Project a commit removes takes its cached Sessions with it.
- An answered load that is taken leaves its Session adrift only when it was before
  (`Taken`): either the installed answer or the record it is compared to would be current.
- From it follow `StreamIsTyped`, `ViewsAreSound` (`ViewIsSound`) and, as an action
  property, `CachesKeepUp` (`NeverLeftBehind`).
- The assumptions are `SessionsAssumption` and `NoneAssumption`: a Session has a Project, and
  "undefined" is neither an id nor a sequence number.

`ServicesProofs` on `Swarm`, for any calls, replicas, stop requests and failed storage
requests:

- The inductive invariant is `IInv == SwarmTypes /\ CallsInv /\ PhaseInv /\ MembersInv /\
  VerdictInv`. `RootIsTrue` speaks of a root that is finished, and a status is true of the
  replicas only if it was when it was decided, one write before; so `VerdictInv` says of the
  decided status (`Counted`) and of every replica (`Over`) what the property says of the
  saved one. `MembersInv` relates the worker of a replica to its record in the store: a worker
  is prepared for a finished leaf only if its launch is told; while the job recovers, a worker
  at work is doomed, and a record it has seen to stays finished. What no request can promise
  is exempt by name: `Refused` (the shutdown came before the launch) and `lapsed`.
- Why a verdict lasts while stops, recoveries and the shutdown still touch the replicas
  is one lemma (`VerdictLasts`): a step may tell or finish what is over, but leaves what
  completed or failed as it is (`Lasting`).
- From it follow `RootsAreTrue` (`RootIsTrue`) and `CallsShare` (`CallsShareTheJob`).

`DurableHistoryProofs`, for any requests, routes, Runs, drained messages, failing commits,
edits and crashes, and under `~Outgrown`: no conversation that is carried to another route
holds more images than a request takes there. Where one does the code breaks the invariant
(run `history_route`), so the hypothesis is the exact place of the disagreement.

- The inductive invariant is `IInv == Types /\ Database /\ Live /\ Unborn /\ Bindings /\
  TaskInv /\ Answers /\ Pending`. `Database` says that the records are one epoch up to the
  last position without a gap, past a boundary below every anchor. `Live` says of memory, at
  every place of a Run, what it has past that position: at a quiet place nothing (`Level`);
  before a commit a tail without a gap that either continues the epoch (`Carries`) or is the
  whole next one (`Follows`); and that the checkpoint and the history before a rewrite, which
  a failure puts back, are themselves the durable one. `MemoryIsDurable` says nothing of the
  places in between, and there it is prepared. `Unborn` says it of a Session that is not in
  the database yet, `Pending` that what is past the last position is of the request that waits.
- A commit that succeeds is two lemmas: `AppendCommitted` keeps the boundary,
  `RewriteCommitted` moves it to the anchor that was written last, and `Durable` says what
  both leave. A commit that fails is one (`RecoverKept`): whichever of the reloaded, the
  emptied or the invalid context the failure leaves, undoing gives the durable history.
- `Covered` is why a summary may deactivate everything up to the last active position: what
  is past it is gone or a command. `RewindKept` is why the boundary of what a rewind leaves
  visible is that of the records it keeps.
- From it follow `EpochsAreWhole` (`EpochIsWhole`), `MemoryIsTheDatabase`
  (`MemoryIsDurable`) and `AnswersAreTrue` (`AnswerIsTrue`).
- The only assumption is `HistoryAssumption`: no request is called `None`, and `MaxNotes` is
  a number.

`ServicesProofs` on `McpManager`, for any launches, calls, records, processes, requests and
restarts:

- The inductive invariant is `McpInv`: `SoundWorld` of the records and processes, and
  `Drains`. `TrustIsRespected` alone is not inductive: it says nothing of a record that
  is closed now and may be connected again. `InForce` and `Retired` say which record has the
  configuration and that the others were told to stop, `Wanted` that a connection closed on
  purpose serves nobody, `OneOwner` and `OwnCalls` that a connection, and the calls on it, are
  of one record; `Drains` that a record drains only while it has calls.
- An operation is a chain of operators (`RequestStop`, then `Started`, ...) on a value
  `World`, so `SoundWorld` is stated of any such value, and each operator has a lemma
  (`ConnectSound`, `StartedSound`, `StoppedSound`, `StopSound`, `RequestStopSound`,
  `MadeSound`). What lets go of connections only is one lemma (`FadesSound`).
- From it follow `TrustHolds` (`TrustIsRespected`) and, as an action property,
  `NoCallsAreCut` (`NoCallIsCut`). The only assumption is `McpAssumption`: two bounds are
  numbers.
- The proof is what showed that `TrustIsRespected` needs `Returned`: the code does not stop
  a record it replaced when that record's launch comes back (see below).

Only model-checked: every liveness property (leads-to under fairness is out of the
prover's reach); that the loop of `#drain` computes `Fitting`, which is induction over data.

## Disagreements found

Each is a run that TLC refutes, and an entry in PROJECT.json (`findings`) with the
line of the code and the sentence it contradicts.

| run | the code | the text |
| --- | --- | --- |
| `subagent_leak` | A worker stays active until its capture is sealed, after its slot was released. If its pause came after its Run's last boundary, a resume (every parent message asks for one) takes a slot for the settled execution that nothing releases. | capacity counts reserved or executing workers only |
| `run_compact` | A bare `/compact` ends its Run without closing its queue: a message accepted meanwhile is neither injected, superseded nor carried. | "Anything accepted earlier is carried into a fresh ordinary turn." |
| `history_route` | A Run that fails after its route transition was committed (the image budget) puts back the checkpoint from before it: memory holds the old epoch, the database the new one. | a failure must not damage the epoch; the checkpoint is meant to keep what was committed |
| `mcp_exit` | `#start` takes a record that drains or closes for a stopped one, so a record comes to have two connections, and the end of the first takes the second out of the record: the shutdown leaves its process running. | the main process cleans up at exit; a late callback of an old connection does not change the new one |

Seen while reading, modelled as the code has it where a module covers it, and not
refuted by a run of their own:

- `agent-replica.ts:109`: a commit delivered during a bootstrap that was read before it
  is dropped, until the next commit shows the gap (state-and-ipc.md:348: the
  bootstrap has no window in which events are lost). `LagExplained` exempts it.
- `agent-replica.ts:450`: a commit older than a record that `session:get` has
  already loaded is merged over it (state-and-ipc.md says it is not applied).
- `agent-replica.ts:279`: an answer of `session:get` that comes after its record was
  dropped, archived or deleted installs it again (`UnaskedAnswer`), and a reload that fails
  leaves the record behind (`FailedReload`).
- `agent-replica.ts:180`: a resync after a gap keeps cached message pages,
  whatever the missed commits invalidated (message pages are not modelled).
- `session-approval.ts:251`: `#awaitApproval` listens to the signal without reading it: a
  Run stopped just before still asks (workbench.md:190).
- `session-approval.ts:147`: an expired question leaves the status
  `awaiting_approval`, so a worker's deadline does not count the work after it.
- `session-run-controller.ts:191`: a Run that replaces a terminal one hides its
  unfinished side effects from the idle check (session-manager.ts:1200, sessions.md:70).
- `executor.ts:214`: the body of a serial tool without abort support goes on after its
  timeout, beside the next segment (agent-execution.md:57).
- `subagent-state-service.ts:73`: a launch tried again after it failed finds the
  execution of the first attempt, counts as done, and its message is lost (fate
  `lost` in `Subagents`).
- `execution-service.ts:829`: a resume that waits for a slot undoes a later pause.
- `coordinator.ts:814`: a Swarm `cancel()` publishes the root it read before its awaits,
  so that what is shown may be older than what is stored (workbench.md:318).
- `worker.ts:337`: the write of what became of a failed child is only reported when it
  fails. The record stays `running` while the root counts the child as failed; so does
  that of a child `runPrepared` could not read, which stays `queued` and holds its place
  in the capacity until the next start (`lapsed` in `Swarm`).
- `coordinator.ts:817`: a stop of a root that a failed recovery left unfinished adds a mark
  to `#cancelled` that only a job takes back (line 396), and there is none
  (`StoppedJobsEnd` exempts it).
- `pool.ts`: `dispose()` has no `try`; one kill that throws leaves the terminals after it
  running (`pool = "cut"` in `TerminalPool`).
- `background/service.ts`, `wait()`: a wait reports a timeout when its target was
  satisfied and became active again before the snapshot.
- `composer-drafts.ts:251`: a reference sync that fails for a draft that was moved
  releases the references of the placeholder all the same (attachments.md: a failed
  write keeps the old references).
- `attachment-repository.ts:127`: one id that is gone makes `setDraft` refuse all of
  the draft. A file put back while its Session is deleted and `collect` runs is
  shown although it is gone (`late` in `Attachments`).
- `store.ts:786` (`provider-model-add`): for a model that is enabled it replaces the
  annotations and, unlike the other updates, neither disables the pool entries that need
  them nor looks at the auxiliary role (`AddModel`). So `CredentialsAreThere` says of an
  enabled pool entry that its model is enabled and has a credential, and not that it is
  usable: a freeze finds that out, and one enabled entry without a rating refuses every
  Swarm plan (freezer.ts:52). It speaks of configurations the host writes: an entry that
  was written by hand may lack its credential (store.test.ts:1205 keeps it enabled).
- `secret-store.ts:152`: a read that encrypts a key again races with its removal and
  brings it back (`stray` in `ConfigStore`). An update whose removal of the old
  secret fails is reported as failed although it was applied. A `chmod` that fails
  after the rename of an atomic write would leave the new configuration on disk with its
  secret taken back.
- `mcp-manager.ts:552` and `:511`: a restart that awaits the close of a replaced record, or
  its back-off timer, starts that record again if its launch is the configured one by then.
  `#connections` holds another record, so neither a later change of trust nor `dispose()`
  finds this connection (integrations.md:142). `Returned` exempts it in `TrustIsRespected`.
- `agent-runtime.ts`, `hydrateRuntime`: the snapshot of a Run that is terminal but not
  settled (session-manager.ts:1214) sets the Session's `runId` again, and nothing clears
  it before the next event or a reload: the Session looks busy (state-and-ipc.md: either
  of event and answer may come first).

## What is not modelled

- **Provider adapters, tools, prompts, skills, shared contracts, presentation:**
  conversions, I/O, wording and layout. A property about them would be about data.
- **Persistence:** SQL over synchronous SQLite. A transaction is an atomic step of
  the module that uses it.
- **Runtime event bus, IPC handlers:** validation and routing. The order of delivery
  they give is part of `ReplicaSync`.
- **Configuration migrations, operational log, code intelligence:** a linear rewrite
  of documents, a bounded log nobody reads back, and a part whose production entry
  is suspended.
- **Process crashes** where nothing outlives them: after a restart every active execution
  is marked interrupted and no provider request is repeated. Crashes are modelled where
  state is written in several steps: `DurableHistory`, `Attachments`, `ConfigStore`.
- The other parts of the inventory follow the plan below.

## Plan

What is left, in this order; each with a passing run, and theorems where no fold or
liveness is in the way.

1. `LiveView`: the renderer's live view of a Run (sequence numbers, gaps, snapshots,
   terminal events, the flush of carried messages) over `session-runtime-snapshot.ts`, with
   the attempts of a provider turn. *A carried message starts one Run; a Session at
   rest is not shown as busy.*
2. `ExecutionsView` and settings drafts: stores that buffer events while a snapshot is
   on its way, and saves that wait for each other.
3. `Artifacts`: numbered files, leases, collection against producers, removal of
   a Project.
4. `BackgroundTasks`: handles, waits that race with completion.
5. `SessionManager`, titling, traces, host lifecycle: closing in the middle of a
   creation; one attempt against the user's title; capture at Run boundaries; ordered
   shutdown tasks.
6. Algorithms: the model pool's allocator, text patches, output budgets, each
   against a reference definition over bounded inputs.

Abstract specifications still worth stating: a *lease* (one holder, given back by
the holder only) that `LiveSessions`, the terminal pool and the artifacts implement;
the replica as a prefix of the commit log.
