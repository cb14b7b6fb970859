# clawREFORM: TLA+ models and proofs

clawREFORM is a daemon, written in Rust, that runs LLM agents: it spawns them,
prompts them on schedules and events, executes their tools, routes messages of
chat channels to them and stores what they should remember. The concurrency of
the system is in its kernel (`src/crates/clawreform-kernel`): dozens of shared
maps (mostly `DashMap`s, each operation atomic, sequences of them not), tokio
tasks that may be dropped at any await, and a store that is written after the
maps. That is what these models are about.

Paths below are relative to `src/crates/`, and `kernel.rs`, `cron.rs` and so on
stand for the files of `clawreform-kernel/src`.

## 1. Inventory

| Component | State it keeps | Operations | Talks to |
|---|---|---|---|
| Execution approval (`approval.rs`) | pending requests with the sender of a oneshot channel, policy | request, resolve, policy reload | gate in `tool_runner.rs`, `kernel.rs`, REST, channels |
| Cron scheduler (`cron.rs`) | jobs with next run, error count; a JSON file | add, remove, enable, due jobs, record outcome, persist, load | tick loop in `kernel.rs`, tools, REST, agents |
| Workflow engine (`workflow.rs`) | definitions, runs with step results | create run (evicts), execute run, list | agents, REST, cron |
| Agent lifecycle (`registry.rs`, `capabilities.rs`, parts of `kernel.rs`, `structured.rs`) | registry with name index, capabilities, quotas, triggers, loops, the agents table | spawn, kill, rename, set model/skills/servers, shutdown, boot | everything that has an agent id |
| Background executor (`background.rs`) | task handle per agent, five permits, busy flags | start, stop | agents, supervisor |
| Triggers, event bus (`triggers.rs`, `event_bus.rs`) | triggers, index per agent, history, channels | register, remove, evaluate, publish | every event |
| Quotas, metering (`scheduler.rs`, `metering.rs`) | tokens of the hour, cost table | check, record | every message |
| Sessions, compaction (`session.rs`, `compactor.rs`) | messages per session | read, save, compact, reset | agent loop |
| Agent loop, tools (`agent_loop.rs`, `tool_runner.rs`) | a turn: messages, iterations, loop guard | prompt, tool call, retry | LLM, approval, memory |
| Task queue (`substrate.rs`) | the table `task_queue` | post, claim, complete, list | agents' tools |
| A2A task store (`a2a.rs`) | bounded map of tasks | insert (evicts), complete, fail, cancel | REST |
| Hands (`clawreform-hands`) | instances with status and agent | activate, pause, resume, deactivate | spawn, kill |
| Pairing, processes, auto-reply, supervisor, heartbeat | small tables and counters | see the code | REST, tools |
| OFP wire, channels, MCP, drivers, skills, extensions, migration, API, CLI, desktop | connections, files | I/O | outside world |

`PROJECT.json` lists them all, with what is modelled of each or why it is not.

Behaviours that are hard here, and the properties that make each component
correct:

* *Approval.* A count and an insertion without a lock; several approvers and a
  timer racing for one entry; the waiting task dropped by a tool timeout. Right
  means: a tool never runs on an answer nobody gave; one approver is
  acknowledged per request; every request is decided; the limit is passed by a
  known number at most; entries do not pile up.
* *Cron.* The loop fires a batch it copied while jobs are added, removed,
  toggled and counted; outcome and toggle write the same fields; several
  writers share a temporary file; the process may die anywhere. Right means:
  spacing of runs, one-shot jobs once, no enabled job over the error limit, no
  resurrection, due jobs fire, the file always parses and holds what callers
  were told.
* *Workflows.* Runs execute concurrently while new ones evict ended ones;
  agents are killed; tasks are dropped; five step modes and three error modes
  each advance the program counter somewhere else. Right means: a run in
  execution is retained, reply and record agree, completed runs have all their
  results, the input of a step is the one it should get, the map is bounded,
  every run ends.
* *Lifecycle.* Spawn, kill and rename are long sequences over seven tables,
  next to handlers that save copies, and a process that may restart between any
  two operations. Right means: nobody in the registry without capabilities and a
  quota, an exact name index, killed agents stay gone, living agents survive
  restarts.
* *Agent loop.* A turn works on two histories, one saved and one sent; it may
  end in the middle of its tool calls by an abort, a crash, a failed save or the
  circuit breaker, and the next turn begins with what was left. Right means:
  every request is one that a provider accepts, an answered turn is stored, a
  question disappears only with a silent answer, a call that repeats is stopped
  in time, every turn ends.
* *Sessions.* Turns, compactions, resets and switches of one agent read a whole
  session, wait for a model and write the whole back. Right means: what was
  answered is in its session unless something overlapped it, nothing is
  written into another session, and the memory across sessions has it too.
* *Dispatch.* Loops wait for one of five permits while agents are killed and
  quotas refuse; usage is recorded long after it was checked. Right means:
  permits are conserved, quotas are exceeded by what was under way and no more,
  loops go on.
* *Triggers.* Two maps, changed by registrations, removals, kills and concurrent
  events. Right means: a trigger fires no more often than its limit, its count
  is that of its messages, the two maps agree, messages arrive.
* *Delegation.* Posted tasks, tasks of other systems, hands and peers over one
  registry of agents, each with its own idea of who is alive. Right means: a task
  is handed out once, eviction never takes a task in progress, a hand has one
  agent that it can reach, a connected peer has a connection, links are mutual.
* *Smaller ones*, seen while modelling and not in a model: the history of events
  and their channels may disagree in order (`event_bus.rs:45`), a loop started
  twice loses its first handle (`background.rs:119`), one pairing token may pair
  two devices (`pairing.rs:143`), `/schedule add` and `del` do not persist
  (`channel_bridge.rs:489`), `expand_variables` depends on the order of a hash
  map (`workflow.rs:325`).

## 2. Modules

```
ApprovalGate  <--refines--  Approval        <-- MCApproval,       Approval_proofs
                            CronScheduler   <-- MCCronScheduler,  Cron_proofs
                            CronStore       <-- MCCronStore,      Cron_proofs
                            WorkflowEngine  <-- MCWorkflowEngine, WorkflowEngine_proofs
                            AgentLifecycle  <-- MCAgentLifecycle, AgentLifecycle_proofs
                            Dispatch        <-- MCDispatch,       Dispatch_proofs
                            Triggers        <-- MCTriggers,       Triggers_proofs
LoopGuard, SessionRepair -> AgentLoop       <-- MCAgentLoop,      Conversation_proofs
           SessionRepair -> Sessions        (run with MCSessions.cfg), Conversation_proofs
TaskQueue, A2ATasks,
Hands, Peers             -> Delegation      <-- MCDelegation,     Delegation_proofs
```

Each component module has its constants with named assumptions, one action per
stretch of code between two points where something else can run, a
specification, its properties with the behaviour of the code they are about, and
beside some actions a *variant* with a plausible mistake, which the
corresponding property has to reject. The variants are not part of `Next`. `MC*`
modules hold the instances for TLC; `*_proofs` modules the theorems. `Cron_proofs`
and `Conversation_proofs` are each about two components, whose names of state,
actions and properties therefore differ. No component module declares a RECURSIVE operator.

### Approval and ApprovalGate

`pc[r]` is the place of the task of request `r`: `ToolGate` is the policy check
in `execute_tool`, `KernelRequest` the hand exemption in `request_approval` of
the kernel, `CheckLimit` and `InsertPending` the two halves of
`ApprovalManager::request_approval` before its await, `Receive`, `TimerFires` and
`RemoveExpired` its end, `DropWaiting` the dropped future. An approver is a
thread: `ResolveRemove` takes the entry with its sender out of the map,
`ResolveSend` uses the sender and answers. `UpdatePolicy` is the hot reload,
`HandKilled` a hand agent leaving the registry. `pending` holds the keys of the
map, `chan[r]` the oneshot channel; `acks` is the history of the answers to
approvers. REST requests (`POST /api/approvals`) enter at `submit`.

`ApprovalGate` is what the gate promises: an operation goes ahead unasked only
while no approval is `required` for it; once it is "asked", only the one answer
"Approved" to that very request lets it go ahead, and a timeout, a full queue or
a lost channel refuses it. `ImplementsGate` is the refinement. A tool call is
required to ask while its tool is in the policy and its agent is no registered
hand, a REST request always (`Required`); it is asked from the moment the kernel
hands it to the manager; an answer exists from the moment an approver owns the
sender.

### CronScheduler and CronStore

`CronScheduler`: `jobs[j]` is the mutable part of `JobMeta`. The tick loop is one
process: `LoopTick` is `due_jobs` with its pre-advance, `StartJob` fires one job
of the batch, and the outcome actions are `record_success`, `record_failure` (with
its panic) and the separate removal of a one-shot job. Clients add in two steps
(counts, insertion), remove, and toggle between any of the loop's steps.
`NextRun` is `compute_next_run`; a cron expression is the function `Upcoming`,
of which the assumption only says that it is later than its argument and
monotone. One unit of the clock may be any time; `MaxTime` bounds it.

`CronStore`: `persist` is `Snapshot`, `Open` (truncates the shared temporary file),
`Write`, `Rename`; a file has an identity that open descriptors follow
(`fd`). `Create`, `Delete`, `Complete` and `PeriodicPersist` are its callers,
`CrashAndLoad` a restart with `load`. `PersistFails` is an error of serialising,
opening, writing (in part) or renaming, which the callers only log. `told[j]` is what
a caller was told; `missed` and `lost` are history: jobs answered over a failed
persist, and jobs forgotten for that reason.

### WorkflowEngine

`Create` is `create_run` with the eviction (`Victims`), the other actions are the
stretches of `execute_run` between awaits: `Resolve`/`AgentMissing` before a call,
`CallSucceeds`/`CallFails` (with `SkipStep`, `Retry`, `GiveUp`) after it,
`LoopTest` between iterations, `FanOut`, `FanEnds`, `Join` for groups, `Collect`,
`SkipConditional`, `Finish`. `Drop` is the hour's timeout or a request given up,
`KillAgent` an agent leaving the registry. `unresolved` is history: the runs that
`AgentMissing` leaves Running. Texts are sequences of the answers
they are made of, which is what the properties tell apart.

### AgentLifecycle

`spawn[a]`, `kill[a]`, `rename[a]`, `trigger[a]` and `copy[s]` are the progress of
requests; each action is the next operation on a shared map or on the store.
`SpawnGrant` .. `SpawnDone` are `spawn_agent_with_parent` with
`AgentRegistry::register`, `KillRemove` .. `KillRow` are `kill_agent` with
`AgentRegistry::remove`, `RenameCheck` .. `RenameIndex` are `update_name`.
The four tables that a kill strips are four steps in the order of the code, and so
are the two grants of a spawn. `UpdateRead` and `Save` are `set_agent_model` and its siblings, `ShutdownList`,
`ShutdownRead`, `ShutdownSkip` and `Save` the loop of `shutdown`. `Restart` is the
end of the process at any point followed by `boot_with_config` and
`start_background_agents`; `Loaded` is `load_all_agents` with its comparison of
names in lower case and the rows it skips, before their name is taken (a row that
cannot be read) or after (a bad id, manifest or state); `RestartUnloaded` is a boot
whose `load_all_agents` fails as a whole, which is logged. `overlapped`, `raced`,
`gone`, `undeleted`, `unread` and `broken` are history.

### SessionRepair, LoopGuard and AgentLoop

`SessionRepair` holds the pure functions: `ValidateAndRepair` is
`validate_and_repair` phase by phase, `PruneHeartbeatTurns` the removal of silent
turns, `TrimHistory` and `RecoverFromOverflow` the cuts of a long history. A message is a role and a sequence of blocks; of
texts only what the code tells apart is kept (text, blank, NO_REPLY). `LoopGuard`
is `LoopGuard::check`: counts, the multiplier for polling calls, cycles of two or
three calls, warnings, the circuit breaker.

`AgentLoop` is `run_agent_loop`. `stored` is the session in the database, `work`
the session of the turn, `msgs` what is sent. `Begin` loads, appends and repairs;
`SendRequest` is the top of an iteration; the `Answer...` actions are the branches
on the reason the model stopped; `CallTool`, `CircuitBreak` and `CallsDone` the
tool calls; `RetryRequest`, `RequestFails` and `GiveUp` the error paths. Every save
may fail where the code only logs the failure, and `Abort` ends the turn anywhere.
Model and tools are external: any answer is considered.

### Sessions

Several turns (`stage`, `sid`, `held` of each), compactions (`comp`), a reset in two
steps, new sessions, switches, `SaveEntry` and `Crash` over the tables `rows` and
`canonical`. `BeginBlocking` and `BeginStreaming` are the two ways into a turn,
`SaveProgress`, `Answer`, `AnswerCutOff` (the partial answer, returned whether it is
saved or not) and `Fail` what the loop does to the session, `LoadCanonical`, `SaveCanonical` and `Return` what follows it, `Drop` the end of a
turn by its abort handle or its client. `CompactRead`, `StoreSummary` and
`SaveCompacted` are the stretches of `compact_agent_session`, `CompactFails` and
`CompactStops` its errors. `alone`, `said` and the reasons a turn may be missing
from its session (`unstored`, `deleted`) or from the memory are history.

### Dispatch

A background loop sleeps, waits (`queue`) or works; `tick` is the self-prompt it
has started, with its permit and its busy flag, which the watcher returns in two
steps (`TickEnds`, `ClearBusy`). `Admit` is the two quota checks before a turn,
`Record` what is charged after it; `TimePasses` ends a window. `Send` and its ends
are the turns of others. `KillRemove` and `KillClean` are the parts of `kill_agent`
that matter here; a loop that waits for a permit leaves the queue.

### Triggers

`CheckAgent`, `Insert` and `Index` are a registration, `RemoveTrigger` and `Unlist`
a removal, `KillRemove`, `KillIndex` and `KillTrigger` the end of an agent, each
access to a map a step. `Visit` is one turn of the loop in `evaluate`; `Publish`
with `DispatchHits` is `publish_event`; between the two it waits for the lock of the
event bus, where a tool's timeout or a client that hangs up drops it
(`DropPublisher`). `SpawnEvent` with `DropHits` is the event that `spawn_agent`
evaluates and whose messages it drops. `unsent` is history: the fires of both.

### TaskQueue, A2ATasks, Hands, Peers and Delegation

`TaskQueue`: `TaskStamp` and `TaskPost` are `task_post`, which reads the clock
before it has the lock; `TaskClaim` and `TaskComplete` are one step each, under
the lock. Callers are agents, of which nothing asks whether they live, and clients
of the MCP endpoint, who have no name (`Nobody`). `A2ATasks`: the store with its eviction (`SendTask`, `Inserted`), the turn
inside the request (`FinishTask`, `Reply`), `CancelTask`, and `HangUp`, the client
that leaves. `Hands`: `ActivateCheck` ..
`LinkAgent` are `activate_hand` down to the registration of the agent and its
save, which may fail (`SpawnRegister`); `DeactivateHand` and `KillHandAgent` are its
end, with a user who kills the agent behind the hand's back. A client may rename
the agent: `RenameCheck` .. `RenameIndex` are `update_name`, `named` and `names` the
two places of a name, and `rows` the name that was saved last. `HandRestart` restores
the rows that can be read. `Peers`: a connection with the place of each end, the
handshake, registration in either order, breaks, and nodes that come back with a
new identifier. A loop ends in `ClientMarks` or `ServerMarks`, or, when the turn it runs in
its own task panics, in `ClientPanics` or `ServerPanics` without a mark; `orphaned` is
history: whose loops did, and were not marked since. `Delegation` puts them beside each other over one registry of
agents, with restarts of this daemon or another.

## 3. What the runs check

| Run | Question | Distinct states |
|---|---|---|
| `approval` | limit, one right answer per request, refinement of the gate, every request decided and awaited entries leave | 127 000 |
| `cron_recurring` | interval and cron job with two clients: spacing, error limit, no resurrection | 168 000 |
| `cron_live` | one-shot At job beside an interval job: once only; due jobs fire | 25 000 |
| `cron_panic` | *violated*: a message cut inside a character kills the loop (`DueJobsFire`) | |
| `cron_store` | answers are durable in a file that parses, the map is saved in the end, with errors of the file system | 844 000 |
| `workflow` | three workflows: true records, completeness, data flow, retention, eviction order, termination | 92 000 |
| `lifecycle` | two agents of one name: grants, index, death, restarts | 2 120 000 |
| `turn` | two turns with aborts and failed saves: requests accepted, answers stored, guard, termination; repair and guard on all short inputs | 193 000 |
| `sessions` | two turns, compactions, resets, switches, failures, crashes: what was said is kept but for the named reasons, nothing is misplaced | 3 000 000 |
| `dispatch` | loops, permits and quotas with kills and shutdown; loops go on | 194 000 |
| `triggers` | two events, registrations, removals and kills at once: fire counts, index, delivery | 970 000 |
| `delegation` | tasks handed out once, eviction, one reachable agent per hand, connected peers, mutual links | 291 000 |

A violated property is the sentence of a comment, a document or a test that the
code does not keep; `PROJECT.json` quotes it under `findings`. Every property of a
passing run fails when one mapped definition is replaced by the variant named
under `mutants`. Every component module defines its type invariant (`TypeOK`,
`StoreTypeOK`, `SessionsTypeOK`); each is proved (section 4) and can be added to
any cfg as an INVARIANT.

Some properties hold only under a condition, which they state; what happens
otherwise is in the model, and in section 5 where it contradicts something written:

* `AnswersAreDurable` holds until two writers have been in `persist` at once
  (`overlapped`). A `persist` that fails is logged and the caller still told
  "created" or deleted (`kernel.rs:5371`, `kernel.rs:5403`): what it was told is then
  in the map only (`missed`) until the next `persist` that succeeds, and forgotten if
  the process dies before (`lost`), as is everything in a file that cannot be read.
  `EventuallySaved` holds in spite of overlaps and errors, once the errors end.
* `RecordsAreTrue` leaves out what a caller was told of a run whose agent could
  not be resolved (`unresolved`): the error is returned past the code that marks the
  run, so the caller is told that the workflow failed and the record says Running.
* `IndexExact` holds until two changes of the registry overlap: check and
  insertion are separate, and the code does not exclude that two spawns find one
  name free.
* `GoneForGood` leaves out an agent that was killed while another request was
  between reading its entry and acting on it: the saved copy brings the row
  back (`raced`). Of a kill whose row the store fails to delete, which
  `kill_agent` ignores (`kernel.rs:3350`), it says less: the agent is away until
  the next boot, which restores it.
* `RestartKeepsAgents` allows a boot to lose the agents of rows that it cannot use
  (`structured.rs:280`, `296`, `306`, `330`), the agents whose name such a row took
  before it was skipped, and every agent when `load_all_agents` fails
  (`kernel.rs:1687`); all of these are logged and the boot goes on.
* `OvershootBounded` allows `Workers - 1` requests above the limit,
  `QuotaOvershootBounded` the cost of as many turns as were under way at one time
  (`peak`), `A2AStoreSound` as many tasks above the limit as were working.
* `RetentionBounded` counts the runs that were left behind by dropped tasks and
  unresolvable agents besides those in execution.
* `SessionsHoldWhatWasSaid` speaks of turns that nothing overlapped, and leaves
  out partial answers that could not be saved: after too many continuations the
  caller gets what there is, and the failed save is only logged
  (`agent_loop.rs:681`, `1575`). `RememberedAcrossSessions` also leaves out turns
  whose append to the canonical session failed, which is only logged
  (`kernel.rs:2314`, `2796`), turns that pruned silent ones, a summary that was
  replaced by a later compaction or outgrew its limit.
* `AnsweredIsStored` calls answered the turns that end with an answer of the model;
  a partial answer whose save failed is text for the caller, not an answer there.
* `RequestsAccepted` asks of every request that each call is answered once, and
  the full form of the first request of a turn whose history was not trimmed.
* `IndexSound` leaves out the triggers whose registration had found its agent
  before the agent was killed.
* `FiredIsServed` leaves out the events whose publisher was dropped while it waited
  for the event bus, after their fires were counted (`kernel.rs:3643`): of such an
  event no message is sent at all.
* `HandAgentsSound` is about names: an agent that was renamed frees the name of its
  hand, and the next activation gets another agent, with the hand's name. It leaves
  out names that two calls (activations or renamings) found free together since the
  daemon was started (`overlapped` in `Hands`), and of the agents without an instance
  those that could not be saved when they were spawned (`kernel.rs:1807`: the
  activation fails, and the agent runs), whose instance was deactivated before it
  had them, or forgotten in a restart. It leaves out the name, not the two agents: an
  agent that is killed frees the name of both, so that a third instance, whose
  activation overlapped nothing, may get an agent next to the second. Two instances
  per hand do not show this, the proof did.
* `ConnectedHasLoop` leaves out a peer whose loop panicked in a turn
  (`peer.rs:534`, `kernel.rs:5660`; a panic is at `session.rs:443`), until another
  connection of it ends and marks it: it stays listed as connected.
* `InputIsLatest` says what follows a `Collect` unless a `Loop` that got no answer
  (no rounds, or skipped) was passed since the last answer: the loop then adds the
  input it was given to the outputs once more (`workflow.rs:762`), and the
  collected text ends with it instead of the group. None of the three workflows
  of the run has this shape; the proof met it.

### Bounds, and why they are enough

* *Approval:* three requests of one agent, `MaxPending = 1`, `Workers = 2`: the
  limit is reached, overshot by one, and the third request is refused; two
  approvers race for an entry and with its timer. One request is from REST, two
  are droppable. The number of steps is bounded by the code itself.
* *Cron:* `MaxTime = 4` or `5` gives an interval of two units two or three runs and
  a missed tick; `MaxErrors = 2` is reached and reset in that time; two jobs make
  a batch in which one waits for the other. `MaxPerAgent = 1` in `cron_recurring`:
  a second job is refused, or slips in between the count and the insertion of
  the first. `MaxTotal` and the other runs' `MaxPerAgent` are 2, with two jobs, and
  refuse nothing; there the refusal is that of an At time in the past.
* *CronStore:* two jobs, two writers, `MaxCrashes = 1`, `MaxFailures = 1`. A second
  crash meets a state that a first one can meet; one error is enough for an answer
  over a failed persist, for a crash on top of it, and for a file not read.
* *Workflow:* `MaxRetained = 2` with three runs makes eviction happen;
  `MaxActive = 2` executes two at a time, the third after one has ended. The
  three workflows use each mode, each error mode, a loop that stops early and one
  that does not.
* *Lifecycle:* two agents with one name, three names of which two differ in case,
  `MaxRequests = 2` requests at a time beside shutdown; restarts are unbounded, and
  each may skip the row of one agent (`Damaged`) or fail to load any.
  Every race that the properties mention is between two parties.
* *AgentLoop:* two turns, so that the second begins with what the first left;
  two iterations, one retry, two continuations and four calls, at most two in a
  response: each limit is reached and refuses. Thresholds are scaled down with
  their order kept (warn 2, block 3, breaker 3, poll times 2). `MaxHistory = 5` is
  passed in the second turn. Repair is checked on every history of up to four
  messages of a set that has each kind of damage, the guard on every sequence of
  up to nine calls, which is three rounds of three.
* *Sessions:* two turns, two sessions, two events (resets, new sessions,
  compactions asked for, failures of the store or of a compaction, crashes). Compaction begins above one message and the
  canonical summary above two, so both happen beside a turn.
* *Dispatch:* two looping agents and one permit, so that one waits; a third agent
  is spawned later; the first has quotas that one turn exhausts, and one message
  from outside.
* *Triggers:* a restored agent and one that is spawned with a trigger of its own;
  one trigger has a limit of one, the other none; two events at once reach the
  limit together.
* *Delegation:* two instances of one hand, one agent beside them, two tasks, three
  A2A tasks for a store of one, three nodes of which one has another secret, two
  connections, one restart. The parts share only the registry, which none of
  them but the hands changes: the constraint `Apart` explores each beside the
  idle others, and one renaming at a time; the proofs have neither limit. Symmetry is sound: only invariants are
  checked, and nothing names an instance, an A2A task or a connection.

`CHECK_DEADLOCK FALSE` is set where the modelled clock or a bounded set of jobs,
runs, turns, events or tasks comes to its end; `Approval`, `CronStore` and
`AgentLifecycle` never stop.

### Fairness

Weak fairness of the steps of a task, because the runtime polls ready tasks and
fires timers; of the outcome of an agent's call, because each is under a timeout
(`kernel.rs` for cron turns, the workflow executor's step timeouts); of the tick
loop's return to `persist`; of the clock. In `AgentLoop` it is assumed of the
model and the tools that they answer or fail: tools are timed out, but the HTTP
client of a driver is not, and `TurnEnds` is worth as much as that assumption.
`Dispatch` assumes that turns end, which is `TurnEnds`, and that the semaphore
serves its queue in order, which tokio documents. `Triggers` assumes that the loop
of `evaluate`, which has no await, and the tasks that carry messages go on, and that
a publisher that waits for the lock of the event bus, which is fair and held over
no await, gets it or is dropped; which of the two is open.
Approvers, clients, kills, crashes and drops are under no obligation. Weak
fairness suffices: once enabled these steps stay enabled until taken, or, for
the pair `Receive` and `TimerFires`, their disjunction does.

## 4. What is proved

The theorems hold for all values of the constants that satisfy the named
assumptions (finite sets of requests, jobs, runs and agents, limits that are
numbers, tables of the right type, `Upcoming` later and monotone, messages in
which calls are the assistant's and results the user's, a canonical session that
keeps no more messages than its threshold, thresholds of the guard in the order of
its defaults).

* `Approval_proofs`: `TypeCorrect`. `OvershootTheorem`: the bound on the map is not
  inductive; what is bounded is the map together with the requests that have been
  counted and not yet inserted (`ClaimsBounded`), because a request is counted
  only if fewer than `Workers` others are in that stretch, and an insertion moves
  a claim without adding one. `SenderTheorem`: through `SenderInv`, a sender is in
  the map, with one approver, or used; a channel speaks for one approver; a
  closed request took the word of its channel; an entry is awaited or dropped.
  `GateTheorem` is the refinement `Spec => ImplementsGate`: the initial states map to
  the gate's, the kernel's hand-over to the manager maps to asking, an approver
  that takes the sender to the human's answer, the end of a request to the gate's
  verdict, a reload or a killed hand to a change of what is required, and every
  other step to a stutter. It needs that only a finished task has an outcome, that
  a REST request is never at the exemptions, and that the answer the mapping
  chooses is that of whoever owns or used the sender (`GateInv`).
* `Cron_proofs`, the scheduler: `CronInv` joins types, the loop's batch and current job
  (`LoopInv`), single use of ids (`FreshInv`), the error counter of every job that
  is enabled *or whose outcome is still to come* (`ErrorInv`) and one-shot jobs
  that succeeded (`SucceededInv`). `CronTypeCorrect`, `EnabledTheorem`,
  `OneShotTheorem` and `RemovedTheorem` follow. `SpacingTheorem` needs `SpacingInv`
  in addition: the next run of a job that was started lies an interval (or a
  match) behind that start, and a job in the batch is already due again in that
  sense; a loop that has died starts nothing.
* `Cron_proofs`, the store: `StoreTypeCorrect`, and `DurableTheorem` through `DurableInv`:
  while writers have not overlapped a writer is alone and its temporary file is its
  own (`Alone`); map, file and the snapshot under way all hold what callers were
  told, since each becomes the file (`Tells`), the file without what is missed; and
  map and snapshot hold what a writer is about to tell its caller (`Promises`).
* `WorkflowEngine_proofs`: `LifeInv` relates the task of a run, its record and the
  reply to its caller. `RecordsTheorem` follows from it; `EvictionTheorem` from the
  fact that a victim is older than every ended run that is not one
  (`VictimsOldest`) and that no other action takes a run out. `RetentionTheorem`:
  the victims are all ended runs or at least as many as are in excess
  (`EnoughVictims`: the oldest run that stays has only victims before it), and what
  is neither ended nor stranded is in execution. `WholeTheorem` and `InputTheorem`
  rest on `RunInv`, about the data of one run at a time: results are in the order
  of the steps and none is of a step ahead (`Before`); a step that is passed has
  its result if it must have one (`Done`); in a loop the rounds are the results of
  its step (`PlaceOf`); and `outs`, not only the input, ends with the answers of
  the group the last result belongs to (`TextOf`), because what a later `Collect`
  takes is `outs` at that time. A group's calls may end in any order, yet the
  results recorded are a prefix of the group (`GroupInterval`, `NewResultsAre`).
  `WorkflowTypeCorrect` adds that attempts are counted during a call only
  (`CallInv`).
* `AgentLifecycle_proofs`: `LifeInv` adds to the types that nobody but its spawn
  knows an agent that is not registered yet and that an agent being killed is out
  of the registry (`KnownInv`). `LifecycleTypeCorrect` follows, `GrantTheorem` is
  inductive on top of it with the capabilities of a spawn that has no quota yet
  (`GrantInv`), and `GoneTheorem` uses `GoneInv`: an agent killed alone
  stays alone, and what a kill has removed stays removed. `IndexTheorem`: that the
  index is exact at rest is not inductive; `IndexInv` says what the index holds of
  every agent (`IndexedAs`) at every step of a spawn, a kill and a rename, and that
  a name found free stays free until it is taken (`NamesReserved`), which is where
  an overlap of two changes hurts. `RestartTheorem` needs that an agent whose spawn
  was answered has a row for as long as it is in the registry (`RowInv`), and what a
  boot may leave out (`Restarts`).
* `Dispatch_proofs`: `DispatchTypeCorrect`. `PermitTheorem` counts free permits and
  ticks that hold one; it needs `QueueInv`, by which a loop waits in one place of
  the queue and has no tick, so that a permit goes to a loop without one.
  `QuotaTheorem` is not inductive either: `BudgetInv` says that there is room for
  what every turn under way may still add, which a turn that is admitted below
  the quota restores.
* `Triggers_proofs`: `IndexTheorem` through `KeyInv`: an identifier that is not used
  yet is nowhere; one that is to be inserted is in no map and in no other request;
  one that is to be listed belongs to the agent that asked; one that is to be
  taken off a list has left the map; and who is still registering has a living
  agent, or the race is on record. `FiresTheorem` joins it with `EventInv`, by which
  an event that is still at work has not visited a trigger twice and has sent
  nothing yet, so that a visit that counts adds exactly one fire, and with
  `CountInv`: an identifier without a trigger has no fires, the count is that of
  the fires for as long as the trigger is there, and the limit holds also when it
  has left. `TriggersTypeCorrect` needs that an identifier belongs to one agent from
  the moment it is given out (`OwnerInv`).
* `Delegation_proofs`: `HandedOutTheorem` with the remark that a task nobody could
  claim yet was not handed out, and that the least of a set of numbers is in it.
  `ConnectedTheorem` and `LinksTheorem` through `PeerInv`: an end that is not done
  belongs to its node as it runs now, so a node that starts again, with a larger
  number in its identifier, is never taken for the old one; a handshake is
  answered only between nodes of one secret; who has accepted a connection
  has registered the other end before its loop begins; and a pair leaves `orphaned`
  only by a mark or with its node. `A2ATheorem`: the bound on
  the store needs the place of each request's task (`TaskOfRequest`), and that the
  tasks in progress were never more than their peak. `HandTheorem` needs, of each name
  that no two calls found free together (`NameOK`): who is about to take it, by an
  activation or a renaming, is alone and has found it free; an agent with the name
  is in the index or is about to be put there; and what a renaming takes out of the
  index is the agent itself. What an activation has done by each of its steps is
  `ActivationOK`, and what an entry says of the name `EntryOK`. `DelegationTypeCorrect` adds that a
  task whose turn is still running has no answer yet (`AnswerInv`), and that a
  connection was opened between two nodes or not at all (`OpenInv`).

* `Conversation_proofs`, the sessions: `SessionsInv` adds to the types what each
  stage of a turn has (`Stages`), that nothing is under way beside a turn that is
  marked as alone (`Alone`), that no copy
  anywhere holds a question of another session (`Own`), that an answered turn is in
  the row *and in every copy that may still be written back* (`Kept`), and the same
  of the canonical session (`Remembered`). Neither property is inductive, since a
  session is read and written back as a whole with a wait in between.
  `SessionsTypeCorrect`, `SessionsKeepWhatWasSaid` and `CanonicalRemembers` follow. That
  the first answer of a turn survives `ValidateAndRepair` and
  `PruneHeartbeatTurns` is a lemma about histories of any length (`RepairedTalk`).
* `Conversation_proofs`, the turn: `TurnInv` says what a turn has loaded and asked
  (`Opened`), what an answered one left in the database (`AnswerKept`) and that
  every execution was counted by the guard (`Counted`).
  `AnswersAreStored` and `ExecutionsStayBounded` follow, `TurnTypeCorrect` with the
  bounds of the counters (`TurnBounded`), and `QuestionsAreKept`, an
  action property, from what pruning takes out of a history.
* `Conversation_proofs`, repair: `RepairStaysSound` holds for histories of any length,
  phase by phase. Given that an identifier is used by one message (`Apart`),
  `DropOrphans` leaves results of calls that exist in messages that are not empty
  (`Full`), `ReorderResults` leaves each result right behind its call (`Linked`),
  `InsertSynthetic` leaves no call without one (`Closed`), `Deduplicate` no second
  (`Once`), `RemoveAborted` nothing blank (`Voiced`) and `MergeRoles` no two messages
  of one role in a row (`Alternates`), each keeping what the ones before gave;
  together they are what a provider accepts (`SoundIsWellFormed`). Every phase is
  the identity on such a history (`Settled`, `SoundStays`), so repair is idempotent.
* `Conversation_proofs`, requests: that a request is accepted is not inductive, since
  it is built over several steps from a history that an aborted turn left.
  `RequestInv` says that the calls in the database and in the session are numbered
  by what was given out (`Numbered`, which is what makes them `Apart`), that between
  requests the calls in the messages are answered (`Sendable`), and that while tools
  run only the last message has open calls, whose results and remaining calls are
  consecutive (`Awaiting`). `RequestsStayAccepted` follows.

* `Conversation_proofs`, the guard: `GuardStaysSound` joins `ExecutionsStayBounded` with
  the statement about the guard alone, for call sequences of any length. After
  each call (`GuardAt`) the counts are those of the calls so far, `recent` is their
  end (`Recalls`), and every verdict so far is right (`Judged`). A cycle in `recent` is
  one in the calls (`CycleSeen`), because `HistorySize` holds three rounds of three,
  and the count of rounds finds at least the three that were detected
  (`PingPongRepeats`: a sequence that ends in three rounds of three calls does not
  end in two rounds of two). The proof needs what the one configuration in use
  has, and `DefaultsOrdered` assumes: warning no later than blocking, three repeats or
  fewer to block a cycle, nine calls or more remembered.

Induction over data is stated with sets: the library's induction theorems take
a predicate, which the provers cannot instantiate, but `Induction`, `Recursion` and
`SubsetInduction`, proved from the well-foundedness of the numbers, take the set
of the numbers or subsets for which something holds. The folds and selections of
the community modules get their recursive equations from them, once each.

Two statements were wrong for instances TLC had not been given, and were
corrected where the proof failed: `HandAgentsSound` and `InputIsLatest` (section 3).

Only model-checked: all liveness (`EveryRequestEnds`, `DueJobsFire`,
`EventuallySaved`, `EveryRunReturns`, `TurnEnds`, `LoopsGoOn`, `FiredIsServed`; beyond
the prover). Every safety property of a passing run has a theorem.

## 5. Where the code and what is written about it part

Met while modelling. The first has a run; the others are described by the models
or by the code they abstract, without a run of their own.

* `cron_panic`: an error message cut at byte 256 inside a character ends the tick
  loop (see `findings` in `PROJECT.json`).
* *Approval, cron, workflows, agents.* A request dropped by its tool's timeout
  leaves its entry for ever (`approval.rs:66`; `types/approval.rs:85`). An At job
  without `one_shot` fires again on every tick (`cron.rs:313`;
  `types/scheduler.rs:84`). Concurrent persists share one temporary file
  (`cron.rs:122`; the comment at `cron.rs:116` says atomic), and a failed one is
  answered like a good one. An unresolvable agent leaves
  its run Running, and out of eviction's reach, although its caller got an error
  (`workflow.rs:467`; "the workflow fails", `docs/workflows.md:90`). Of two agents whose
  names differ in case one is lost at restart (`structured.rs:288`;
  `kernel.rs:1804`). A spawn that fails on its name has already registered quota,
  capabilities and session.
* *Sessions.* A turn that prunes silent turns may leave the session no longer than
  it was, and nothing of it enters the canonical session (`kernel.rs:2794`;
  `session.rs:342`). A compaction replaces the earlier summary (`session.rs:318`).
  The summary keeps its last 4000 bytes (`session.rs:452`). Cutting a message at
  byte 200 panics inside a character, on every later turn again
  (`session.rs:443`). A compaction that the number of tokens asked for is refused
  by the number of messages (`kernel.rs:2061`, `kernel.rs:3236`). Pruning removes
  the tool results before a NO_REPLY as well (`session_repair.rs:644`). Trim and
  overflow recovery come after repair and may orphan a result. Reset, creation and
  switch of a session change only the registry, so a crash returns to the old one.
  The abort handle of an older streaming run is replaced (`kernel.rs:2371`).
* *Loop and guard.* With the default thresholds a ping-pong never blocks an
  ordinary call before its own count does; polling calls are blocked at 12;
  `record_outcome` has no caller. Two drivers map a stop to EndTurn even with tool
  calls in the response (`gemini.rs:615`, `openai.rs:401`). MaxTokens with an empty
  text sends two user messages in a row.
* *Quotas.* Streaming turns are neither asked nor recorded by the metering engine;
  `check_global_budget` has no caller; usage times are compared as strings of two
  formats, so that the window of the hour is that of the day.
* *Triggers.* `spawn_agent` counts fires and drops their messages
  (`kernel.rs:1842`; `docs/workflows.md:415`), and `publish_event` those of a publisher
  that is dropped at its await (`kernel.rs:3643`). An exhausted trigger is disabled
  by the next event only (`docs/workflows.md:486`). Agents with a loop that are
  spawned at run time get none until the next boot.
* *Delegation.* "FIFO eviction" (`a2a.rs:166`) takes the first ended task of a hash
  map. A client that hangs up leaves its task Working, which is never evicted. A
  late answer overwrites a cancellation, and a cancellation a completed task.
  `task_complete` asks neither owner nor status, and the task of a killed agent
  stays in progress. A hand whose spawn failed keeps an active instance without
  agent, and if it failed in saving, an agent without instance. A hand whose agent was
  renamed, paused and activated again has two agents (`registry.rs:228`). A paused
  hand's agent goes on receiving work. A client of the MCP endpoint claims tasks in
  nobody's name, which no one can tell from unassigned ones (`routes.rs:5278`).
* *Peers.* `broadcast_notification` opens a connection without a handshake, which
  the other end refuses. Inbound peers are listed with the source address of
  their connection. The end of a short connection marks a peer disconnected whose
  link lives. Handshakes are read without a timeout, bootstrap peers in turn. A
  restarted node has a new identifier, and its old entry stays. A turn that panics
  leaves its peer listed as connected (`peer.rs:534`).

## 6. Abstractions

* A `DashMap` operation is one step, and so is an iteration over one
  (`due_jobs`, the counts), except in `Triggers`, where `evaluate` visits one entry
  at a time. The code visits shard by shard, so an entry inserted or toggled
  meanwhile may or may not be seen. A step that sees all of it is one of these
  outcomes, not all of them.
* An agent killed during a call may still answer: the call holds a copy of the
  entry. Its answer is any member of a small set, which includes behaviours a
  given agent does not have.
* Approval: payloads, risk levels and listing. Cron: the reload of
  `max_total_jobs`, validation of texts, delivery of results, and the two chat
  handlers that do not persist. Workflow: `expand_variables`, names, durations;
  `remove_workflow` has no caller. Lifecycle: workspaces, tags, parents,
  `AgentState`, which boot overwrites.
* Agent loop: prompts, recalled memories, hooks that only observe, the texts of
  results. Sessions: how the compactor asks the model; results of tools in the
  histories (AgentLoop has them). Dispatch: one window stands for the hourly,
  daily and monthly ones; amounts are units. Triggers: a pattern is the set of
  triggers that an event matches. Peers: agent lists, framing, notifications.

## 7. Not modelled

The map names a few percent of the repository's lines. The rest is, for the
greater part, not state that operations change: of about 145 000 lines the CLI and
the terminal UI, the routes that serialise what a component returns, the types and
defaults of the configuration, the model catalogue, the migration of other
frameworks' files, forty channel adapters, drivers that translate between wire
formats, the schemas and bodies of sixty tools, templates, and the unit tests
inside every file. A module about these would restate a table or a format.

With state, and left out: the provider circuit breaker (both callers pass none,
so no reachable state depends on it); supervisor and heartbeat (counters without
a reader that acts); the audit log (a sequential hash chain); hot reload of what
is not the approval policy; users and access control (filled at boot); auto-reply
(one semaphore); memory beyond sessions and tasks (single SQL statements under one
lock); MCP, browser, WASM and Python guests (other programs); self-modification
(git and cargo). Pairing and the process tables are check-then-insert under small
limits, of the kind `Approval` has; they are next.

## 8. What is left

1. `Pairing` and the process tables, with the limits as properties.
2. Abort handles of streaming runs in `Sessions`: stopping stops the run it names.
3. The health monitor of extensions, with its backoff.
