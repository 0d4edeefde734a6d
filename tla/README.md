# Burrow: verification project

Burrow runs user-defined workflows: graphs of nodes (HTTP calls, scripts, database
operations, AI agents with tools) started by users, schedules, webhooks and
messages. This directory holds TLA+ modules of the parts of it whose behaviour
depends on the order of events, the TLC configurations that check them on small
instances, and theorems about them that TLAPS checks. Every definition is
translated from the Go source; `PROJECT.json` ("map") names the lines.

- [1. The system](#1-the-system)
- [2. The modules](#2-the-modules)
- [3. Runs](#3-runs)
- [4. Proofs](#4-proofs)
- [5. Where the code and its comments disagree](#5-where-the-code-and-its-comments-disagree)
- [6. Not modelled, and the plan](#6-not-modelled-and-the-plan)
- [7. Running it](#7-running-it)

## 1. The system

Three programs share a MongoDB database and a Redis server: `cmd/api` (HTTP and
WebSocket handlers), `cmd/worker` (executors, triggers, reaper) and `cmd/ui`.

| component | state it keeps | operations | talks to |
|---|---|---|---|
| Run store (`mongodb/workflow_run.go`) | one document per run: status, lease owner and expiry, `execution_state` (visited nodes, queue, pending gate), gate mirror | Create, ClaimLease, ExtendLease, ReleaseLease, CheckpointExecutionState, ApplyApprovalDecision, Update, two orphan sweeps | everyone; each call is atomic on one document |
| Executor worker (`worker/workflow_executor_worker.go`) | per loop: the claimed run | claim tick, heartbeat (about 10 s, lease 30 s), release, orphan sweep (every 10 s) | run store, executor |
| Workflow executor (`workflow/executor.go`) | frontier in memory: visited, queue, outputs, steps | RunFromCheckpoint, RunWithEvents: walk, route by outcome, checkpoint, yield, breakpoints, for_each | node handlers, run store |
| Agent (`workflow/agent*.go`) | conversation, iteration, pending tool calls | LLM turn, tool calls, approval gate, memory | LLM, executor, run store |
| Approval (`handler/run_approval*.go`, `workflow/approval_*.go`) | waiters by run, signed tokens | submit or redeem a decision, notify | run store, Redis |
| Cancel and reaper (`handler/run_cancel.go`, `worker/reaper_worker.go`) | the document as read | read, then write the whole document | run store |
| Triggers (`worker/workflow_*_worker.go`) | cron entries, consumers, back-off | create a queued run, acknowledge | run store, RabbitMQ, Redis, WebSockets |
| Worker registry (`worker/registry.go`, `mongodb/worker_health.go`) | one row per worker name | start, beat, stop | Mongo |
| Run events and control (`workflow/run_event_bus.go`, `rediss/broadcaster.go`, `handler/workflow_run_ws.go`) | subscriptions | publish, forward to a browser, pause/continue | Redis pub/sub |
| Sandboxes (`sandbox/docker`, `sandbox/k3s`) | pool of warm containers per image | warm, acquire, replenish, evict, close | Docker, Kubernetes |
| Debug sessions (`sandbox/dap`, `handler/debug*.go`) | port range, two channels per session | allocate, attach, step, detach | debug adapters |
| Documents (`handler/workflow.go`, `handler/connection.go`, `workflow/connection_resolver.go`) | workflows and connections by tenant, clients cached per process | save, patch, delete, resolve, invalidate | Mongo, other systems |
| Evals (`workflow/eval_runner.go`) | cases of one run, a daily cap | run the cases a few at a time | executor, run store |
| Tenancy and accounts (`mongodb/tenant*.go`, `handler/auth.go`, `handler/oauth*.go`) | memberships, invites, ways to sign in | ownership transfer, invites, sign-in, unlink, reset | Mongo, Redis |

**How they meet.** A trigger creates a run document with status `queued` and
publishes a wake-up. Executor loops claim the oldest claimable run under a lease,
walk the graph, write the frontier after every node and renew the lease from a
heartbeat goroutine. An agent that needs an approval mirrors the gate on the
document, checkpoints with `pending_approval` and gives the lease up; the
decision, when it comes, sets the run back to `running` for any worker to claim.
Cancel, reaper and approval read a document and later write *all of it* back, and
so do the gate mirror and the terminal write of the worker.

**What is hard.** The repository has unit tests of single calls against a mock
store. What they do not reach is the order of calls of several processes:
a worker that dies between two writes; a lease that lapses under a worker that
still runs, so that two walk one run; whole-document writes of a stale copy;
a decision that arrives early, late or twice; a write that fails and is only
logged. `PROJECT.json` ("hazards") lists forty such places by line, with the
properties that watch each of them.

**What makes each component correct**, in a line each:

- run store and executor worker: one worker per run while leases hold; a
  checkpoint never claims work that was not done; nothing is lost to a crash
  but the node in flight; a run ends;
- workflow executor: every routed edge is followed, no node is visited twice in
  a pass, a resumed walk equals an uninterrupted one;
- approval: no gated call without an approval of that call; a decision is
  recorded once and consumed;
- cancel and reaper: what is cancelled stays cancelled;
- triggers: a message runs at least once; `skip_if_running` means one at a time;
- sandboxes: a container is in the pool, in use, or removed, and never two of these;
- debug sessions: when the adapter is gone the container and the port are given back;
- documents: a write stays in its tenant and what is stored can run; an edited
  connection is used from the next call on;
- tenancy and accounts: a tenant has an owner; an account keeps a way to sign in.

## 2. The modules

| module | role |
|---|---|
| `RunStore` | the run document and what each repository call does to it: filters as predicates, updates as functions |
| `WorkflowRun` | workers, heartbeats, API requests, reaper, sweeps and failures over a collection of run documents |
| `DurableRun` | the abstract promise: nodes committed one after the other, success only at the end, every run finishes |
| `WorkflowRunProofs` | the TLAPS proofs about `WorkflowRun`: copies that are safe to resume from, gates |
| `DurableProofs` | those about its lease, about workflows without gates, and that it implements `DurableRun` |
| `Executor` | the breadth-first walk of `RunWithEvents` over an arbitrary graph, with breakpoints, gates, checkpoints and resumption |
| `ExecutorProofs` | the TLAPS proofs about `Executor` |
| `AgentLoop` | the AI agents of a run: turns, tool calls, the gates before them, and the snapshot by which a yielded turn is resumed; proofs in `AgentLoopProofs` |
| `ToolFan`, `ChatMemory` | one call of `fan_out` and the catalog behind it; the memory several runs of a chat share; proofs in `NodeProofs` |
| `LoopBody`, `SubRuns` | one `for_each`, sequential or parallel, and its body; workflows that agents call as tools; proofs in `NodeProofs` |
| `LiveGate` | breakpoints and node gates of a pass somebody watches: clicks, decisions, tee and control bridge; proofs in `NodeProofs` |
| `RunWatch` | the canvas or webhook that waits for a run, and every way in which the run ends; proofs in `ServiceProofs` |
| `EvalRuns` | the cases of an eval beside the executor worker, under the daily cap; proofs in `ServiceProofs` |
| `CronTrigger`, `StreamTrigger`, `WorkerRows` | schedules and ticks; queue, channel and socket consumers; the shared row of a worker's name; proofs about the first two in `TriggerProofs` |
| `SandboxPool`, `DebugSession` | warm containers and the requests for them; a debugger's goroutines, port and container; proofs about the pool in `SandboxProofs` |
| `WorkflowDocs`, `Connections` | documents of several tenants under concurrent requests; the clients cached for a connection; proofs in `ServiceProofs` |
| `Tenancy`, `Accounts` | members and owner of a tenant; the ways to sign in to one account; proofs in `ServiceProofs` |
| `MC*` | model values and symmetry for TLC; `MCTriggers`, `MCSandbox` and `MCPlatform` also put parts that share nothing side by side |

`WorkflowRun` and `Executor` look at the same loop from two sides. The first has many
runs, many workers and every database call, and a chain for a workflow; the
second has one run, the worker that holds it now, and any workflow. What one
abstracts the other keeps. `AgentLoop` opens a third side: what happens inside one
node when that node is an agent, or a loop over one.

### RunStore

`RunDocs` is the part of `WorkflowRun` (Go) that decides control. `Claimable` and
`ClaimLease` are the filter and the update of `ClaimLease`; `LeaseHeld` is the
`lease_owner = workerID` filter that `ExtendLease`, `ReleaseLease` and
`CheckpointExecutionState` share and that does *not* look at the expiry;
`ApplyDecision` is `ApplyApprovalDecision`; `WorkerOrphan` and `BootOrphan` are
the filters of the two sweeps. A Mongo call on one document is atomic, so each is
one step wherever it is used.

### WorkflowRun

One action per database call, because between two calls anything may happen.
A worker's `pc` names its next call; what it read before is in its record.

| action | code |
|---|---|
| `Dispatch` | a trigger's `Create` |
| `Claim` | `claimAndRun`: `ClaimLease`, and `RunWithEvents` hydrating from the document the claim returned |
| `LoadWorkflow`, `WorkflowGone` | `GetByID` of the workflow; on an error the document *as claimed* is written back as `error` |
| `RunNode`, `RefuseNode` | one iteration of the loop of `RunWithEvents`, up to its checkpoint |
| `ReadAtGate`, `MirrorGate`, `YieldCheckpoint`, `YieldRelease` | the lease-yield branch of `runAIAgent` and `yieldForApproval` |
| `Checkpoint` | the per-visit checkpoint; `ErrLeaseNotHeld` abandons the pass |
| `Reread`, `ReadFinal`, `PutFinal`, `Release` | the end of `RunFromCheckpoint` and of `claimAndRun` |
| `GiveUp` | every check of the cancelled context |
| `HeartbeatExtends`, `HeartbeatCancels` | `heartbeatLease` |
| `...Fails` | the same call returning another error, with what the code then does |
| `LeaseLapses`, `Crash` | the clock and the death of a process |
| `OrphanSweep`, `BootSweep` | the worker's and the API's sweep |
| `CancelRead/Write`, `ReapRead/Write`, `ApprovalRead/Apply/Orphans` | the handlers' Get and the reaper's listing, and their write |

**Abstractions**, and why they keep what the properties see:

- *A workflow is a chain 1..N.* The frontier (visited set and queue) is then the
  number of finished nodes and whether the queue is non-empty. Interleavings
  depend on where the calls are, not on the shape of the graph; the walk over
  arbitrary graphs is `Executor`.
- *Time is the flag `lapsed`* of a lease. A lease of a live worker lapses at any
  moment, at most `MaxLapses` times; that of a dead one at any moment, freely.
  The safety windows of the sweeps (60 s and 30 s past the expiry or creation)
  are not kept, so sweeps come at more moments than in the code.
- *A worker's loop keeps its identity over a crash.* A restarted process has a
  new lease identity in the code; here the old one is reused. The model thus
  also has the behaviours in which a new pass could be taken for the old one.
- *A graceful shutdown* is a `Crash` (claims stop, passes are cut off).
- *No live subscriber* waits for a decision: executor workers run with the
  lease-yield path, so an approval of a run that has not yielded finds nobody
  and marks the run an orphan (`ApprovalOrphans`). In-process gates, status
  `paused` (breakpoints), sub-workflows, `for_each` and `on_error` are left to
  later modules.
- `effects`, `granted`, `refused` and `strayed` are history variables: no guard
  reads them.

Bounds, all in guards: `MaxCrashes`, `MaxLapses`, `MaxFaults`, `MaxBoots`, and the
request sets (each request is one HTTP call or one reaper visit).

### Executor

The graph is a constant: nodes, edges with their handles, and which nodes are
triggers, `for_each`, `on_error: continue`, gated, or agents with a gated tool. A
frontier is `[visited, queue, fired]`: the first two are the maps and the slice of
the code and of `execution_state`; `fired`, the edges followed so far, is history.

| action | code |
|---|---|
| `Start`, `Resume` | the head of `RunWithEvents`: the queue is built from the triggers, or hydrated from the checkpoint |
| `Abandon` | a run without a checkpoint is not claimable again: the orphan sweep writes `error` |
| `Skip`, `SkipDangling`, `Take` | the head of the loop: dequeue; visited or a `for_each` body; no such node; a node to run |
| `Break`, `RollbackFails` | the checkpoint before a breakpoint or a yield, with the node put back in front of the queue; its error ends the pass |
| `Click`, `Continue` | `POST continue` through the control bridge into `continueCh` (4 slots, a full one drops), and `waitAtBreakpoint`, which takes one token and drains the rest |
| `Reject` | a gate rejected out of band: the error is returned, the walk ends |
| `RunNode` | the node executes and the edges of its outcome queue their targets: `success` or `error`, the edges without a handle always, and the success edges too after an error under `on_error: continue` |
| `Yield`, `Decide` | a gated tool call without a decision, and the decision |
| `Checkpoint`, `CheckpointFails` | the per-visit checkpoint; a failure that is not a lost lease is logged only |
| `Finish`, `Crash` | the terminal write; the death of the worker or the loss of its lease |

**Abstractions.** Inputs, outputs, the run context and the recorded steps are
dropped; of the steps only "one has an error that is not suppressed" is left
(`failed`). Edges leave a node in any order, so what holds of the model holds of
whatever order the edge list has. The bodies of a `for_each` run inside its own
step. A breakpoint may be set and cleared at any moment, so whether `Take` finds
one is a choice. The worker is the one of `cmd/worker` with Redis: without it no
`continueCh` is wired, a breakpoint is never waited at, and that path is not
modelled. The races on the terminal write are in `WorkflowRun`.

A click carries, as history, the wait it was made for (`clicks` holds the node
shown as waiting at that moment, or none); the code has an empty token. `stray`
says that a wait was ended by the click of another; no guard reads it.

Bounds, all in guards: `MaxCrashes`, `MaxFaults`, `MaxClicks`, `MaxYields`.

### AgentLoop

One run, a chain of steps (`Plan`), each an agent or a `for_each` over items whose
body is one. A turn of the model is the sequence of tools it calls; a call is
`<<turn, place>>`, which stands for the `tool_use` id. `me` is the memory of the
pass (`runEnv` and the locals of `runAIAgent`), `run` the document.

| action | code |
|---|---|
| `Claim`, `Enter` | hydration of the decision and the snapshot; an agent resumes if the snapshot is its own (`Merged`, `ResumeTurn`), else starts anew |
| `Think`, `Answer`, `NoAnswer` | `provider.Chat`: tool calls, a final text (refused where a structured answer is required), an error or the end of the iterations |
| `RejectCall` | a call whose tool was rejected ends the agent |
| `Mirror`, `MirrorFails` | the lease-yield gate: status, gate and snapshot written; a failed write is only logged |
| `Yield`, `YieldFails`, `YieldInLoop` | `yieldForApproval`; its failure; and `runBodyChain`, for which the yield is an error of the body |
| `OpenNodeGate`, `Click`, `DecideListening` | `preExecApproval` of the tool's node, ended by the canvas or by a decision out of band |
| `Execute`, `ToolFailed` | `catalog.Execute` and what an error does under the tool's `on_error` |
| `EndTurn`, `TurnOver` | results to the model and approvals cleared, or the end by `submit_final_answer`, which returns before that |
| `NextItem`, `EndStep`, `Checkpoint`, `CheckpointFails`, `Finish` | the loop, the walk and the terminal write around the agent |
| `DecideYielded`, `DecideOrphan` | `ApplyApprovalDecision` on whatever is pending, `cancelOrphanedApproval` |
| `Sweep`, `Crash`, `Cancelled` | the orphan sweep; the death of the worker; the heartbeat that finds the lease gone |

**Abstractions.** Prompts, arguments, results, costs and memory are dropped, and
with them the cost caps. A read and the write it leads to are one step and one
worker at a time works on the run: the races between them are in `WorkflowRun`.
The walk is a chain, since `Executor` has the graphs. The worker has the control
bridge. Not modelled: a tool that is itself an agent or a sub-workflow, debug
stops, the in-process gates of a run without a lease.

`ran`, `asked` and `verdict` are history, by call; in `used`, `lost` counts passes
whose lease a decision took away, and `astray` says that what a person was shown
and what the checkpoint waited for were no longer the same gate: the mirror
failed, or a decision came while the checkpoint still held the gate before.

Bounds, all in guards: `MaxTurns` (of all agents together), `MaxCrashes`,
`MaxFaults`, `MaxDecisions`; `MaxIters` and `MaxCalls` are settings of the code.

### Around one node: ToolFan, ChatMemory, LoopBody, SubRuns

`ToolFan` is one call of `fan_out`. The catalog is built as
`buildAgentToolCatalog` builds it (built-ins, skill tools, opted-in nodes; `Add`
drops a name it has; `FilterAllowed` drops the handler too; the map from tool name
to node is made before the filter). The calls run side by side; `Refuse`, `Misfit` and
`Admit` are `ToolCatalog.Execute`, `Synthetic` the step `fan_out` leaves for a call
that never reached its handler, and the gates of the nodes wait on the one
`continueCh`, the one registry entry and the one `pending_approval` of the run. The
three modes are those of `preExecApproval`.

`ChatMemory` splits `Load`, `Append` (read the highest `seq`, then an ordered
`InsertMany`, one step per document) and `Trim` (count, find, delete) over runs that
name the same session. `trimmed` is history: the highest `seq` that was deleted,
whether a trim deleted while another one was under way (`crossed`), and whether a
message came to be at or below that `seq` (`reused`). `MemorySound` promises that the
trims leave as much as the limit only until `crossed`, and that answers follow their
questions only until `reused`.

`LoopBody` is `runForEach`: the sequential loop, and the parallel one that looks
at `firstErr` and the context *before* it waits for a slot (`WaitsForSlot`,
`Dispatch`). An iteration walks its chains as `runBodyChain` does, over the edges of the
graph, `on_error: continue` and breakpoints included.

`SubRuns` is a stack of frames, one per `dispatchSubWorkflow`, each with its chain of
callers, and the `execution_state` that all of them share, because the checkpoint
bundle travels in the context (`Hydrates`, `FinishNode`).

### LiveGate

One pass somebody watches. The worker is `pass.at`: `Visit`, `WaitAtBreakpoint`,
`RequireNodeApproval`, `PersistPendingApprovalMirror`, `SubscribeGate`, `WaitAtGate`,
`ClearPending`, `RunNode`; beside it the tee goroutine (its flag `oobRejected` and its
token are two steps), the control bridge (`StartRunControlBridge`), the heartbeat that cancels the
context, and handlers that read the document and then publish or write it
(`SubmitRunApproval`, `ApplyDecisionAcrossPaths`, `CancelOrphanedApproval`, `CancelRun`).
The flag is not synchronised in the code; the reader may see it late.

### RunWatch

`RunWorkflowWS` queues the run and then subscribes; `HandleWebhook` polls. A run is
ended by its pass, a cancel, a sweep, the boot sweep or the reaper; some of these publish a
`run_done`, some do not (`EndsSilently`), and a publication reaches who is subscribed at
that moment. The end of `RunFromCheckpoint` is taken apart as the code has it: the read
that asks whether the run is at a gate (`StaysAtGate`, `Reread`, `RereadFails`), the read before the write
(`ReadFinal`), the write (`WriteEnd`, `EndIsNotWritten`). A pass that yielded goes through the same
reads; `DecisionOvertakes` is the decision that came before the first of them, after which the pass
writes the run ended without a `run_done`. `disturbed` and `unheard` are history.

### EvalRuns

`EvalRunner.Run` starts a case when one of its slots is free; a case checks the cap
(`SumCostSince` over the documents), creates a record `running` without a lease
(`RunResumable`), calls the model, re-reads and updates. `ClaimCase` is a claim loop of the executor
workers, whose filter takes such a record; `ClaimLoops` is `Worker.Concurrency` added up over their
processes, and a pass that finds its lease gone is abandoned (`WorkerGivesUp`). `ClientLeaves` cancels the request. Costs are
whole units, one for a call, and a sum over the cases is the number of its units (`CostSum`).

### Triggers

`CronTrigger`: `SyncSchedules` compares what a process tracks with the documents
(`Changed`); `Fire` starts a tick's goroutine, which counts, fetches and creates in three
steps. `StreamTrigger`: one consumer goroutine per active workflow and worker instance;
`Connects`, `Receive`, `FetchWorkflow`, `CreateRun`, `Ack`, `Leave` and `Loops` are the same
shape in three workers, and each worker's own functions are the named cases of it. A broker
keeps a message until it is acknowledged, a channel or a socket does not.
`WorkerRows`: the heartbeat is on its way for a while (`BeatSent`, `Beat`).

### SandboxPool and DebugSession

In the pool every goroutine is an entry of its own: a replenishment that has not
checked, one that creates, one that holds a container it has not added, a removal, a
request. The pool's lock makes `Acquire`, `addToKey` and `Close` one step each; `backend`
chooses Docker or k3s, whose pods can die in the pool and are checked when taken.
`strays` are containers nobody holds any more, which a later start removes.

A debug session is the handler, the client's read loop, the relay to the browser
and one goroutine per pause, over two channels. `Close` looks at `done` and closes it in
two steps, as the code does; a second close or a send on a closed channel sets `panicked`.

### Documents and people

`WorkflowDocs`: each request reads (scoped to its tenant, or by bare id), decides, and
writes by bare id. `Connections`: the resolver's lookup, load, dial and store are
separate steps, and a handler invalidates the cache of its own process.
A document is stored by a save, which judges it, by `DuplicateWorkflow`, which copies one as it
was read, or by `ForkWorkflowTemplate`, which copies a bundled template without its connections
and judges nothing.
`Tenancy`: a handler is a role check and then one document per step; `Stops` is a
failure between two of them, or of the last write of a transfer, which the code
ignores. `overtaken` are the removals that met a transfer between their read of
`owner_id` and their deletion; `unsynced` says that `owner_id` was left naming, or
was set to, a user who is no owner. An invite that expires is one that is revoked.
`Accounts`: one e-mail address, its password and links, and the workspaces minted
for it; `MissesMemberships` is the list of memberships whose error the sign-in drops.

**Bounds** of all these are constants whose names start with `Max`, and the sets of
requests, containers, consumers and clients.

## 3. Runs

Those of `WorkflowRun` have two workers. Nothing here is a deadlock to be reported: when every run
has ended and every bound is spent the system has nothing left to do, hence
`CHECK_DEADLOCK FALSE`.

| run | bounds | properties | shows |
|---|---|---|---|
| `RunCrash` | 2 runs, 2 nodes, 2 crashes, fair | `LeaseExcludes`, `ImplementsDurableRun` | with crashes as the only failure no two workers are on one run, and the store implements `DurableRun` with its fairness: no committed node is undone, no run with a checkpoint is given up, every run finishes |
| `RunLeaseLoss` | 1 run, 3 nodes, 1 crash, 2 lapses, 1 failed call, 1 API restart, workflow deleted or not | `StrayedBound`, `SuccessExecutedAll`, `CommittedProgressKept` | what two workers on one run can do to each other |
| `RunEnds` | 2 nodes, the first gated, the second failing, 1 decision, 1 reaper visit, 1 crash, 1 failed call, fair | `EveryRunEnds`, `DecisionConsumed` | a run ends or shows a gate; a recorded decision is consumed |
| `RunGates` | 2 gated nodes, 2 decisions, 1 cancel, 1 lapse | `GateRespected`, `RunInvariant`, `CancelSticks` | gates are respected across yields, stale writes and two workers; the inductive invariant of the proofs |
| `ExecutorWalk` | 6 nodes and a dangling id, 1 crash, 1 failed write, 2 clicks, 1 yield, fair | `FrontierInvariant`, `WalkComplete`, `ExecutedOncePerPass`, `CheckpointsGrow`, `WalkEnds` | any walk, cut off and resumed anywhere, visits what the outcomes reach and nothing else, each node once a pass, and ends |
| `AgentLoop` | a guarded agent, an unguarded one with a structured answer in a loop of two, a guarded one in a loop; 2 turns of up to 2 calls, 3 decisions, 1 crash, 1 failed write, fair | `RunsOnlyApproved`, `RanOnce`, `NothingSkipped`, `GateAskedOnce`, `RunSettles` | a turn that yields, once or twice, is taken up exactly where it stopped, with its own approvals and no others, and nobody is asked in circles |
| `Triggers` | 2 cron processes, 2 ticks open, 1 edit, 1 fault; 2 stream workers, 3 consumers, 1 message on each of three kinds; 2 processes of one worker; fair | `StackingBounded`, `ScheduleConverges`, `DispatchedAtMost`, `MessageDispatched`, `CancelledLeave`, `RowFollowsTheLiving` | schedules and consumers follow the documents, a queued message is dispatched at least once and repeated only by a fault |
| `Sandboxes` | 2 pool keys of which 1 is kept, 2 containers, 1 request, 1 fault, Docker and k3s; 1 debug session, 2 ports, 2 pauses; fair | `PoolSound`, `RequestsLeave`, `SessionsEnd` | no container is shared or forgotten, a request leaves, a debug session gives back what it holds |
| `Platform` | below | `OwnerKept`, `AccountSound`, `LoopAccounted`, `NestingBounded`, `RejectionHolds`, `DocsSound`, `SpendBounded`, `CacheSound`, `WatchersInformed`, `FanSound`, `MemorySound` | eleven parts, each with one property |
| `EvalTwice`, `SubRunLost`, `FanOutGates` | the part of `Platform` concerned | `ExecutedOnce`, `ResumesCleanly`, `ApprovalCarries` | section 5 |

`Triggers`, `Sandboxes` and `Platform` hold parts that share no state. A behaviour
moves one of them, chosen in the initial state, so the states add up and do not
multiply, and each part is checked as if alone.

| part of `Platform` | bounds |
|---|---|
| `Tenancy` | 3 users, one of whom may have joined before, 1 invite, 2 requests at a time, 1 that stops half-way |
| `Accounts` | 3 identities (two of one provider), 2 requests at a time, 4 workspaces, 1 fault or failed read |
| `LoopBody` | 3 items, a chain that ends at one of two nodes and a chain of that last node, parallelism 1 and 2, a cancel |
| `SubRuns` | 4 workflows, one of them another tenant's, depth 3, 2 passes |
| `LiveGate` | 2 gated nodes, the second with a breakpoint, 1 handler, which decides again and again, 2 clicks, buffers of one slot |
| `WorkflowDocs` | 2 ids, 2 tenants, 2 requests, two drafts (one calls the other document and leaves a value to its default, one lacks its connection; two return nodes or a missing value are refused the same way and are left to the theorem), 1 template, any number of failed probes |
| `EvalRuns` | 3 cases, 2 at a time, 2 claim loops of the workers, a cap of 1 |
| `Connections` | 2 processes, 2 nodes, 2 editors, 2 edits, 2 clients |
| `RunWatch` | 1 run, 2 claim loops, 2 faults |
| `ToolFan` | 3 sequences of 3 calls, an open and a bound agent, two gated nodes, parallelism 2 and the default, 1 click, 1 decision |
| `ChatMemory` | 2 runs on a memory of 2 messages that is full, 1 fault |

Why these bounds are enough to be interesting: two workers are what it takes to
lose a lease to somebody, two lapses let the run come back to the first worker,
three nodes leave one before, one at and one after the checkpoint that is lost;
two gates and two decisions let a decision meet the gate it was not meant for.
One request of each kind suffices to hold one stale copy; the proofs of section 4
lift the invariants of `RunGates` to any number of all of these.

The graph of `ExecutorWalk` has what makes a walk go wrong: a cycle that a
success leads back into, a join behind both outcomes of a node, a `for_each`
body that the walk is also led to by an error edge, and an edge to a node that
does not exist. One crash is enough to resume at every point of a walk, and the
failed write makes that resumption come from an older checkpoint; the theorems
of section 4 lift all but `WalkEnds` to any graph and any bounds.

In `AgentLoop` two calls in a turn are what it takes to yield behind a call that
ran, and to yield twice in one turn; the second turn is the one an approval must
not reach; the third decision can reject after two approvals, or come too late.
No agent in it is guarded and also structured or `on_error: continue`, unless it
never gets an approval: with those `RunsOnlyApproved` fails (section 5). It is not
claimed once `astray` is set either: a decision that is
recorded at another gate than the one shown approves, by name, what that other
gate asked for.

Elsewhere two requests at a time is what a race between a read and a write needs,
and one fault what it takes to leave a handler half done. Two items in flight and a third waiting is the
smallest parallel loop in which a failure arrives during the wait for a slot. A full
memory and two runs make two trims overlap; with a limit of two they empty it. Buffers of one slot (four in the code)
make the full buffer happen; nothing that holds of one slot uses its size. One handler that
read the run as waiting and two people who click are enough for a decision to come after its
gate is released and to wait for the next one. Two clients let one be built, made stale by an
edit, and replaced; three cases with two at a time let one start when the cap is reached. The
bounds of `Platform` are the smallest that do all this, since section 4 proves its
invariants for every value of them.

`StrayedBound` needs `ReapReqs = {}`: the reaper writes back the lease of the
document it listed, which can hand a lost lease back to its old owner, who then
goes on. `SuccessExecutedAll` is about workflows without gates and failing nodes
(a rejected node is not executed; a failing node ends its branch).

Several properties carry exceptions that the model's history marks: `misremoved` and `unsynced`
(`OwnerKept`), `overlapped` and `misread` (`AccountSound`), `moved` (`DocsSound`), `displaced` and
`outrun` (`CacheSound`), `unheard` and `disturbed` (`WatchersInformed`), `strays`
(`PoolSound`). Each names orders of events or lost calls with which the code does not keep
the promise, and is set by these only; the property says that there are no others.

**Fairness** (`FairSpec`), and what in the code justifies each part:

- a free loop's claim: the ticker of `runClaimLoop` attempts one at every tick;
- a worker's next call: database calls have timeouts and return;
- the lease of a worker that is gone lapses: the clock;
- the orphan sweep: every executor process runs it on a ticker;
- in `Executor`, weak fairness of the pass's own next step (`Step`: claim, walk,
  checkpoint, finish) and of `Continue`, the select that takes a token that is there;
- in `AgentLoop`, weak fairness of whatever the code does next (`Work`): providers
  and tools run under a timeout, claims and the sweep on a ticker;
- in `Triggers`, weak fairness of the syncs (tickers), of a consumer's own next
  step and of a heartbeat (ticker); strong fairness of `Leave`: the case of a cancelled context
  competes with deliveries in a `select`, and Go chooses at random among the
  cases that are ready;
- in `Sandboxes`, weak fairness of a request that has its container and of the
  goroutines of a debug session; programs, the daemon and the user owe nothing.

Users, the reaper, crashes, lapses under a live worker and faults get none.
`EveryRunEnds` says "ends *or shows a gate*": a run at a gate waits for a human.

## 4. Proofs

`WorkflowRunProofs` proves, for every number of runs and nodes, every set of
workers, requests, gates and failing nodes and every bound:

| theorem | statement |
|---|---|
| `RunInvariantHolds` | `Spec => []RunInvariant` |
| `TypeCorrect` | `Spec => []TypeOK` |
| `CheckpointsAreExecuted` | `Spec => []CommittedExecuted` |
| `GatesAreRespected` | `Spec => []GateRespected` |

The assumptions are the named ASSUMEs of `RunStore` and `WorkflowRun` (numbers are
naturals, the two "missing" values are none of the present ones, the three kinds
of requests are disjoint); TLC evaluates them in every run.

**Why the properties are not inductive as they stand.** `CommittedExecuted` speaks of
the store only. But a cancel, a reaper visit, the gate mirror, the terminal write
and the failed load write back a document somebody read earlier. So the
invariant has to hold of *every copy*: `DocOK` says of a document that the nodes
it counts as finished were settled, that an open queue has a node left, and that
an `approved` decision was granted at the very node it resumes. `MemoryOK` says
the same of the frontier of a worker on a pass, lease or no lease. `RunInvariant`
is `TypeOK`, `DocOK` of the store, of every worker's and every request's copy, `MemoryOK`,
and `GateRespected`.

**How the proof goes.** `Settled` and `granted` only grow, so a copy that was safe
stays safe (`Frame`); a write of a safe document keeps the store safe
(`SafeWrite`); a step that leaves a worker's frontier alone keeps its memory safe
(`SameMemory`); `Assemble` puts the conjuncts together. Each action then has one
lemma, and `StepInvariant` splits `Next`.

`ExecutorProofs` proves, for every graph with finitely many edges and triggers,
every choice of gates, breakpoints and agents and every bound:

| theorem | statement |
|---|---|
| `FrontierHolds` | `Spec => []FrontierInvariant` |
| `SuccessIsComplete` | `Spec => []WalkComplete` |
| `NodesRunOncePerPass` | `Spec => []ExecutedOncePerPass` |
| `CheckpointsOnlyGrow` | `Spec => CheckpointsGrow` |

**Why it needs strengthening.** `WalkComplete` speaks of the end. On the way, a
frontier is *covered* (the target of every edge followed is visited, queued or a
body), *founded* (nothing is in it that the edges followed do not reach from
the triggers) and *decided* (the edges followed from a visited node are those of
one outcome, none follows from the node still pending). When the queue is empty,
"covered" says that the visited nodes are closed under the edges followed and
"founded" that they are no more: that is `Reachable`, the least closed set. All
three hold of the memory and of the checkpoint, and the memory extends the
checkpoint, which makes `CheckpointsGrow` a corollary. `ExecutedOncePerPass` gets an
invariant of its own: a node that is not visited in memory ran at most once per
crash so far.

`DurableProofs` goes on about `WorkflowRun`:

| theorem | under | statement |
|---|---|---|
| `LeaseIsExclusive` | `MaxLapses = 0`, `ApprovalReqs = {}` | `Spec => []LeaseExcludes` |
| `WalkIsExclusive` | `MaxLapses = 0`, `ReapReqs = {}` | `Spec /\ [][FirstDecision]_vars => []WalkExcludes` |
| `ProgressIsKept` | `Gates = {}` | `Spec => CommittedProgressKept` |
| `SuccessIsExecuted` | `Gates = FailNodes = {}` | `Spec => []SuccessExecutedAll` |
| `CancelIsFinal` | | `Spec => CancelSticks` |
| `RunsAreDurable` | `CrashesOnly` | `Spec => Abstract!Init /\ [][Abstract!Next]_(Abstract!vars)` |
| `StrayingIsBounded` | `Gates = ReapReqs = {}` | `Spec => []StrayedBound` |

The conditions say which promise is meant: a lease excludes as long as it is
renewed, and nobody owes progress past a gate to a late write. With an approval
`LeaseExcludes` fails: it gives the run away while the worker that yielded is still on its way
out. `WalkIsExclusive` is what is left, below. *The lease*: a worker on a pass owns the lease, unlapsed, or its run has a
status nobody claims. Whole-document writes, however stale, only leave such a
status; the checkpoint and the renewal are the owner's. *Without gates* no copy
of a run, in the store or in memory, holds a pending decision; so every
whole-document write ends the run, and a run that goes on is written by its owner
only, whose memory began at the checkpoint and moved forward. A pass leaves the
loop with an empty queue, which without failures is behind the last node.

*Across gates.* A worker that `Walks` will execute nodes of its run or show a gate of it; one that yielded
does not. `FirstDecision` says of a step that the decision it records, if any, finds its gate undecided.
`WalkInvariant` adds to `WalkExcludes` that nobody walks a run whose stored checkpoint waits at a gate, that no
claimable document waits at one, and that no copy a worker is about to write back does. So a decision takes
the run from nobody, and the next claim gives it to one worker. Gates, crashes, failed calls, cancels,
sweeps and restarts are unrestricted. None of the hypotheses can go: TLC, on `RunGates` with two decisions,
finds two workers at the nodes of one run when a gate is decided twice, when a reaper writes back a document that still
waits, and when a lease lapses; with the three it finds none (5.9 million states, with a crash, a failed call and a cancel).

*Losing the lease.* Crashes, lapses, cancels, deleted workflows, failing nodes, failing database calls, sweeps and
API restarts are all allowed. A worker that strayed is stopped by its next checkpoint, unless that write fails
(which `StrayedBound` counts) or the worker has been handed the lease back meanwhile. A claim hands it only to the
free worker that makes it; the terminal write hands it to whoever the document named when it was read, after the
last node. That can be a worker still at the nodes: after failed checkpoint writes a pass is past its last node
while the stored checkpoint is open, and a second worker claims it. So `StrayInvariant` counts: nobody on a run that may be
claimed is ahead of its checkpoint by more than the failed calls and the node it is on (`RunPaid`), nor ahead of its
owner (`Leads`). An owner named by a pass past its last node is therefore no further
from the end than the number of failed calls, less what it has strayed (`PaidFor`, `Handed`), and stays so: a node it
executes brings it one nearer. Neither hypothesis can go: TLC finds a worker that strays twice without
a failed call once there is a reaper visit, or a gate with one decision (an approval that finds an orphan also
writes back the lease it read).

*The refinement.* `CrashesOnly` is the setting in which the abstract run is promised: no gates, no
failing nodes, no requests, and no failure but the death of executors (any
number of them). `MemoryInvariant` says that a worker on a pass holds the lease of its run,
unlapsed, that its memory is the run's checkpoint plus the node it has just run, and
that it leaves the loop with all nodes done. Then a checkpoint is `Commit`, the
terminal write `Finish`, the sweep of a run without a checkpoint `Abandon`, the trigger
`Submit`; a claim, a heartbeat, a release, a lapse and a crash change the run and its lease in
ways the abstract run does not see. TLC checks the same with `Abstract`'s fairness on a small
instance (`RunCrash`).

`AgentLoopProofs` proves, for every plan, every set of agents and tools and every bound:

| theorem | under | statement |
|---|---|---|
| `PassesArePlaced` | | `Spec => []TypeOK` |
| `NoCallIsSkipped` | | `Spec => []NothingSkipped` |
| `CallsRunOnce` | `OneItem` | `Spec => []RanOnce` |
| `PeopleAreAskedOnce` | `OneItem` | `Spec => []GateAskedOnce` |
| `OnlyTheApprovedRuns` | `NoApprovalLeft` | `Spec => RunsOnlyApproved` |

It rests on two assumptions of the module besides the types of its constants: no agent
node occurs twice among the steps of a plan (a pass visits a node once), and the value
for "missing" is none of the present ones. *Nothing skipped*: a turn's place travels from the memory of a
pass to the document, to the memory of the next pass, and back into a turn; `Complete` says of all three
that what lies behind the place has run. *Once*: a call is ahead of the run
while some pass may still come to it (`RunAhead`, and `AskAhead` for its gate): its turn is not taken, or the pass is before it in
its turn, or a snapshot that is yet to be taken up is. A call's count is at most one more
than the passes that were cut off, and less than that while the call is ahead. A pass
that goes on without its lease, or away from the place of its checkpoint, will be cut off: it owes that one already
(`Owing`). `OneItem` says that a guarded agent is not in a `for_each` of several
items; section 5 says what happens there.

Approvals travel by the name of the tool: a decision is written into the checkpoint, put into the memory of
the next pass, merged with those of the snapshot, and written into the snapshot of the next yield. `Trusted` says
of each of these places that a person approved a gate of that tool in the turn it will be used in
(`Backed`): the snapshot and the pending gate of a document are of one turn (`Paired`), unless a gate is shown that the
checkpoint does not know of (`Outdated`), and a decision on that one sets `astray`. A pass that still executes
calls was resumed from the snapshot the document has (`PassKnown`), at a step behind which it never
enters that agent again (`Passed`), and holds no approval between turns (`NothingHeld`). A verdict is overwritten
only while the gate it is about is shown, when nobody holds an approval of it. `NoApprovalLeft` says that no
guarded agent is structured or `on_error: continue`; section 5 says what happens with one.

About the triggers (`TriggerProofs`), for every set of workers, ticks, messages and consumers:

| theorem | statement | assumes |
|---|---|---|
| `TicksStackNoFurther` | `CronSpec => []StackingBounded` | finitely many ticks |
| `MessagesDispatchAtMost` | `StreamSpec => []DispatchedAtMost` | finitely many workers and consumers, none of them the value for "nobody" |

Both are counts. *Cron*: a tick looks only while no run is in flight, when the sum is
at most the open ticks that looked; a creation turns such a tick into a run. *Queue*: a message is in the queue, with
one consumer, or gone; its runs, and one more while it can still
make one, are at most one more than the faults that brought it back. *Broadcast* (channel and socket): each
worker has one consumer that may still create a run for a message, so
the runs and the workers that may still make one are at most the workers.

The parts of `Platform` and `Sandboxes` that are proved, for every value of their constants:

| theorem | statement | assumes |
|---|---|---|
| `OwnershipIsKept` (`ServiceProofs`) | `TenancySpec => []OwnerKept` | finitely many users and requests, the founder a user |
| `LoopIsAccounted` (`NodeProofs`) | `LoopSpec => []LoopAccounted` | a natural number of items |
| `NestingIsBounded` (`NodeProofs`) | `SubSpec => []NestingBounded` | `MaxDepth` a natural number, the root a workflow |
| `RejectionsAreKept` (`NodeProofs`) | `GateSpec => []RejectionHolds` | nothing |
| `FansStaySound` (`NodeProofs`) | `FanSpec => []FanSound` | the requested degrees of parallelism are integers, the requests sequences |
| `MemoryStaysSound` (`NodeProofs`) | `ChatSpec => []MemorySound` | finitely many runs, a positive limit that the old exchanges respect |
| `PoolStaysSound` (`SandboxProofs`) | `SandboxSpec => []PoolSound` | `MaxWarm` a natural number, `MaxKeys` a positive one, a sequence of default keys |
| `AccountsStaySound` (`ServiceProofs`) | `AccountsSpec => []AccountSound` | finitely many requests |
| `CachesStaySound` (`ServiceProofs`) | `ConnectionsSpec => []CacheSound` | the API is one of the processes |
| `WatchersStayInformed` (`ServiceProofs`) | `WatchSpec => []WatchersInformed` | the value for "no owner" is no pass |
| `DocumentsStaySound` (`ServiceProofs`) | `DocsSpec => []DocsSound` | what clients send are drafts, what ships are templates without a return node, a required value or a sub-workflow |
| `SpendIsBounded` (`ServiceProofs`) | `EvalSpec => []SpendBounded` | there is a cap, at least one case may run, and there is a claim loop |

- *Ownership* is a count: a transfer makes the new owner before it unmakes the old
  one, so the owners outnumber the transfers that are between the two writes.
  A removal that no transfer overtook deletes anybody's row but that of the user `owner_id` names,
  and until `unsynced` is set that user is an owner whenever no transfer is under way; so
  it leaves one. The count is what makes any number of overlapping and abandoned transfers safe.
- *The loop*: an unsuppressed failure is remembered by its iteration, first in the
  results of its chain and then in its fatal flag, until the loop reads all flags;
  and the items before `idx` are those that were started.
- *Nesting*: the chain of callers in the context is the list of workflows of the
  frames below, whatever frontier a frame was resumed from. A target off the chain
  is new or the caller itself.
- *Rejection*: the flag `oobRejected` is set before the token is sent, nothing clears it
  while that gate still waits, and a token left in the channel names an earlier gate.
- *Tool calls*: a call past the checks of `Execute` is of a tool of the catalog, with
  arguments that fit; and a node has as many starts more than ends as tools of it are running.
- *Chat memory*: the last of the runs to count sees every message, and leaves the limit. A trim
  that nobody crosses finds at least what it counted, since the others only add; what is above the highest
  deleted `seq` was inserted in order, question before answer, and is deleted from below.
- *The pool*: every step hands a container from one holder (a slot, a replenishment, a removal, a request)
  to another, and what is created was held by nobody; what nobody holds is gone or has been marked as lost.
  The eviction order lists the keys of the pool once each, so its length is their number.
- *Accounts*: the requests that mint a workspace and those that did are together at most the
  requests and the failed reads of the memberships, since whoever finds a membership mints none. An unlink has seen a link besides the
  one it takes, or a password, or several links of its provider, which `overlapped` remembers.
- *Connections*: every client belongs to the process that dialled it, and only that process holds or
  caches it, so that a restart loses exactly what it closes.
- *Watching*: of a run that no worker, lease or canceller disturbed, the lease names the one pass that is on it, and
  that pass announces the end before it writes it. A pass that yielded has given the lease back and announced
  nothing; it leaves the run alone or marks it as `disturbed`.
- *Documents*: a request that is past its check knows whose document it will write, or is
  marked as overtaken by a newcomer or misread; what it is about to store has been judged, or is a template but
  for its name and whether it is enabled (`Forked`), which patches and copies leave it; and the workflow it
  calls stays the tenant's until it is `moved`.
- *Evals*: while a case's record may still be completed, by the case or by the worker that
  took its run, each of its calls is in the usage the record shows, owed by the case, or being made by
  the worker. A step that is no call can then only take from what counts, and a call is let through while
  the records show less than the cap; `Concurrency` bounds the debts (those of cases in flight while the client
  is there, no new ones when it has left) and `ClaimLoops` those of the workers.

**Only model-checked**: the liveness properties and the fairness of the refinement (temporal
reasoning under fairness is out of the prover's reach); `WalkEnds` of `Executor`; `WorkerRows` and the liveness of `Triggers` and `Sandboxes`.

## 5. Where the code and its comments disagree

Three of these are runs that must find their property violated; the property is
what a comment says, the trace is what the code does.

- **`EvalTwice`**: `RunResumable` creates the record of an eval case as `running` without a
  lease and executes it in-process. `ClaimLease` takes a running record that nobody
  owns, so an executor worker executes the case as well.
- **`SubRunLost`**: a sub-workflow finds its parent's checkpoint bundle in the context and
  writes its own frontier over the `execution_state` of the parent's run. A pass lost
  meanwhile resumes from there and succeeds without the parent's nodes.
- **`FanOutGates`**: the gates of tools called side by side share the run's channel, so
  one decision, even a rejection, releases a gate nobody approved.

Others are stated in the modules, next to the properties that hold; TLC refutes each
with the specification and constants of the run named, and no run repeats it:

- `CancelledIsFinal` (`RunGates`): the terminal write of `RunFromCheckpoint` tests neither the
  lease nor the status, so it overwrites a cancel that arrives after the last
  checkpoint; `run_cancel.go:84` says the cancel prevents it. `CancelSticks` is what does hold.
- `YieldNotTerminal` (`RunGates`): after a yield, `RunFromCheckpoint` decides that it
  yielded by re-reading the status. A decision that lands before the re-read has
  set it to `running`, and the run at its gate is written as `success`.
- `FailedStepFailsRun` (`RunEnds`): the error scan at the end sees the steps of this pass only.
  A node that failed before the crash is visited in the checkpoint, and the
  resumed run ends in `success`.
- `CheckpointResumes` (`RunEnds`): a worker that dies between the gate mirror and the yield
  checkpoint leaves a checkpointed run that no claim, sweep or decision resumes.
- `ClickReleasesItsOwn` (`ExecutorWalk`): `executor.go:878` drains extra clicks so that a
  double-click does not release the next breakpoint. The drain empties the buffer at the moment of
  the release; the second click that arrives just after it stays buffered and
  releases the next breakpoint, or the next approval gate, at once.
- `RunsOnlyApproved` (`AgentLoop`, with an agent that is guarded and structured): approvals are
  kept by tool name and cleared where the next
  iteration starts (`agent.go:1182`). An agent that ends in the turn it was approved
  in, by `submit_final_answer` or by a terminal error under `on_error: continue`,
  returns before that, and the first call of the same tool by the next guarded
  agent of the pass runs without a gate. `executor.go:806` speaks of "one-shot
  consumption", `run.go:253` of a fresh gate in a later iteration.
- `RemovalSparesOwner` (`Platform`): `TransferOwnership` drops the error of its write of `owner_id`
  (`tenant.go:306`), which then names the former owner. A removal that begins afterwards judges by
  `owner_id` alone and deletes the tenant's only owner, which `tenant_invites.go:367` says it refuses.
- `RetryRunsBoth` (`Platform`): a transfer that stops after the promotion leaves two owners. The retry its
  comments promise (`tenant.go:300`, `tenant_invites.go:416`) is refused, because the target is an owner by
  then. Both show with one request at a time.
- `DoneTellsOutcome` (`Platform`): `executor.go:2000` publishes `run_done` with success before the scan of
  the steps (1329-1351) turns the run into an error; the canvas is told the first.
- `ProcessSurvives` (`Sandboxes`): `Close` of the CDP client and its read loop each look whether
  `done` is closed and then close it (`cdp_client.go:84`, `:540`). When both look first the second
  close panics, and with it the process; a pause goroutine's send on the closed
  channel of events does the same.

More of what the models show, where nothing in the repository says what ought to happen:

- *Gates.* A guarded agent in the body of a `for_each` shows its gate,
  but the yield is taken for an error of the body (`YieldInLoop`). The loop goes on,
  the run is left at `pending_approval` with nothing pending, and the decision,
  approval or not, ends it as an orphan. `fan_out` swallows a yield in the same way when the worker has
  no control bridge, and a gate inside a sub-run hands its parent agent `null`.
- *Resumed agents.* A pass never drops the snapshot it was resumed from (`executor.go:1531`, `agent.go:375`):
  a guarded agent in a `for_each` of several items takes the same turn up again at
  each item, executes its calls again and asks about them again.
- *Decisions.* `ApplyApprovalDecision` asks for a recorded gate, not for an undecided one
  (`workflow_run.go:663`). Of two decisions that both read the run at its gate, the second takes the lease
  from the worker the first one brought back; another worker claims the run, and both execute the gated node.
- *Live gates.* A decision between the mirror and the subscription finds no listener and
  ends the run as an orphan under a living worker; a late decision on one gate
  reaches the next; a cancelled context at a gate returns "approved". The registry
  keeps one entry per run: of two gates, the first to finish closes the other's
  subscription and leaves its own open, so that a decision counts as
  delivered and nobody reads it. A live rejection leaves no step of its node; a blocking one does.
- *Loops.* A parallel `for_each` starts one more iteration after a failure, and reports no
  error when its context was cancelled (`LoopReports` says exactly this much).
- *Sub-runs.* A workflow may call itself once: the chain holds callers, and the root is not
  among them when its agent dispatches.
- *Chat memory.* An exchange is lost to a duplicate key, or keeps a question without an
  answer; overlapping trims take off the same excess again, down to nothing (two runs at a limit of two,
  five at the 30 of the code). `Append` then starts again at 1, although it says that it assigns
  "monotonic seq numbers", and an exchange that read the old number joins the new ones. A window may
  begin with an answer.
- *Evals.* A run whose client leaves stays `running`; the cases in flight, and every claim loop that
  took one, may pass the cap together.
- *Tenancy.* Two transfers at once may also leave two owners, or write `owner_id` in the other order; a removal
  that read `owner_id` earlier, or reads it during a transfer, deletes the new owner. The comment of
  `RemoveMember` (`tenant_invites.go:368`) also speaks of refusing the self-removal of the last
  admin; the code has no such check.
- *Accounts.* A provider linked under two subjects is unlinked as one, and may be the last way to sign in.
  A sign-in drops the error of the list of memberships (`auth.go:175`, `auth_oauth.go:285`; `tenant.go:148` leaves
  out the tenants it cannot read): an account that has a workspace is then given another one.
- *Connections.* The handlers invalidate the cache of the API's process; the resolvers of
  the workers keep the old client (`handler/connection.go:58` speaks of an immediate effect). A save that
  landed although its answer was lost invalidates nothing.
- *Documents.* A probe for a foreign id that the database does not answer counts as "free". A template is
  stored without its connections, by design (`template.go:57`), and enabled; so are its copies.
- *Watching.* The WebSocket subscribes after it dispatched, so a fast run's `run_done` is lost; a pass that
  returns an error publishes none, and neither does one that yielded and finds its gate decided (`YieldNotTerminal`
  above), although it writes the run ended.
- *Sandboxes.* The orphan cleanup of a starting process removes the warm containers of another
  that lives on the same daemon.

## 6. Not modelled, and the plan

Done: the run store and its workers, the walk, the agent, what happens around
one node, live gates, triggers, sandboxes, debug sessions, evals, documents,
watchers, tenancy and accounts. What is left of them:

1. `Executor`: a worker without the control bridge (there a breakpoint ends the
   leased pass) and pre-execution approval inside a `for_each`; agents that pause at a
   tool breakpoint.
2. `AgentLoop`: debug stops, cost caps, agents as tools, the loading of skills. The
   canvas branch of the agent's own gate (the branch of a node's gate is in `LiveGate`).
3. Sessions, API keys and the rate limiter. (Its counter is incremented and given an expiry in two calls,
   `ratelimit.go:75`: without the second it never expires.)
4. The events of a run other than `run_done`, and their order in a browser.
5. The length of the back-off of the consumers: the code's count of attempts is never
   reset (`workflow_rabbitmq_worker.go:252`), and the delay is at most a minute.

Further proofs worth having: what remains of `WalkExcludes` and of `StrayedBound` when a reaper writes a lease back.

Left out for good: node handlers that call other systems, template expansion,
input schemas, LLM clients, CRUD of skills, the list of templates, exports and listings, e-mail,
configuration, cryptography, images and pod specifications, and the web UI: formatting, I/O, or one document
read and written by one call.

## 7. Running it

    tlc -workers 2 -config RunGates.cfg MCWorkflowRun.tla
    tlc -workers 2 -config ExecutorWalk.cfg MCExecutor.tla
    tlc -workers 2 -config AgentLoop.cfg MCAgentLoop.tla
    tlc -workers 2 -config Triggers.cfg MCTriggers.tla
    tlc -workers 2 -config Sandboxes.cfg MCSandbox.tla
    tlc -workers 2 -config Platform.cfg MCPlatform.tla
    tlapm WorkflowRunProofs.tla
    tlapm ExecutorProofs.tla
    tlapm DurableProofs.tla
    tlapm AgentLoopProofs.tla
    tlapm ServiceProofs.tla
    tlapm TriggerProofs.tla
    tlapm NodeProofs.tla
    tlapm SandboxProofs.tla

Each takes about a minute and a half or less, `Platform` two to four (on an idle machine, two),
`ServiceProofs` three and a half.
Each module has operators that carry a mistake (`ClaimableIgnoringLease`,
`CheckpointIgnoringLoss`, `HaltsNever`, ...), which stand before the definition they would replace.
Nothing uses them: `PROJECT.json` ("mutants") names, for each property, the one
that TLC must find to break it.
