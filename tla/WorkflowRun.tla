----------------------------- MODULE WorkflowRun -----------------------------
(***************************************************************************)
(* Durable execution of workflow runs.  Executor loops                     *)
(* (internal/worker/workflow_executor_worker.go) claim queued runs under a *)
(* lease, walk the nodes and checkpoint after each one                     *)
(* (internal/workflow/executor.go), yield the lease at an approval gate    *)
(* (internal/workflow/agent.go) and write the terminal status.  Around     *)
(* them act the API handlers that cancel a run and submit an approval      *)
(* decision, the reaper, the orphan sweeps, and the failures: a process    *)
(* dies, a lease lapses under a live worker, a database call fails.        *)
(*                                                                         *)
(* Every database call is a step of its own; what a goroutine or handler   *)
(* read before it is kept in its record, to be used stale.                 *)
(***************************************************************************)
EXTENDS RunStore

CONSTANTS
    R,             \* number of runs, numbered in queued_at order
    Gates,         \* nodes whose tool call needs an approval
    FailNodes,     \* nodes whose handler returns an error
    DeletedRuns,   \* runs whose workflow may be deleted while they wait
    CancelReqs,    \* force-cancel requests   (each is one HTTP request or
    ApprovalReqs,  \* approval decisions       one sweep of the reaper, so
    ReapReqs,      \* reaper visits            these bound their number)
    MaxCrashes,    \* bounds: executor processes that die,
    MaxLapses,     \*   leases that lapse under a live worker,
    MaxFaults,     \*   database calls that fail once,
    MaxBoots       \*   restarts of the API process

Requests == CancelReqs \cup ApprovalReqs \cup ReapReqs
Runs == 1 .. R

ASSUME RAssumption == R \in Nat \ {0}
ASSUME NodeSetsAssumption == Gates \subseteq Nodes /\ FailNodes \subseteq Nodes
ASSUME RequestsAssumption ==
    /\ CancelReqs \cap ApprovalReqs = {}
    /\ (CancelReqs \cup ApprovalReqs) \cap ReapReqs = {}
ASSUME BoundsAssumption ==
    MaxCrashes \in Nat /\ MaxLapses \in Nat /\ MaxFaults \in Nat /\ MaxBoots \in Nat

VARIABLES
    runs,      \* the collection: one document per run
    worker,    \* what each executor loop holds in memory
    request,   \* what each API request or reaper visit holds in memory
    effects,   \* history: how often each node of each run was executed
    granted,   \* history: gates an approval was recorded for, per run
    refused,   \* history: gated nodes that failed on a recorded rejection
    used       \* how much of each bound is spent

vars == <<runs, worker, request, effects, granted, refused, used>>

-----------------------------------------------------------------------------
(***************************************************************************)
(* The worker.  pc names the next call:                                    *)
(*   load     wfRepo.GetByID            mirror   Update of the gate mirror *)
(*   bfs      head of the node loop     yield    checkpoint that yields    *)
(*   ran      checkpoint of a node      yrelease release after a yield     *)
(*   reread   first Get after the loop  final    Get before the terminal   *)
(*   put      terminal Update           release  ReleaseLease of the pass  *)
(***************************************************************************)
Executing == {"bfs", "ran", "mirror", "yield", "yrelease",
              "reread", "final", "put"}
WorkerPCs == {"idle", "load", "release"} \cup Executing

WorkerStates ==
    [pc: WorkerPCs,
     run: Runs,
     done: 0 .. N,                       \* finished prefix of the chain
     open: BOOLEAN,                      \* the queue holds node done + 1
     pre: {"none"} \cup Decisions,       \* pre-recorded decision for it
     failed: BOOLEAN,                    \* an error to promote at the end
     ctxDone: BOOLEAN,                   \* the heartbeat cancelled runCtx
     doc: RunDocs,                       \* document as last read
     strayed: Nat]                       \* history: nodes run without lease

IdleWorker ==
    [pc |-> "idle", run |-> 1, done |-> 0, open |-> FALSE, pre |-> "none",
     failed |-> FALSE, ctxDone |-> FALSE, doc |-> NoRun, strayed |-> 0]

RequestStates ==
    [pc: {"new", "read", "answered"}, run: Runs, doc: RunDocs,
     decision: Decisions]

NewRequest ==
    [pc |-> "new", run |-> 1, doc |-> NoRun, decision |-> "approved"]

Init ==
    /\ runs = [r \in Runs |-> NoRun]
    /\ worker = [w \in Workers |-> IdleWorker]
    /\ request = [q \in Requests |-> NewRequest]
    /\ effects = [r \in Runs |-> [n \in Nodes |-> 0]]
    /\ granted = [r \in Runs |-> {}]
    /\ refused = [r \in Runs |-> {}]
    /\ used = [crashes |-> 0, lapses |-> 0, faults |-> 0, boots |-> 0]

ghosts == <<effects, granted, refused>>

\* Worker w moves to pc p; nothing else of it changes.
Goto(w, p) == worker' = [worker EXCEPT ![w].pc = p]

Fault == used.faults < MaxFaults /\ used' = [used EXCEPT !.faults = @ + 1]

\* The document of the run worker w executes.
Doc(w) == runs[worker[w].run]

\* Mistakes: the queue is not persisted; the gated node stays visited at a yield.
SnapshotWithoutQueue(w, pending) ==
    [done |-> worker[w].done, open |-> FALSE, pending |-> pending]

SnapshotVisitedAtGate(w, pending) ==
    [done |-> IF pending = "waiting" THEN worker[w].done + 1 ELSE worker[w].done,
     open |-> worker[w].open, pending |-> pending]

\* The state a checkpoint of w persists.
Snapshot(w, pending) ==
    [done |-> worker[w].done, open |-> worker[w].open, pending |-> pending]

-----------------------------------------------------------------------------
(***************************************************************************)
(* A trigger (POST /run, canvas WebSocket, cron, webhook, queue message)   *)
(* creates the run document; the executors find it at the next tick.       *)
(***************************************************************************)
Dispatch(r) ==
    /\ runs[r].status = "absent"
    /\ \A s \in Runs : s < r => runs[s].status # "absent"
    /\ runs' = [runs EXCEPT ![r] = FreshRun]
    /\ UNCHANGED <<worker, request, ghosts, used>>

\* Mistake: a recorded decision is taken for an approval.
PriorDecisionApproved(es) ==
    IF es # NoState /\ es.pending \in Decisions THEN "approved" ELSE "none"

\* The decision a claimed run was resumed with, if one was recorded.
PriorDecision(es) ==
    IF es # NoState /\ es.pending \in Decisions THEN es.pending ELSE "none"

\* claimAndRun: the oldest claimable run.  RunWithEvents hydrates from the
\* document the claim returned: no execution_state means start at node 1.
Claim(w, r) ==
    /\ worker[w].pc = "idle"
    /\ Claimable(runs[r])
    /\ \A s \in Runs : Claimable(runs[s]) => r <= s
    /\ LET d == ClaimLease(runs[r], w)
           prior == d.es # NoState
       IN  /\ runs' = [runs EXCEPT ![r] = d]
           /\ worker' = [worker EXCEPT ![w] =
                [IdleWorker EXCEPT
                    !.pc = "load", !.run = r, !.doc = d,
                    !.done = IF prior THEN d.es.done ELSE 0,
                    !.open = IF prior THEN d.es.open ELSE TRUE,
                    !.pre = PriorDecision(d.es)]]
    /\ UNCHANGED <<request, ghosts, used>>

LoadWorkflow(w) ==
    /\ worker[w].pc = "load"
    /\ worker' = [worker EXCEPT ![w].pc = "bfs", ![w].doc = NoRun]
    /\ UNCHANGED <<runs, request, ghosts, used>>

\* GetByID fails, because the workflow is gone or because the call failed: the
\* document as claimed is written back as an error.
WorkflowGone(w) ==
    /\ worker[w].pc = "load"
    /\ \/ worker[w].run \in DeletedRuns /\ UNCHANGED used
       \/ worker[w].run \notin DeletedRuns /\ Fault
    /\ runs' = [runs EXCEPT ![worker[w].run] =
                    [worker[w].doc EXCEPT !.status = "error"]]
    /\ worker' = [worker EXCEPT ![w].pc = "release", ![w].doc = NoRun]
    /\ UNCHANGED <<request, ghosts>>

-----------------------------------------------------------------------------
(***************************************************************************)
(* The node loop of RunWithEvents.                                         *)
(***************************************************************************)
AtNode(w) ==
    worker[w].pc = "bfs" /\ worker[w].open /\ ~worker[w].ctxDone

\* The node at the head of the queue (once AtNode).
Head(w) == worker[w].done + 1

\* The queue is empty.
LeaveLoop(w) ==
    /\ worker[w].pc = "bfs"
    /\ ~worker[w].open
    /\ Goto(w, "reread")
    /\ UNCHANGED <<runs, request, ghosts, used>>

\* The node's handler runs, with whatever effect it has on the world.  An
\* error drops the queue: the chain has no error edges.
RunNode(w) ==
    LET r == worker[w].run
        n == Head(w)
    IN  /\ AtNode(w)
        /\ n \in Gates => worker[w].pre = "approved"
        /\ effects' = [effects EXCEPT ![r][n] = @ + 1]
        /\ worker' = [worker EXCEPT ![w] =
                [worker[w] EXCEPT
                    !.pc = "ran", !.done = n, !.pre = "none",
                    !.open = n \notin FailNodes /\ n < N,
                    !.failed = worker[w].failed \/ n \in FailNodes,
                    !.strayed = IF LeaseHeld(runs[r], w) THEN worker[w].strayed
                                ELSE worker[w].strayed + 1]]
        /\ UNCHANGED <<runs, request, granted, refused, used>>

\* The gated tool call was rejected: the agent node returns an error.
RefuseNode(w) ==
    LET r == worker[w].run
        n == Head(w)
    IN  /\ AtNode(w)
        /\ n \in Gates
        /\ worker[w].pre = "rejected"
        /\ refused' = [refused EXCEPT ![r] = @ \cup {n}]
        /\ worker' = [worker EXCEPT ![w] =
                [worker[w] EXCEPT !.pc = "ran", !.done = n, !.open = FALSE,
                                  !.pre = "none", !.failed = TRUE]]
        /\ UNCHANGED <<runs, request, effects, granted, used>>

\* The gated tool call has no decision: read the document to mirror the gate.
ReadAtGate(w) ==
    /\ AtNode(w)
    /\ Head(w) \in Gates
    /\ worker[w].pre = "none"
    /\ worker' = [worker EXCEPT ![w].pc = "mirror", ![w].doc = Doc(w)]
    /\ UNCHANGED <<runs, request, ghosts, used>>

\* ... and write the whole document back.
MirrorGate(w) ==
    /\ worker[w].pc = "mirror"
    /\ ~worker[w].ctxDone
    /\ runs' = [runs EXCEPT ![worker[w].run] =
                    [worker[w].doc EXCEPT !.status = "pending_approval",
                                          !.gate = Head(w)]]
    /\ worker' = [worker EXCEPT ![w].pc = "yield", ![w].doc = NoRun]
    /\ UNCHANGED <<request, ghosts, used>>

\* An error of either call is logged and the yield goes on.
MirrorGateFails(w) ==
    /\ worker[w].pc = "mirror"
    /\ ~worker[w].ctxDone
    /\ Fault
    /\ worker' = [worker EXCEPT ![w].pc = "yield", ![w].doc = NoRun]
    /\ UNCHANGED <<runs, request, ghosts>>

-----------------------------------------------------------------------------
(***************************************************************************)
(* Checkpoints.  ErrLeaseNotHeld abandons the pass without a release; a    *)
(* cancelled context abandons it too, every later call on that context     *)
(* fails, and the worker goes to its release.                              *)
(***************************************************************************)
\* Mistake: ErrLeaseNotHeld is logged like any other error of the write.
CheckpointIgnoringLoss(w) ==
    /\ worker[w].pc = "ran"
    /\ ~worker[w].ctxDone
    /\ IF LeaseHeld(Doc(w), w)
         THEN runs' = [runs EXCEPT ![worker[w].run] =
                           CheckpointStep(@, Snapshot(w, "none"))]
         ELSE UNCHANGED runs
    /\ Goto(w, "bfs")
    /\ UNCHANGED <<request, ghosts, used>>

Checkpoint(w) ==
    /\ worker[w].pc = "ran"
    /\ ~worker[w].ctxDone
    /\ IF LeaseHeld(Doc(w), w)
         THEN /\ runs' = [runs EXCEPT ![worker[w].run] =
                              CheckpointStep(@, Snapshot(w, "none"))]
              /\ Goto(w, "bfs")
         ELSE /\ worker' = [worker EXCEPT ![w] = IdleWorker]
              /\ UNCHANGED runs
    /\ UNCHANGED <<request, ghosts, used>>

\* Any other error of the write is logged and the loop goes on.
CheckpointFails(w) ==
    /\ worker[w].pc = "ran"
    /\ ~worker[w].ctxDone
    /\ Fault
    /\ Goto(w, "bfs")
    /\ UNCHANGED <<runs, request, ghosts>>

YieldCheckpoint(w) ==
    /\ worker[w].pc = "yield"
    /\ ~worker[w].ctxDone
    /\ IF LeaseHeld(Doc(w), w)
         THEN /\ runs' = [runs EXCEPT ![worker[w].run] =
                              CheckpointYield(@, Snapshot(w, "waiting"))]
              /\ Goto(w, "yrelease")
         ELSE /\ worker' = [worker EXCEPT ![w] = IdleWorker]
              /\ UNCHANGED runs
    /\ UNCHANGED <<request, ghosts, used>>

\* At a yield every error ends the loop with that error.
YieldCheckpointFails(w) ==
    /\ worker[w].pc = "yield"
    /\ ~worker[w].ctxDone
    /\ Fault
    /\ worker' = [worker EXCEPT ![w].pc = "reread", ![w].failed = TRUE]
    /\ UNCHANGED <<runs, request, ghosts>>

YieldRelease(w) ==
    /\ worker[w].pc = "yrelease"
    /\ ~worker[w].ctxDone
    /\ runs' = [runs EXCEPT ![worker[w].run] = ReleaseLease(@, w)]
    /\ Goto(w, "reread")
    /\ UNCHANGED <<request, ghosts, used>>

-----------------------------------------------------------------------------
(***************************************************************************)
(* The end of RunFromCheckpoint: is the run at a gate?  If not, read the   *)
(* document again and replace it with its terminal form.                   *)
(***************************************************************************)
Reread(w) ==
    /\ worker[w].pc = "reread"
    /\ ~worker[w].ctxDone
    /\ Goto(w, IF Doc(w).status = "pending_approval" THEN "release" ELSE "final")
    /\ UNCHANGED <<runs, request, ghosts, used>>

\* A failed first Get is taken for "not at a gate".
RereadFails(w) ==
    /\ worker[w].pc = "reread"
    /\ ~worker[w].ctxDone
    /\ Fault
    /\ Goto(w, "final")
    /\ UNCHANGED <<runs, request, ghosts>>

ReadFinal(w) ==
    /\ worker[w].pc = "final"
    /\ ~worker[w].ctxDone
    /\ worker' = [worker EXCEPT ![w].pc = "put", ![w].doc = Doc(w)]
    /\ UNCHANGED <<runs, request, ghosts, used>>

\* Update is not gated on the lease.
PutFinal(w) ==
    /\ worker[w].pc = "put"
    /\ ~worker[w].ctxDone
    /\ runs' = [runs EXCEPT ![worker[w].run] =
                    [worker[w].doc EXCEPT
                        !.status = IF worker[w].failed THEN "error" ELSE "success",
                        !.es = NoState, !.gate = 0]]
    /\ worker' = [worker EXCEPT ![w].pc = "release", ![w].doc = NoRun]
    /\ UNCHANGED <<request, ghosts, used>>

\* A failed terminal Get or Update is only logged.
FinalFails(w) ==
    /\ worker[w].pc \in {"final", "put"}
    /\ ~worker[w].ctxDone
    /\ Fault
    /\ worker' = [worker EXCEPT ![w].pc = "release", ![w].doc = NoRun]
    /\ UNCHANGED <<runs, request, ghosts>>

\* On a cancelled context the loop, the yield and the reads all give up.
GiveUp(w) ==
    /\ worker[w].ctxDone
    /\ worker[w].pc \in Executing
    /\ worker' = [worker EXCEPT ![w].pc = "release", ![w].doc = NoRun]
    /\ UNCHANGED <<runs, request, ghosts, used>>

\* claimAndRun's last call; the loop is then free for the next claim.
Release(w) ==
    /\ worker[w].pc = "release"
    /\ runs' = [runs EXCEPT ![worker[w].run] = ReleaseLease(@, w)]
    /\ worker' = [worker EXCEPT ![w] = IdleWorker]
    /\ UNCHANGED <<request, ghosts, used>>

-----------------------------------------------------------------------------
(***************************************************************************)
(* The heartbeat goroutine, the clock, and crashes.                        *)
(***************************************************************************)
\* ExtendLease renews even a lapsed lease nobody claimed.
HeartbeatExtends(w) ==
    /\ worker[w].pc \in Executing
    /\ ~worker[w].ctxDone
    /\ LeaseHeld(Doc(w), w)
    /\ runs' = [runs EXCEPT ![worker[w].run] = ExtendLease(@)]
    /\ UNCHANGED <<worker, request, ghosts, used>>

\* ErrLeaseNotHeld: cancel the context of the pass.
HeartbeatCancels(w) ==
    /\ worker[w].pc \in Executing
    /\ ~worker[w].ctxDone
    /\ ~LeaseHeld(Doc(w), w)
    /\ worker' = [worker EXCEPT ![w].ctxDone = TRUE]
    /\ UNCHANGED <<runs, request, ghosts, used>>

\* Worker w is on a pass over run r.
Drives(w, r) == worker[w].pc # "idle" /\ worker[w].run = r

\* lease_expires_at passes, no heartbeat having come in time.
LeaseLapses(r) ==
    LET w == runs[r].owner IN
    /\ w # NoWorker
    /\ ~runs[r].lapsed
    /\ runs' = [runs EXCEPT ![r].lapsed = TRUE]
    /\ IF Drives(w, r)
         THEN /\ used.lapses < MaxLapses
              /\ used' = [used EXCEPT !.lapses = @ + 1]
         ELSE UNCHANGED used
    /\ UNCHANGED <<worker, request, ghosts>>

\* The process dies; a new one starts with a free loop.
Crash(w) ==
    /\ worker[w].pc # "idle"
    /\ used.crashes < MaxCrashes
    /\ used' = [used EXCEPT !.crashes = @ + 1]
    /\ worker' = [worker EXCEPT ![w] = IdleWorker]
    /\ UNCHANGED <<runs, request, ghosts>>

-----------------------------------------------------------------------------
(***************************************************************************)
(* The orphan sweeps, one document at a time.                              *)
(***************************************************************************)
OrphanSweep(r) ==
    /\ WorkerOrphan(runs[r])
    /\ runs' = [runs EXCEPT ![r] = Abandoned(@)]
    /\ UNCHANGED <<worker, request, ghosts, used>>

\* SweepAbandonedNonTerminal: one UpdateMany when the API boots.
BootSweep ==
    /\ used.boots < MaxBoots
    /\ used' = [used EXCEPT !.boots = @ + 1]
    /\ runs' = [r \in Runs |-> IF BootOrphan(runs[r]) THEN Abandoned(runs[r])
                                                     ELSE runs[r]]
    /\ UNCHANGED <<worker, request, ghosts>>

-----------------------------------------------------------------------------
(***************************************************************************)
(* The API handlers and the reaper: read the document, then answer.        *)
(***************************************************************************)
ReadRun(q, r, decision) ==
    /\ request[q].pc = "new"
    /\ request' = [request EXCEPT ![q] =
            [pc |-> "read", run |-> r, doc |-> runs[r], decision |-> decision]]
    /\ UNCHANGED <<runs, worker, ghosts, used>>

\* The request read the run and now answers; what remains of it is its
\* decision and the gate it was about.
Answers(q) ==
    /\ request[q].pc = "read"
    /\ request' = [request EXCEPT ![q].pc = "answered",
                        ![q].doc = [NoRun EXCEPT !.gate = request[q].doc.gate]]

\* CancelRun.
CancelRead(q, r) ==
    runs[r].status \in NonTerminal /\ ReadRun(q, r, "rejected")

CancelWrite(q) ==
    /\ Answers(q)
    /\ runs' = [runs EXCEPT ![request[q].run] =
            [request[q].doc EXCEPT !.status = "cancelled", !.gate = 0,
                !.es = NoState, !.owner = NoWorker, !.lapsed = FALSE]]
    /\ UNCHANGED <<worker, ghosts, used>>

\* reap: like a cancel, but execution_state and the lease stay as read.
ReapRead(q, r) ==
    runs[r].status \in NonTerminal \ {"queued"} /\ ReadRun(q, r, "rejected")

ReapWrite(q) ==
    /\ Answers(q)
    /\ runs' = [runs EXCEPT ![request[q].run] =
            [request[q].doc EXCEPT !.status = "cancelled", !.gate = 0]]
    /\ UNCHANGED <<worker, ghosts, used>>

\* SubmitRunApproval: 404 unless the run shows a gate.
ApprovalRead(q, r, decision) ==
    /\ runs[r].status = "pending_approval"
    /\ runs[r].gate # 0
    /\ ReadRun(q, r, decision)

\* The document as read had yielded: record the decision, if a gate is pending.
ApprovalApply(q) ==
    LET r == request[q].run
        decision == request[q].decision
    IN  /\ HasPending(request[q].doc)
        /\ Answers(q)
        /\ IF HasPending(runs[r])
             THEN /\ runs' = [runs EXCEPT ![r] = ApplyDecision(@, decision)]
                  /\ granted' = [granted EXCEPT ![r] =
                        IF decision = "approved"
                        THEN @ \cup {runs[r].es.done + 1} ELSE @]
             ELSE UNCHANGED <<runs, granted>>
        /\ UNCHANGED <<worker, effects, refused, used>>

\* It had not: the decision is published, no in-process waiter receives it,
\* and the run is written back as an orphan.
ApprovalOrphans(q) ==
    /\ ~HasPending(request[q].doc)
    /\ Answers(q)
    /\ runs' = [runs EXCEPT ![request[q].run] =
            [request[q].doc EXCEPT !.status = "error", !.gate = 0]]
    /\ UNCHANGED <<worker, ghosts, used>>

-----------------------------------------------------------------------------
\* What a worker on a pass does when every call succeeds.
WorkerStep(w) ==
    \/ LoadWorkflow(w)
    \/ LeaveLoop(w)
    \/ RunNode(w)
    \/ RefuseNode(w)
    \/ ReadAtGate(w)
    \/ MirrorGate(w)
    \/ Checkpoint(w)
    \/ YieldCheckpoint(w)
    \/ YieldRelease(w)
    \/ Reread(w)
    \/ ReadFinal(w)
    \/ PutFinal(w)
    \/ GiveUp(w)
    \/ Release(w)

\* The calls that fail.
WorkerFault(w) ==
    \/ WorkflowGone(w)
    \/ MirrorGateFails(w)
    \/ CheckpointFails(w)
    \/ YieldCheckpointFails(w)
    \/ RereadFails(w)
    \/ FinalFails(w)

Heartbeat(w) == HeartbeatExtends(w) \/ HeartbeatCancels(w)

RequestStep(q) ==
    \/ /\ q \in CancelReqs
       /\ CancelWrite(q) \/ \E r \in Runs : CancelRead(q, r)
    \/ /\ q \in ReapReqs
       /\ ReapWrite(q) \/ \E r \in Runs : ReapRead(q, r)
    \/ /\ q \in ApprovalReqs
       /\ \/ ApprovalApply(q)
          \/ ApprovalOrphans(q)
          \/ \E r \in Runs, decision \in Decisions : ApprovalRead(q, r, decision)

Next ==
    \/ \E r \in Runs : Dispatch(r) \/ LeaseLapses(r) \/ OrphanSweep(r)
    \/ \E w \in Workers :
          \/ \E r \in Runs : Claim(w, r)
          \/ WorkerStep(w)
          \/ WorkerFault(w)
          \/ Heartbeat(w)
          \/ Crash(w)
    \/ \E q \in Requests : RequestStep(q)
    \/ BootSweep

Spec == Init /\ [][Next]_vars

(***************************************************************************)
(* Fairness.  A claim loop attempts a claim at every tick; a worker on a   *)
(* pass keeps making its calls; a lease nobody renews lapses by the clock; *)
(* every executor process runs the sweep on a ticker.  Nothing is assumed  *)
(* of users, the reaper, crashes or faults.                                *)
(***************************************************************************)
DeadLeaseLapses(r) ==
    LeaseLapses(r) /\ UNCHANGED used

Fairness ==
    /\ \A w \in Workers : WF_vars(\E r \in Runs : Claim(w, r))
    /\ \A w \in Workers : WF_vars(WorkerStep(w))
    /\ \A r \in Runs : WF_vars(DeadLeaseLapses(r))
    /\ \A r \in Runs : WF_vars(OrphanSweep(r))

FairSpec == Spec /\ Fairness

-----------------------------------------------------------------------------
(***************************************************************************)
(* Properties.                                                             *)
(***************************************************************************)
\* Every variable stays in its domain; in particular a run's frontier never
\* passes the last node, whatever is written back stale.
TypeOK ==
    /\ runs \in [Runs -> RunDocs]
    /\ worker \in [Workers -> WorkerStates]
    /\ request \in [Requests -> RequestStates]
    /\ effects \in [Runs -> [Nodes -> Nat]]
    /\ granted \in [Runs -> SUBSET Nat]
    /\ refused \in [Runs -> SUBSET Nodes]
    /\ used \in [crashes: Nat, lapses: Nat, faults: Nat, boots: Nat]

Settled(r, n) == effects[r][n] > 0 \/ n \in refused[r]

\* A checkpoint never runs ahead of the execution: every node a persisted
\* execution_state counts as visited was executed, or failed on a rejection.
\* What a crash, a lapse or a stale write leaves behind can be resumed from
\* without skipping a node.
CommittedExecuted ==
    \A r \in Runs : runs[r].es # NoState =>
        \A n \in 1 .. runs[r].es.done : Settled(r, n)

\* No gated node is executed unless an approval was recorded at that gate,
\* across yields, crashes, two workers on one run, and stale writes.
GateRespected ==
    \A r \in Runs : \A n \in Gates :
        effects[r][n] > 0 => n \in granted[r]

\* What makes a copy of a run document, in the store or in anyone's memory,
\* safe to resume from: the frontier it holds is executed, leaves a node to run
\* if the queue is open, and its approval was granted at the node it resumes.
DocOK(r, d) == d.es # NoState =>
    /\ \A n \in 1 .. d.es.done : Settled(r, n)
    /\ d.es.open => d.es.done < N
    /\ d.es.pending = "approved" => d.es.done + 1 \in granted[r]

\* The same of the frontier a worker holds in memory.
MemoryOK(w) == worker[w].pc # "idle" =>
    /\ \A n \in 1 .. worker[w].done : Settled(worker[w].run, n)
    /\ worker[w].open => worker[w].done < N
    /\ worker[w].pre = "approved" => Head(w) \in granted[worker[w].run]
    /\ worker[w].pc \in {"mirror", "yield", "yrelease"} => worker[w].open

\* Every copy of every run is safe to resume from, the stale ones held by
\* workers and requests included: the whole-document writes may write any of
\* them back.  This is the inductive invariant of the proofs.
RunInvariant ==
    /\ TypeOK
    /\ \A r \in Runs : DocOK(r, runs[r])
    /\ \A w \in Workers : MemoryOK(w) /\ DocOK(worker[w].run, worker[w].doc)
    /\ \A q \in Requests : DocOK(request[q].run, request[q].doc)
    /\ GateRespected

\* A run that shows success executed every node (in a workflow without
\* gates and failing nodes), also when a worker that lost its lease wrote it.
SuccessExecutedAll ==
    \A r \in Runs : runs[r].status = "success" =>
        \A n \in Nodes : effects[r][n] > 0

\* The lease excludes: without a lapse under a live worker, no two workers
\* are on a pass over the same run, however the others crash and restart.
LeaseExcludes ==
    \A r \in Runs : \A v, w \in Workers :
        Drives(v, r) /\ Drives(w, r) => v = w

\* A worker that lost its lease executes at most the node it was on, plus one
\* for each checkpoint write that failed for another reason.
StrayedBound ==
    \A w \in Workers : worker[w].strayed <= 1 + used.faults

\* A cancelled run stays cancelled once no worker is on a pass over it and no
\* request that read it before is unanswered: nothing left in the store (the
\* checkpoint and the lease a reaper leaves in place) brings it back.
CancelSticks ==
    [][\A r \in Runs :
         /\ runs[r].status = "cancelled"
         /\ \A w \in Workers : ~Drives(w, r)
         /\ \A q \in Requests : request[q].pc = "read" => request[q].run # r
         => runs'[r].status = "cancelled"]_vars

\* A node is executed again only when something was lost: a process, a lease,
\* or a database call.
ReexecutionBounded ==
    \A r \in Runs : \A n \in Nodes :
        effects[r][n] <= 1 + used.crashes + used.lapses + used.faults

\* As long as a run goes on, no write takes its checkpoint back to an earlier
\* one, even when a worker that lost the lease writes late.
CommittedProgressKept ==
    [][\A r \in Runs :
         runs[r].es # NoState /\ runs'[r].status \in NonTerminal =>
             /\ runs'[r].es # NoState
             /\ runs[r].es.done <= runs'[r].es.done]_vars

\* Every queued run ends or comes to show a gate, whichever workers crash in
\* whatever state.
EveryRunEnds ==
    \A r \in Runs :
        runs[r].status \in NonTerminal ~>
            runs[r].status \in Terminal \cup {"pending_approval"}

\* A recorded decision is consumed: the run does not stay resumable-but-
\* stuck with it, whoever crashes on the way.
DecisionConsumed ==
    \A r \in Runs :
        PriorDecision(runs[r].es) # "none" ~>
            \/ PriorDecision(runs[r].es) = "none"
            \/ runs[r].status \in Terminal

-----------------------------------------------------------------------------
(***************************************************************************)
(* The abstract view of a run, and that the workers implement it.          *)
(***************************************************************************)
RunPhase(d) ==
    IF d.status \in NonTerminal THEN "open" ELSE d.status

RunProgress(d) ==
    IF d.es # NoState THEN d.es.done
    ELSE IF d.status = "success" THEN N ELSE 0

Abstract == INSTANCE DurableRun WITH
    phase <- [r \in Runs |-> RunPhase(runs[r])],
    progress <- [r \in Runs |-> RunProgress(runs[r])]

\* With crashes as the only failure, a workflow without gates implements the
\* abstract run, fairness included.
ImplementsDurableRun == Abstract!Spec

-----------------------------------------------------------------------------
(***************************************************************************)
(* What comments of the code say of it and the code does not do.           *)
(***************************************************************************)
\* run_cancel.go: after a cancel the worker aborts "instead of finishing +
\* overwriting our terminal status"; reaper_worker.go says as much.
CancelledIsFinal ==
    [][\A r \in Runs : runs[r].status = "cancelled" =>
           runs'[r].status = "cancelled"]_vars

\* executor.go: a pass that yielded at a gate does not mark the run terminal.
YieldNotTerminal ==
    \A w \in Workers :
        worker[w].pc = "put" /\ worker[w].open => worker[w].failed

\* workflow_run.go: "A durable run with a checkpoint resumes cleanly on the
\* next claim": it ends, or waits for a decision at the gate it yielded at.
CheckpointResumes ==
    \A r \in Runs :
        runs[r].status \in NonTerminal /\ runs[r].es # NoState ~>
            \/ runs[r].status \in Terminal
            \/ runs[r].es # NoState /\ runs[r].es.pending = "waiting"

\* executor.go: "Any step with a non-empty Error promotes the run to
\* status=error".
FailedStepFailsRun ==
    \A r \in Runs : \A n \in FailNodes :
        effects[r][n] > 0 => runs[r].status # "success"

=============================================================================
