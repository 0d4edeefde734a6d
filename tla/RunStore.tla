------------------------------ MODULE RunStore ------------------------------
(***************************************************************************)
(* The workflow_runs collection (internal/mongodb/workflow_run.go): the    *)
(* run document, and what each repository call does to the one document it *)
(* addresses.  MongoDB applies every such call atomically, so a call is a  *)
(* predicate on the document (the filter) and a function of it (the        *)
(* update); the modules that EXTEND this one decide who calls what, when.  *)
(*                                                                         *)
(* Abstractions.  A workflow is a chain of nodes 1..N, so the breadth-     *)
(* first frontier (visited set and queue) is the number of finished nodes  *)
(* and whether the queue still holds the next one.  Time is the flag       *)
(* "lapsed": lease_expires_at <= now.  Inputs, outputs, step results,      *)
(* traces and timestamps are left out.                                     *)
(***************************************************************************)
EXTENDS Naturals

CONSTANTS
    N,          \* number of nodes of the workflow
    Workers,    \* executor loops, each with a lease identity of its own
    NoWorker,   \* lease_owner missing
    NoState     \* execution_state missing

ASSUME NAssumption == N \in Nat \ {0}
ASSUME NoWorkerAssumption == NoWorker \notin Workers

Nodes == 1 .. N
Decisions == {"approved", "rejected"}
Terminal == {"success", "error", "cancelled"}
\* What the two orphan sweeps call non-terminal; "absent" is no document yet.
NonTerminal == {"queued", "running", "pending_approval"}
Statuses == {"absent"} \cup NonTerminal \cup Terminal

\* ExecutionState: the frontier, and the gate the run waits at, if any
\* (pending = "waiting": a gate with no decision recorded).
ExecutionStates ==
    [done: 0 .. N, open: BOOLEAN, pending: {"none", "waiting"} \cup Decisions]

ASSUME NoStateAssumption == NoState \notin ExecutionStates

\* gate is the PendingApproval mirror the UI shows: the gated node, 0 for none.
RunDocs ==
    [status: Statuses, owner: Workers \cup {NoWorker}, lapsed: BOOLEAN,
     es: ExecutionStates \cup {NoState}, gate: 0 .. N]

NoRun == [status |-> "absent", owner |-> NoWorker, lapsed |-> FALSE,
          es |-> NoState, gate |-> 0]

(***************************************************************************)
(* Create, by the trigger that queues a run.                               *)
(***************************************************************************)
FreshRun == [NoRun EXCEPT !.status = "queued"]

(***************************************************************************)
(* ClaimLease: filter and update of the findAndModify.                     *)
(***************************************************************************)
\* Mistakes: no test of lease_expires_at; no second branch; no status filter.
ClaimableIgnoringLease(d) ==
    d.status \in {"queued", "running"} /\ (d.owner = NoWorker \/ d.es # NoState)

ClaimableUnowned(d) == d.status \in {"queued", "running"} /\ d.owner = NoWorker

ClaimableAnyStatus(d) ==
    d.status # "absent" /\ (d.owner = NoWorker \/ (d.lapsed /\ d.es # NoState))

Claimable(d) ==
    /\ d.status \in {"queued", "running"}
    /\ \/ d.owner = NoWorker
       \/ d.lapsed /\ d.es # NoState

ClaimLease(d, w) ==
    [d EXCEPT !.status = "running", !.owner = w, !.lapsed = FALSE]

(***************************************************************************)
(* ExtendLease, ReleaseLease and CheckpointExecutionState are gated on     *)
(* lease_owner = workerID, whether or not the lease has lapsed.            *)
(***************************************************************************)
\* Mistake: any lease will do.
LeaseHeldByAnyone(d, w) == d.owner # NoWorker

LeaseHeld(d, w) == d.owner = w

ExtendLease(d) == [d EXCEPT !.lapsed = FALSE]

ReleaseLease(d, w) ==
    IF LeaseHeld(d, w) THEN [d EXCEPT !.owner = NoWorker, !.lapsed = FALSE]
                       ELSE d

CheckpointStep(d, es) == [d EXCEPT !.es = es]

CheckpointYield(d, es) ==
    [d EXCEPT !.es = es, !.status = "pending_approval"]

(***************************************************************************)
(* ApplyApprovalDecision: filter execution_state.pending != nil; whatever  *)
(* the status and whoever holds the lease.                                 *)
(***************************************************************************)
HasPending(d) == d.es # NoState /\ d.es.pending # "none"

\* Mistake: the decision is recorded but the status stays pending_approval.
ApplyDecisionKeepingStatus(d, decision) ==
    [d EXCEPT !.es.pending = decision, !.owner = NoWorker, !.lapsed = FALSE]

ApplyDecision(d, decision) ==
    [d EXCEPT !.es.pending = decision, !.status = "running",
              !.owner = NoWorker, !.lapsed = FALSE]

(***************************************************************************)
(* The two orphan sweeps.  Both leave the lease fields as they are.        *)
(***************************************************************************)
\* Mistake: runs with a checkpoint are swept too.
WorkerOrphanDurable(d) ==
    d.status \in NonTerminal \ {"queued"} /\ d.owner # NoWorker /\ d.lapsed

WorkerOrphan(d) ==
    /\ d.status \in NonTerminal \ {"queued"}
    /\ d.owner # NoWorker
    /\ d.lapsed
    /\ d.es = NoState

BootOrphan(d) ==
    /\ d.status \in NonTerminal
    /\ d.owner = NoWorker \/ d.lapsed
    /\ d.es = NoState

Abandoned(d) == [d EXCEPT !.status = "error", !.gate = 0]

=============================================================================
