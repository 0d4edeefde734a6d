------------------------------ MODULE EvalRuns ------------------------------
(***************************************************************************)
(* One run of an eval: its cases, a few at a time, each through            *)
(* RunResumable in the process that serves the request, under the daily    *)
(* cap of the workflow; and the executor workers, whose claim loops see    *)
(* the records of the cases as they see any other run.                     *)
(*                                                                         *)
(* The workflow is one agent node that calls the model once, for a cost of *)
(* one.  The request is the context of everything the runner does.  Every  *)
(* loop is busy with one pass at a time.  No lease lapses and no worker    *)
(* dies here (WorkflowRun has those), so a record is claimed by one loop   *)
(* only and which one it is does not show.                                 *)
(***************************************************************************)
EXTENDS Integers, FiniteSets

CONSTANTS
  NCases,
  Concurrency,      \* EvalRunner.Concurrency
  MaxDailyUSD,      \* the cap of the workflow
  ClaimLoops        \* Worker.Concurrency, added up over the worker processes

\* A concurrency of zero or less is replaced by four, a cap of zero is no cap.
ASSUME EvalAssumption ==
  /\ NCases \in Nat /\ Concurrency \in Nat \ {0}
  /\ MaxDailyUSD \in Nat \ {0} /\ ClaimLoops \in Nat \ {0}

VARIABLES
  evalStatus,       \* the EvalRun record: "none", "running", "done"
  evalCase,         \* case -> where its goroutine stands
  caseResult,       \* case -> "none", "ok", "error"
  disconnected,     \* the client went away: the context is cancelled
  caseRun,          \* case -> its WorkflowRun record
  workerPass,       \* case -> the pass of a claim loop over it
  modelCalls        \* history: case -> calls of the model

evalVars == <<evalStatus, evalCase, caseResult, disconnected, caseRun, workerPass, modelCalls>>

Cases == 1..NCases
NoRun == [status |-> "none"]
Created == [status |-> "running", owner |-> "", traces |-> 0, usage |-> 0]
Stored == {c \in Cases : caseRun[c] # NoRun}

EvalInit ==
    /\ evalStatus = "none" /\ disconnected = FALSE
    /\ evalCase = [c \in Cases |-> [at |-> "waiting"]]
    /\ caseResult = [c \in Cases |-> "none"]
    /\ caseRun = [c \in Cases |-> NoRun]
    /\ workerPass = [c \in Cases |-> [at |-> "none"]]
    /\ modelCalls = [c \in Cases |-> 0]

CaseAt(c, at) == evalCase[c].at = at
CaseGoes(c, at) == evalCase' = [evalCase EXCEPT ![c] = [at |-> at]]
Settles(c, outcome) == CaseGoes(c, "settled") /\ caseResult' = [caseResult EXCEPT ![c] = outcome]
ClientLeaves ==
    /\ evalStatus = "running" /\ ~disconnected
    /\ disconnected' = TRUE
    /\ UNCHANGED <<evalStatus, evalCase, caseResult, caseRun, workerPass, modelCalls>>

----------------------------------------------------------------------------
(***************************************************************************)
(* EvalRunner.Run: the record, then the cases in order, each when a slot   *)
(* is free; the loop does not look at the context.                         *)
(***************************************************************************)
CreateEvalRun ==
    /\ evalStatus = "none"
    /\ evalStatus' = "running"
    /\ UNCHANGED <<evalCase, caseResult, disconnected, caseRun, workerPass, modelCalls>>

CasesInFlight == {c \in Cases : evalCase[c].at \notin {"waiting", "settled"}}
SlotAlways == TRUE
SlotFree == Cardinality(CasesInFlight) < Concurrency

DispatchCase(c) ==
    /\ evalStatus = "running" /\ CaseAt(c, "waiting") /\ SlotFree
    /\ \A d \in 1..(c - 1) : ~CaseAt(d, "waiting")
    /\ CaseGoes(c, "cap")
    /\ UNCHANGED <<evalStatus, caseResult, disconnected, caseRun, workerPass, modelCalls>>

(***************************************************************************)
(* SumCostSince: the usage that records show, which is written when a run  *)
(* ends.  Without an answer there is no cap.                               *)
(***************************************************************************)
CostUnits(f) == UNION {{c} \X (1..f[c]) : c \in Cases}
CostSum(f) == Cardinality(CostUnits(f))      \* the sum of f over the cases
Usage(c) == IF c \in Stored THEN caseRun[c].usage ELSE 0
SumCostSince == CostSum([c \in Cases |-> Usage(c)])
CapReached == SumCostSince >= MaxDailyUSD

CheckDailyCap(c) ==
    /\ CaseAt(c, "cap")
    /\ IF ~disconnected /\ CapReached
       THEN /\ Settles(c, "error")
            /\ caseRun' = [caseRun EXCEPT ![c] = [Created EXCEPT !.status = "error"]]
       ELSE CaseGoes(c, "create") /\ UNCHANGED <<caseResult, caseRun>>
    /\ UNCHANGED <<evalStatus, disconnected, workerPass, modelCalls>>

(***************************************************************************)
(* The record of the run: running from the start, with no lease.  When it  *)
(* cannot be written the case runs without one.                            *)
(***************************************************************************)
CreateRun(c) ==
    /\ CaseAt(c, "create")
    /\ CaseGoes(c, "walk")
    /\ caseRun' = IF disconnected THEN caseRun ELSE [caseRun EXCEPT ![c] = Created]
    /\ UNCHANGED <<evalStatus, caseResult, disconnected, workerPass, modelCalls>>

(***************************************************************************)
(* The agent checks the cap before each call, and its trace goes to the    *)
(* record at once.                                                         *)
(***************************************************************************)
BillsCall(c) ==
    /\ modelCalls' = [modelCalls EXCEPT ![c] = @ + 1]
    /\ caseRun' = IF c \in Stored THEN [caseRun EXCEPT ![c].traces = @ + 1] ELSE caseRun

AgentCalls(c) ==
    /\ CaseAt(c, "walk") /\ ~disconnected /\ ~CapReached
    /\ BillsCall(c)
    /\ evalCase' = [evalCase EXCEPT ![c] = [at |-> "reread", outcome |-> "ok"]]
    /\ UNCHANGED <<evalStatus, caseResult, disconnected, workerPass>>

AgentRefused(c) ==
    /\ CaseAt(c, "walk") /\ (disconnected \/ CapReached)
    /\ evalCase' = [evalCase EXCEPT ![c] = [at |-> "reread", outcome |-> "error"]]
    /\ UNCHANGED <<evalStatus, caseResult, disconnected, caseRun, workerPass, modelCalls>>

(***************************************************************************)
(* The end of RunResumable: the record is read, completed and written      *)
(* back whole.  Nothing is written when it cannot be read.                 *)
(***************************************************************************)
Completed(record, outcome) ==
    [record EXCEPT !.status = IF outcome = "ok" THEN "success" ELSE "error", !.usage = record.traces]

RereadRun(c) ==
    /\ CaseAt(c, "reread")
    /\ IF disconnected \/ c \notin Stored
       THEN Settles(c, evalCase[c].outcome)
       ELSE /\ evalCase' = [evalCase EXCEPT ![c] =
                              [at |-> "update", outcome |-> @.outcome,
                               record |-> Completed(caseRun[c], @.outcome)]]
            /\ UNCHANGED caseResult
    /\ UNCHANGED <<evalStatus, disconnected, caseRun, workerPass, modelCalls>>

UpdateRun(c) ==
    /\ CaseAt(c, "update")
    /\ caseRun' = IF disconnected THEN caseRun ELSE [caseRun EXCEPT ![c] = evalCase[c].record]
    /\ Settles(c, evalCase[c].outcome)
    /\ UNCHANGED <<evalStatus, disconnected, workerPass, modelCalls>>

(***************************************************************************)
(* The counts are taken when every case has settled.  The write of the     *)
(* record fails with the context, and that is only logged.                 *)
(***************************************************************************)
UpdateEvalRun ==
    /\ evalStatus = "running" /\ ~disconnected
    /\ \A c \in Cases : CaseAt(c, "settled")
    /\ evalStatus' = "done"
    /\ UNCHANGED <<evalCase, caseResult, disconnected, caseRun, workerPass, modelCalls>>

----------------------------------------------------------------------------
(***************************************************************************)
(* A claim loop: ClaimLease takes any running record without an            *)
(* owner; the pass calls the model, checkpoints under the lease, and ends  *)
(* with a read and a write of the whole record.                            *)
(***************************************************************************)
WorkerFree == Cardinality({c \in Cases : workerPass[c].at # "none"}) < ClaimLoops
PassAt(c, at) == workerPass[c].at = at
PassGoes(c, at) == workerPass' = [workerPass EXCEPT ![c] = [at |-> at]]

ClaimCase(c) ==
    /\ WorkerFree /\ c \in Stored
    /\ caseRun[c].status = "running" /\ caseRun[c].owner = ""
    /\ caseRun' = [caseRun EXCEPT ![c].owner = "worker"]
    /\ PassGoes(c, "walk")
    /\ UNCHANGED <<evalStatus, evalCase, caseResult, disconnected, modelCalls>>

WorkerCalls(c) ==
    /\ PassAt(c, "walk")
    /\ IF CapReached
       THEN /\ workerPass' = [workerPass EXCEPT ![c] = [at |-> "checkpoint", outcome |-> "error"]]
            /\ UNCHANGED <<caseRun, modelCalls>>
       ELSE /\ workerPass' = [workerPass EXCEPT ![c] = [at |-> "checkpoint", outcome |-> "ok"]]
            /\ BillsCall(c)
    /\ UNCHANGED <<evalStatus, evalCase, caseResult, disconnected>>

WorkerCheckpoints(c) ==
    /\ PassAt(c, "checkpoint") /\ caseRun[c].owner = "worker"
    /\ workerPass' = [workerPass EXCEPT ![c].at = "reread"]
    /\ UNCHANGED <<evalStatus, evalCase, caseResult, disconnected, caseRun, modelCalls>>

WorkerGivesUp(c) ==      \* a checkpoint or a heartbeat finds the lease gone
    /\ ~PassAt(c, "none") /\ caseRun[c].owner # "worker"
    /\ PassGoes(c, "none")
    /\ UNCHANGED <<evalStatus, evalCase, caseResult, disconnected, caseRun, modelCalls>>

WorkerRereads(c) ==
    /\ PassAt(c, "reread")
    /\ workerPass' = [workerPass EXCEPT ![c] =
                        [at |-> "update", record |-> Completed(caseRun[c], @.outcome)]]
    /\ UNCHANGED <<evalStatus, evalCase, caseResult, disconnected, caseRun, modelCalls>>

WorkerUpdates(c) ==      \* and releases the lease
    /\ PassAt(c, "update")
    /\ caseRun' = [caseRun EXCEPT ![c] = [workerPass[c].record EXCEPT !.owner = ""]]
    /\ PassGoes(c, "none")
    /\ UNCHANGED <<evalStatus, evalCase, caseResult, disconnected, modelCalls>>

EvalNext ==
    \/ CreateEvalRun \/ ClientLeaves \/ UpdateEvalRun
    \/ \E c \in Cases :
          \/ DispatchCase(c) \/ CheckDailyCap(c) \/ CreateRun(c) \/ AgentCalls(c)
          \/ AgentRefused(c) \/ RereadRun(c) \/ UpdateRun(c)
          \/ ClaimCase(c) \/ WorkerCalls(c) \/ WorkerCheckpoints(c)
          \/ WorkerGivesUp(c) \/ WorkerRereads(c) \/ WorkerUpdates(c)

EvalSpec == EvalInit /\ [][EvalNext]_evalVars

----------------------------------------------------------------------------
(***************************************************************************)
(* The cap is checked against the costs of runs that ended, by passes that *)
(* spend at once.  What is spent beyond it is bounded by the passes in     *)
(* flight, the last call aside: those of the eval, and one of each claim   *)
(* loop, plus the calls no record will show, of passes that ended without  *)
(* a write or were written over.                                           *)
(***************************************************************************)
Spent == CostSum(modelCalls)
Calling(c) == (IF evalCase[c].at \in {"reread", "update"} THEN 1 ELSE 0)
              + (IF workerPass[c].at \in {"checkpoint", "reread", "update"} THEN 1 ELSE 0)
Unshown(c) == LET hidden == modelCalls[c] - Usage(c) - Calling(c)
              IN IF hidden > 0 THEN hidden ELSE 0

\* The daily cap is overrun by no more than what was in flight or never shown.
SpendBounded ==
    Spent <= MaxDailyUSD + Concurrency + ClaimLoops - 1 + CostSum([c \in Cases |-> Unshown(c)])

(***************************************************************************)
(* What the comments of LeaseOwner and ClaimLease say: execution rights    *)
(* are the lease's, and no record is running without one, so a case whose  *)
(* run executes in the runner is executed by nobody else.                  *)
(***************************************************************************)
ExecutedOnce == \A c \in Cases : modelCalls[c] <= 1
=============================================================================
