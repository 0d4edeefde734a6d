---------------------------- MODULE DurableProofs ----------------------------
(***************************************************************************)
(* What durable execution is worth (WorkflowRun), for any number of runs,  *)
(* nodes and workers: the lease excludes, and what of it survives a gate;  *)
(* without gates the checkpoint is never taken back and a success executed *)
(* every node; a cancelled run that nobody holds stays cancelled; the      *)
(* workers implement DurableRun; a worker that lost its lease executes at  *)
(* most the node it was on, and one for each call that failed.             *)
(***************************************************************************)
EXTENDS WorkflowRunProofs

-----------------------------------------------------------------------------
(***************************************************************************)
(* The lease.  Without a lapse under a live worker and without approval    *)
(* decisions no two workers are on a pass over one run (LeaseExcludes).    *)
(*                                                                         *)
(* The argument: a worker on a pass holds the lease, unlapsed, or its run  *)
(* has a status that nobody claims.  Whole-document writes, however stale, *)
(* only ever leave such a status behind; only a recorded decision brings a *)
(* run back to a claimable one, and that case is left out.                 *)
(***************************************************************************)
Unclaimable(d) == d.status \in {"pending_approval"} \cup Terminal

HoldsOrShut(w, r) ==
    Drives(w, r) =>
        \/ Unclaimable(runs[r])
        \/ runs[r].owner = w /\ ~runs[r].lapsed /\ runs[r].status # "absent"

LeaseInvariant ==
    /\ LeaseExcludes
    /\ \A w \in Workers, r \in Runs : HoldsOrShut(w, r)
    /\ \A w \in Workers : worker[w].pc = "yrelease" => Unclaimable(runs[worker[w].run])

(***************************************************************************)
(* What a step may do to a worker and to a run without giving a run to a   *)
(* second worker.                                                          *)
(***************************************************************************)
StaysOn(w) ==
    \/ worker'[w].pc = "idle"
    \/ /\ worker[w].pc # "idle" /\ worker'[w].run = worker[w].run
       /\ worker'[w].pc = "yrelease" =>
            worker[w].pc = "yrelease" \/ Unclaimable(runs'[worker[w].run])

Undriven(r) == \A w \in Workers : worker'[w].pc = "idle" \/ worker'[w].run # r

LeftSafe(r) ==
    \/ runs'[r] = runs[r]
    \/ Unclaimable(runs'[r])
    \/ Undriven(r)
    \/ /\ runs'[r].status = runs[r].status /\ runs'[r].owner = runs[r].owner
       /\ runs'[r].lapsed => runs[r].lapsed

LEMMA StillExcludes ==
    ASSUME TypeOK, LeaseInvariant,
           \A w \in Workers : StaysOn(w), \A r \in Runs : LeftSafe(r)
    PROVE  LeaseInvariant'
<1>1. \A w \in Workers, r \in Runs : Drives(w, r)' => Drives(w, r)
  BY DEF StaysOn, Drives
<1>2. LeaseExcludes'
  BY <1>1 DEF LeaseInvariant, LeaseExcludes
<1>3. ASSUME NEW r \in Runs, ~Undriven(r), Unclaimable(runs[r])
      PROVE  Unclaimable(runs'[r])
  BY <1>3 DEF LeftSafe, Unclaimable
<1>4. ASSUME NEW w \in Workers, NEW r \in Runs, Drives(w, r)'
      PROVE  HoldsOrShut(w, r)'
  <2>1. ~Undriven(r)
    BY <1>4 DEF Undriven, Drives
  <2>2. HoldsOrShut(w, r) /\ Drives(w, r)
    BY <1>1, <1>4 DEF LeaseInvariant
  <2>3. CASE Unclaimable(runs[r])
    BY <1>3, <2>1, <2>3 DEF HoldsOrShut, Unclaimable
  <2>4. CASE ~Unclaimable(runs[r])
    BY <2>1, <2>2, <2>4 DEF HoldsOrShut, LeftSafe, Unclaimable
  <2> QED
    BY <2>3, <2>4
<1>5. \A w \in Workers, r \in Runs : HoldsOrShut(w, r)'
  BY <1>4 DEF HoldsOrShut
<1>6. ASSUME NEW w \in Workers, worker'[w].pc = "yrelease"
      PROVE  Unclaimable(runs'[worker'[w].run])
  <2>1. /\ worker[w].pc # "idle" /\ worker'[w].run = worker[w].run /\ worker[w].run \in Runs
        /\ worker[w].pc = "yrelease" \/ Unclaimable(runs'[worker[w].run])
    BY <1>6 DEF StaysOn, TypeOK, WorkerStates
  <2>2. ~Undriven(worker[w].run)
    BY <1>6, <2>1 DEF Undriven
  <2> QED
    BY <1>3, <2>1, <2>2 DEF LeaseInvariant
<1> QED
  BY <1>2, <1>5, <1>6 DEF LeaseInvariant, Unclaimable

-----------------------------------------------------------------------------
(***************************************************************************)
(* The steps of a worker on a pass.                                        *)
(***************************************************************************)
LEMMA PassMoves ==
    ASSUME TypeOK, NEW w \in Workers, worker[w].pc # "idle", NEW v,
           worker' = [worker EXCEPT ![w] = v], v.run = worker[w].run,
           v.pc = "yrelease" =>
              worker[w].pc = "yrelease" \/ Unclaimable(runs'[worker[w].run])
    PROVE  \A x \in Workers : StaysOn(x)
  BY DEF TypeOK, WorkerStates, StaysOn, WorkerPCs

LEMMA Leaves ==
    ASSUME TypeOK, NEW w \in Workers, worker' = [worker EXCEPT ![w] = IdleWorker]
    PROVE  (\A x \in Workers : StaysOn(x)) /\ worker'[w].pc = "idle"
  BY DEF TypeOK, WorkerStates, StaysOn, IdleWorker

\* The steps that write nothing to the store.
LEMMA QuietSteps ==
    ASSUME TypeOK, NEW w \in Workers, runs' = runs,
           \/ LoadWorkflow(w) \/ LeaveLoop(w) \/ RunNode(w) \/ RefuseNode(w) \/ ReadAtGate(w)
           \/ Reread(w) \/ ReadFinal(w) \/ GiveUp(w)
           \/ MirrorGateFails(w) \/ CheckpointFails(w) \/ YieldCheckpointFails(w)
           \/ RereadFails(w) \/ FinalFails(w) \/ HeartbeatCancels(w)
    PROVE  \A x \in Workers : StaysOn(x)
<1> DEFINE p == worker'[w].pc
<1>1. worker[w] \in WorkerStates /\ worker[w].pc # "idle"
  BY DEF TypeOK, LoadWorkflow, LeaveLoop, RunNode, RefuseNode, ReadAtGate, AtNode, Reread, ReadFinal,
     GiveUp, MirrorGateFails, CheckpointFails, YieldCheckpointFails, RereadFails, FinalFails,
     HeartbeatCancels, Executing
<1>2. /\ worker'[w].run = worker[w].run
      /\ worker'[w].pc = "yrelease" => worker[w].pc = "yrelease"
      /\ \A x \in Workers : x # w => worker'[x] = worker[x]
  <2>1. CASE LoadWorkflow(w) \/ LeaveLoop(w) \/ ReadAtGate(w)
    BY <1>1, <2>1 DEF TypeOK, WorkerStates, LoadWorkflow, LeaveLoop, ReadAtGate, Goto
  <2>4. CASE RunNode(w)
    BY <1>1, <2>4 DEF TypeOK, WorkerStates, RunNode
  <2>5. CASE RefuseNode(w)
    BY <1>1, <2>5 DEF TypeOK, WorkerStates, RefuseNode
  <2>2. CASE Reread(w) \/ ReadFinal(w) \/ GiveUp(w) \/ HeartbeatCancels(w)
    BY <1>1, <2>2 DEF TypeOK, WorkerStates, Reread, ReadFinal, GiveUp, HeartbeatCancels, Goto
  <2>3. CASE \/ MirrorGateFails(w) \/ CheckpointFails(w) \/ YieldCheckpointFails(w)
             \/ RereadFails(w) \/ FinalFails(w)
    BY <1>1, <2>3 DEF TypeOK, WorkerStates, MirrorGateFails, CheckpointFails, YieldCheckpointFails, RereadFails,
       FinalFails, Goto
  <2> QED
    BY <2>1, <2>2, <2>3, <2>4, <2>5
<1>3. ASSUME NEW x \in Workers PROVE StaysOn(x)
  BY <1>1, <1>2 DEF StaysOn
<1> QED
  BY <1>3

\* One run is written, the others are as they were.
LEMMA OneWrite ==
    ASSUME TypeOK, NEW r \in Runs, NEW e, runs' = [runs EXCEPT ![r] = e],
           Unclaimable(e) \/ Undriven(r)
    PROVE  \A s \in Runs : LeftSafe(s)
  BY DEF TypeOK, LeftSafe

\* The whole-document writes of a worker leave a status nobody claims.
LEMMA WholeWrites ==
    ASSUME TypeOK, LeaseInvariant, NEW w \in Workers,
           WorkflowGone(w) \/ MirrorGate(w) \/ PutFinal(w)
    PROVE  LeaseInvariant'
<1> DEFINE r == worker[w].run
<1>1. worker[w] \in WorkerStates /\ r \in Runs /\ worker[w].pc # "idle"
  BY DEF TypeOK, WorkerStates, WorkflowGone, MirrorGate, PutFinal
<1>2. PICK e : runs' = [runs EXCEPT ![r] = e] /\ Unclaimable(e)
  <2>1. worker[w].doc \in RunDocs
    BY <1>1 DEF WorkerStates
  <2>2. CASE WorkflowGone(w)
    <3> DEFINE e == [worker[w].doc EXCEPT !.status = "error"]
    <3>1. runs' = [runs EXCEPT ![r] = e]
      BY <2>2 DEF WorkflowGone
    <3>2. Unclaimable(e)
      BY <2>1 DEF RunDocs, Unclaimable, Terminal
    <3> HIDE DEF e
    <3> QED
      BY <3>1, <3>2
  <2>3. CASE MirrorGate(w)
    <3> DEFINE e == [worker[w].doc EXCEPT !.status = "pending_approval", !.gate = Head(w)]
    <3>1. runs' = [runs EXCEPT ![r] = e]
      BY <2>3 DEF MirrorGate
    <3>2. Unclaimable(e)
      BY <2>1 DEF RunDocs, Unclaimable
    <3> HIDE DEF e
    <3> QED
      BY <3>1, <3>2
  <2>4. CASE PutFinal(w)
    <3> DEFINE e == [worker[w].doc EXCEPT !.status = IF worker[w].failed THEN "error" ELSE "success",
                                          !.es = NoState, !.gate = 0]
    <3>1. runs' = [runs EXCEPT ![r] = e]
      BY <2>4 DEF PutFinal
    <3>2. Unclaimable(e)
      BY <2>1 DEF RunDocs, Unclaimable, Terminal
    <3> HIDE DEF e
    <3> QED
      BY <3>1, <3>2
  <2> QED
    BY <2>2, <2>3, <2>4
<1>3. /\ worker'[w].run = r /\ worker'[w].pc \in {"release", "yield"}
      /\ \A x \in Workers : x # w => worker'[x] = worker[x]
  BY <1>1 DEF TypeOK, WorkerStates, WorkflowGone, MirrorGate, PutFinal
<1>4. \A x \in Workers : StaysOn(x)
  BY <1>1, <1>3 DEF StaysOn
<1> QED
  BY <1>1, <1>2, <1>4, OneWrite, StillExcludes

LEMMA CheckpointLease ==
    ASSUME TypeOK, LeaseInvariant, NEW w \in Workers, Checkpoint(w)
    PROVE  LeaseInvariant'
<1> DEFINE r == worker[w].run
           e == CheckpointStep(runs[r], Snapshot(w, "none"))
<1>1. worker[w] \in WorkerStates /\ r \in Runs /\ worker[w].pc = "ran" /\ runs[r] \in RunDocs
  BY DEF TypeOK, WorkerStates, Checkpoint
<1>2. CASE LeaseHeld(Doc(w), w)
  <2>1. /\ runs' = [runs EXCEPT ![r] = e]
        /\ worker' = [worker EXCEPT ![w].pc = "bfs"]
    BY <1>2 DEF Checkpoint, Goto
  <2>2. e.status = runs[r].status /\ e.owner = runs[r].owner /\ e.lapsed = runs[r].lapsed
    BY <1>1 DEF CheckpointStep, RunDocs
  <2> HIDE DEF e
  <2>3. \A s \in Runs : LeftSafe(s)
    BY <1>1, <2>1, <2>2 DEF TypeOK, LeftSafe
  <2>4. \A x \in Workers : StaysOn(x)
    BY <1>1, <2>1 DEF TypeOK, WorkerStates, StaysOn
  <2> QED
    BY <2>3, <2>4, StillExcludes
<1>3. CASE ~LeaseHeld(Doc(w), w)
  <2>1. runs' = runs /\ worker' = [worker EXCEPT ![w] = IdleWorker]
    BY <1>3 DEF Checkpoint
  <2> QED
    BY <2>1, Leaves, StillExcludes DEF LeftSafe
<1> QED
  BY <1>2, <1>3

LEMMA YieldLease ==
    ASSUME TypeOK, LeaseInvariant, NEW w \in Workers, YieldCheckpoint(w)
    PROVE  LeaseInvariant'
<1> DEFINE r == worker[w].run
           e == CheckpointYield(runs[r], Snapshot(w, "waiting"))
<1>1. worker[w] \in WorkerStates /\ r \in Runs /\ worker[w].pc = "yield" /\ runs[r] \in RunDocs
  BY DEF TypeOK, WorkerStates, YieldCheckpoint
<1>2. CASE LeaseHeld(Doc(w), w)
  <2>1. /\ runs' = [runs EXCEPT ![r] = e]
        /\ worker' = [worker EXCEPT ![w].pc = "yrelease"]
    BY <1>2 DEF YieldCheckpoint, Goto
  <2>2. Unclaimable(e)
    BY <1>1 DEF CheckpointYield, RunDocs, Unclaimable
  <2> HIDE DEF e
  <2>3. \A s \in Runs : LeftSafe(s)
    BY <1>1, <2>1, <2>2, OneWrite
  <2>4. Unclaimable(runs'[r])
    BY <1>1, <2>1, <2>2 DEF TypeOK
  <2>5. \A x \in Workers : StaysOn(x)
    BY <1>1, <2>1, <2>4 DEF TypeOK, WorkerStates, StaysOn
  <2> QED
    BY <2>3, <2>5, StillExcludes
<1>3. CASE ~LeaseHeld(Doc(w), w)
  <2>1. runs' = runs /\ worker' = [worker EXCEPT ![w] = IdleWorker]
    BY <1>3 DEF YieldCheckpoint
  <2> QED
    BY <2>1, Leaves, StillExcludes DEF LeftSafe
<1> QED
  BY <1>2, <1>3

\* The two releases: after a yield nobody claims the run, at the end of a pass
\* nobody else is on it.
LEMMA ReleaseSteps ==
    ASSUME TypeOK, LeaseInvariant, NEW w \in Workers, YieldRelease(w) \/ Release(w)
    PROVE  LeaseInvariant'
<1> DEFINE r == worker[w].run
           e == ReleaseLease(runs[r], w)
<1>1. worker[w] \in WorkerStates /\ r \in Runs /\ worker[w].pc # "idle" /\ runs[r] \in RunDocs
  BY DEF TypeOK, WorkerStates, YieldRelease, Release
<1>2. runs' = [runs EXCEPT ![r] = e] /\ e.status = runs[r].status
  BY <1>1 DEF YieldRelease, Release, ReleaseLease, RunDocs
<1> HIDE DEF e
<1>3. CASE YieldRelease(w)
  <2>1. Unclaimable(e)
    BY <1>2, <1>3 DEF YieldRelease, LeaseInvariant, Unclaimable
  <2>2. worker' = [worker EXCEPT ![w].pc = "reread"]
    BY <1>3 DEF YieldRelease, Goto
  <2>3. \A x \in Workers : StaysOn(x)
    BY <1>1, <2>2 DEF TypeOK, WorkerStates, StaysOn
  <2> QED
    BY <1>1, <1>2, <2>1, <2>3, OneWrite, StillExcludes
<1>4. CASE Release(w)
  <2>1. worker' = [worker EXCEPT ![w] = IdleWorker]
    BY <1>4 DEF Release
  <2>2. (\A x \in Workers : StaysOn(x)) /\ worker'[w].pc = "idle"
    BY <2>1, Leaves
  <2>3. \A x \in Workers : x # w => ~Drives(x, r) /\ worker'[x] = worker[x]
    BY <1>1, <2>1 DEF LeaseInvariant, LeaseExcludes, Drives, TypeOK
  <2>4. Undriven(r)
    BY <2>2, <2>3 DEF Undriven, Drives
  <2> QED
    BY <1>1, <1>2, <2>2, <2>4, OneWrite, StillExcludes
<1> QED
  BY <1>3, <1>4

LEMMA WorkerLease ==
    ASSUME TypeOK, LeaseInvariant, NEW w \in Workers,
           WorkerStep(w) \/ WorkerFault(w) \/ HeartbeatCancels(w)
    PROVE  LeaseInvariant'
<1> DEFINE Quiet == \/ LoadWorkflow(w) \/ LeaveLoop(w) \/ RunNode(w) \/ RefuseNode(w) \/ ReadAtGate(w)
                    \/ Reread(w) \/ ReadFinal(w) \/ GiveUp(w)
                    \/ MirrorGateFails(w) \/ CheckpointFails(w) \/ YieldCheckpointFails(w)
                    \/ RereadFails(w) \/ FinalFails(w) \/ HeartbeatCancels(w)
<1>1. CASE Quiet
  <2>1. runs' = runs
    BY <1>1 DEF LoadWorkflow, LeaveLoop, RunNode, RefuseNode, ReadAtGate, Reread, ReadFinal, GiveUp,
       MirrorGateFails, CheckpointFails, YieldCheckpointFails, RereadFails, FinalFails,
       HeartbeatCancels
  <2>2. \A x \in Workers : StaysOn(x)
    BY <1>1, <2>1, QuietSteps
  <2> QED
    BY <2>1, <2>2, StillExcludes DEF LeftSafe
<1>2. CASE ~Quiet
  BY <1>2, WholeWrites, CheckpointLease, YieldLease, ReleaseSteps DEF WorkerStep, WorkerFault
<1> QED
  BY <1>1, <1>2

-----------------------------------------------------------------------------
(***************************************************************************)
(* A claim, and the steps of everybody else.                               *)
(***************************************************************************)
LEMMA ClaimExcludes ==
    ASSUME TypeOK, LeaseInvariant, NEW w \in Workers, NEW r \in Runs, Claim(w, r)
    PROVE  LeaseInvariant'
<1> DEFINE e == ClaimLease(runs[r], w)
<1>1. /\ worker[w].pc = "idle" /\ Claimable(runs[r])
      /\ runs' = [runs EXCEPT ![r] = e]
      /\ worker'[w].pc = "load" /\ worker'[w].run = r
      /\ \A x \in Workers : x # w => worker'[x] = worker[x]
  BY DEF Claim, TypeOK, IdleWorker
<1>2. e.status = "running" /\ e.owner = w /\ e.lapsed = FALSE
  BY DEF ClaimLease, TypeOK, RunDocs
<1> HIDE DEF e
<1>3. runs'[r] = e /\ \A s \in Runs : s # r => runs'[s] = runs[s]
  BY <1>1 DEF TypeOK
<1>4. \A x \in Workers : ~Drives(x, r)
  <2> SUFFICES ASSUME NEW x \in Workers, Drives(x, r) PROVE FALSE
    OBVIOUS
  <2>1. x # NoWorker
    BY NoWorkerAssumption
  <2> QED
    BY <1>1, <2>1 DEF LeaseInvariant, HoldsOrShut, Claimable, Unclaimable, Terminal
<1>5. \A x \in Workers, s \in Runs : Drives(x, s)' => (x = w /\ s = r) \/ (x # w /\ s # r /\ Drives(x, s))
  BY <1>1, <1>4 DEF Drives
<1>6. LeaseExcludes'
  BY <1>5 DEF LeaseInvariant, LeaseExcludes
<1>7. \A x \in Workers, s \in Runs : HoldsOrShut(x, s)'
  BY <1>2, <1>3, <1>5 DEF LeaseInvariant, HoldsOrShut, Unclaimable
<1>8. ASSUME NEW x \in Workers, worker'[x].pc = "yrelease"
      PROVE  Unclaimable(runs'[worker'[x].run])
  <2>1. x # w /\ worker'[x] = worker[x] /\ Drives(x, worker[x].run) /\ worker[x].run \in Runs
    BY <1>1, <1>8 DEF Drives, TypeOK, WorkerStates
  <2>2. worker[x].run # r
    BY <1>4, <2>1
  <2> QED
    BY <1>3, <1>8, <2>1, <2>2 DEF LeaseInvariant
<1> QED
  BY <1>6, <1>7, <1>8 DEF LeaseInvariant, Unclaimable

\* The clock, the heartbeat, the sweeps and the trigger.
LEMMA SurroundingSteps ==
    ASSUME TypeOK, LeaseInvariant, MaxLapses = 0,
           \/ \E r \in Runs : Dispatch(r) \/ LeaseLapses(r) \/ OrphanSweep(r)
           \/ \E w \in Workers : HeartbeatExtends(w)
           \/ BootSweep
    PROVE  LeaseInvariant'
<1>1. worker' = worker
  BY DEF Dispatch, LeaseLapses, OrphanSweep, HeartbeatExtends, BootSweep
<1>2. \A w \in Workers : StaysOn(w)
  BY <1>1 DEF StaysOn
<1>3. \A r \in Runs : LeftSafe(r)
  <2>1. ASSUME NEW r \in Runs, Dispatch(r) PROVE \A s \in Runs : LeftSafe(s)
    <3>1. \A w \in Workers : ~Drives(w, r)
      BY <2>1 DEF Dispatch, LeaseInvariant, HoldsOrShut, Unclaimable, Terminal
    <3>2. Undriven(r)
      BY <1>1, <3>1 DEF Undriven, Drives
    <3> QED
      BY <2>1, <3>2, OneWrite DEF Dispatch
  <2>2. ASSUME NEW r \in Runs, LeaseLapses(r) PROVE \A s \in Runs : LeftSafe(s)
    <3> DEFINE e == [runs[r] EXCEPT !.lapsed = TRUE]
               w == runs[r].owner
    <3>1. /\ runs' = [runs EXCEPT ![r] = e] /\ w \in Workers
          /\ used.lapses \in Nat /\ ~Drives(w, r)
      BY <2>2 DEF LeaseLapses, TypeOK, RunDocs
    <3>2. CASE Unclaimable(runs[r])
      <4>1. Unclaimable(e)
        BY <3>2 DEF TypeOK, RunDocs, Unclaimable
      <4> QED
        BY <3>1, <4>1, OneWrite
    <3>3. CASE ~Unclaimable(runs[r])
      <4>1. \A x \in Workers : ~Drives(x, r)
        BY <3>1, <3>3 DEF LeaseInvariant, HoldsOrShut
      <4>2. Undriven(r)
        BY <1>1, <4>1 DEF Undriven, Drives
      <4> QED
        BY <3>1, <4>2, OneWrite
    <3> QED
      BY <3>2, <3>3
  <2>3. ASSUME NEW r \in Runs, OrphanSweep(r) PROVE \A s \in Runs : LeftSafe(s)
    <3>1. Unclaimable(Abandoned(runs[r]))
      BY DEF Abandoned, TypeOK, RunDocs, Unclaimable, Terminal
    <3> QED
      BY <2>3, <3>1, OneWrite DEF OrphanSweep
  <2>4. ASSUME NEW w \in Workers, HeartbeatExtends(w) PROVE \A s \in Runs : LeftSafe(s)
    BY <2>4 DEF HeartbeatExtends, ExtendLease, TypeOK, RunDocs, WorkerStates, LeftSafe
  <2>5. CASE BootSweep
    <3>1. \A r \in Runs : Unclaimable(Abandoned(runs[r]))
      BY DEF Abandoned, TypeOK, RunDocs, Unclaimable, Terminal
    <3>2. \A r \in Runs : runs'[r] = runs[r] \/ runs'[r] = Abandoned(runs[r])
      BY <2>5 DEF BootSweep
    <3> QED
      BY <3>1, <3>2 DEF LeftSafe, Unclaimable
  <2> QED
    BY <2>1, <2>2, <2>3, <2>4, <2>5
<1> QED
  BY <1>2, <1>3, StillExcludes

\* The requests: what they write back, however old, is a status nobody claims.
LEMMA RequestLease ==
    ASSUME TypeOK, LeaseInvariant, ApprovalReqs = {}, NEW q \in Requests, RequestStep(q)
    PROVE  LeaseInvariant'
<1>1. worker' = worker
  BY DEF RequestStep, CancelWrite, CancelRead, ReapWrite, ReapRead, ReadRun
<1>2. \A w \in Workers : StaysOn(w)
  BY <1>1 DEF StaysOn
<1>3. request[q].doc \in RunDocs /\ request[q].run \in Runs
  BY DEF TypeOK, RequestStates
<1>4. \A r \in Runs : LeftSafe(r)
  <2>1. CASE CancelWrite(q)
    <3> DEFINE e == [request[q].doc EXCEPT !.status = "cancelled", !.gate = 0,
                        !.es = NoState, !.owner = NoWorker, !.lapsed = FALSE]
    <3>1. Unclaimable(e)
      BY <1>3 DEF RunDocs, Unclaimable, Terminal
    <3> QED
      BY <1>3, <2>1, <3>1, OneWrite DEF CancelWrite
  <2>2. CASE ReapWrite(q)
    <3> DEFINE e == [request[q].doc EXCEPT !.status = "cancelled", !.gate = 0]
    <3>1. Unclaimable(e)
      BY <1>3 DEF RunDocs, Unclaimable, Terminal
    <3> QED
      BY <1>3, <2>2, <3>1, OneWrite DEF ReapWrite
  <2>3. CASE \E r \in Runs : CancelRead(q, r) \/ ReapRead(q, r)
    BY <2>3 DEF CancelRead, ReapRead, ReadRun, LeftSafe
  <2> QED
    BY <2>1, <2>2, <2>3 DEF RequestStep
<1> QED
  BY <1>2, <1>4, StillExcludes

LEMMA StepExcludes ==
    ASSUME MaxLapses = 0, ApprovalReqs = {}, TypeOK, LeaseInvariant, [Next]_vars
    PROVE  LeaseInvariant'
<1>1. CASE UNCHANGED vars
  BY <1>1, StillExcludes DEF vars, StaysOn, LeftSafe
<1>2. ASSUME NEW w \in Workers, Crash(w)
      PROVE  LeaseInvariant'
  BY <1>2, Leaves, StillExcludes DEF Crash, LeftSafe
<1> QED
  BY <1>1, <1>2, ClaimExcludes, WorkerLease, SurroundingSteps, RequestLease DEF Next, Heartbeat

(***************************************************************************)
(* Without a lapse under a live worker and without approval decisions no   *)
(* two workers are ever on a pass over one run, however often processes    *)
(* die, calls fail, and runs are cancelled, reaped and swept.              *)
(***************************************************************************)
THEOREM LeaseIsExclusive ==
    ASSUME MaxLapses = 0, ApprovalReqs = {}
    PROVE  Spec => []LeaseExcludes
<1>1. Init => LeaseInvariant
  BY DEF Init, IdleWorker, LeaseInvariant, LeaseExcludes, HoldsOrShut, Drives
<1>2. TypeOK /\ LeaseInvariant /\ [Next]_vars => LeaseInvariant'
  BY StepExcludes
<1>3. LeaseInvariant => LeaseExcludes
  BY DEF LeaseInvariant
<1> QED
  BY <1>1, <1>2, <1>3, TypeCorrect, PTL DEF Spec

-----------------------------------------------------------------------------
(***************************************************************************)
(* The lease across gates.  A decision gives the run away while the worker *)
(* that yielded is still on its way out, so what stays exclusive is the    *)
(* walk: no two workers are at the nodes of one run.                       *)
(*                                                                         *)
(* The argument: a gate waits in the store only after its worker has left  *)
(* the nodes, and no document that would bring it back is written later.   *)
(* So a decision on a waiting gate takes the run from nobody.              *)
(***************************************************************************)
\* Worker w will execute nodes of run r, or show a gate of it.
Walks(w, r) ==
    worker[w].pc \in {"load", "bfs", "ran", "mirror", "yield"} /\ worker[w].run = r

WalkExcludes ==
    \A r \in Runs : \A v, w \in Workers : Walks(v, r) /\ Walks(w, r) => v = w

Waiting(d) == d.es # NoState /\ d.es.pending = "waiting"

\* A decision is recorded on a gate that waits for one, never on one that has
\* been decided: the filter of ApplyApprovalDecision does not ask this.
FirstDecision ==
    \A q \in ApprovalReqs :
        /\ request[q].pc = "read" /\ request'[q].pc = "answered"
        /\ HasPending(request[q].doc) /\ HasPending(runs[request[q].run])
        => Waiting(runs[request[q].run])

WalkHolds(w, r) ==
    Walks(w, r) =>
        /\ ~Waiting(runs[r])
        /\ \/ Unclaimable(runs[r])
           \/ runs[r].owner = w /\ ~runs[r].lapsed /\ runs[r].status # "absent"

CopyDecided(w) == worker[w].pc \in {"load", "mirror"} => ~Waiting(worker[w].doc)

WalkInvariant ==
    /\ WalkExcludes
    /\ \A w \in Workers, r \in Runs : WalkHolds(w, r)
    /\ \A r \in Runs : Waiting(runs[r]) => Unclaimable(runs[r])
    /\ \A w \in Workers : CopyDecided(w)

(***************************************************************************)
(* What a step may do to a worker and to a run.                            *)
(***************************************************************************)
NoNewWalk(w) ==
    /\ \A r \in Runs : Walks(w, r)' => Walks(w, r)
    /\ CopyDecided(w)'

Unwalked(r) == \A w \in Workers : ~Walks(w, r)'

LeftToWalkers(r) ==
    \/ runs'[r] = runs[r]
    \/ Unclaimable(runs'[r]) /\ (Waiting(runs'[r]) => Waiting(runs[r]) \/ Unwalked(r))
    \/ Unwalked(r) /\ (Waiting(runs'[r]) => Unclaimable(runs'[r]))
    \/ /\ runs'[r].status = runs[r].status /\ runs'[r].owner = runs[r].owner
       /\ runs'[r].lapsed => runs[r].lapsed
       /\ Waiting(runs'[r]) => Waiting(runs[r])

LEMMA StillWalksAlone ==
    ASSUME WalkInvariant, \A w \in Workers : NoNewWalk(w), \A r \in Runs : LeftToWalkers(r)
    PROVE  WalkInvariant'
<1>1. WalkExcludes'
  BY DEF WalkInvariant, WalkExcludes, NoNewWalk
<1>2. ASSUME NEW w \in Workers, NEW r \in Runs, Walks(w, r)'
      PROVE  WalkHolds(w, r)'
  <2>1. Walks(w, r) /\ WalkHolds(w, r) /\ ~Unwalked(r) /\ LeftToWalkers(r)
    BY <1>2 DEF NoNewWalk, WalkInvariant, Unwalked
  <2>2. ~Waiting(runs'[r])
    BY <2>1 DEF WalkHolds, LeftToWalkers
  <2>3. \/ Unclaimable(runs'[r])
        \/ runs'[r].owner = w /\ ~runs'[r].lapsed /\ runs'[r].status # "absent"
    BY <2>1 DEF WalkHolds, LeftToWalkers, Unclaimable
  <2> QED
    BY <2>2, <2>3 DEF WalkHolds, Waiting, Unclaimable
<1>3. ASSUME NEW r \in Runs, Waiting(runs'[r])
      PROVE  Unclaimable(runs'[r])
  BY <1>3 DEF WalkInvariant, LeftToWalkers, Unclaimable
<1>4. \A w \in Workers, r \in Runs : WalkHolds(w, r)'
  BY <1>2 DEF WalkHolds
<1>5. \A w \in Workers : CopyDecided(w)'
  BY DEF NoNewWalk
<1> QED
  BY <1>1, <1>3, <1>4, <1>5 DEF WalkInvariant, Waiting, Unclaimable

\* One run is written, the others are as they were.
LEMMA OneLeftToWalkers ==
    ASSUME TypeOK, NEW r \in Runs, NEW e, runs' = [runs EXCEPT ![r] = e],
           \/ Unclaimable(e) /\ (Waiting(e) => Waiting(runs[r]) \/ Unwalked(r))
           \/ Unwalked(r) /\ (Waiting(e) => Unclaimable(e))
    PROVE  \A s \in Runs : LeftToWalkers(s)
<1>1. runs'[r] = e /\ \A s \in Runs : s # r => runs'[s] = runs[s]
  BY DEF TypeOK
<1> QED
  BY <1>1 DEF LeftToWalkers

\* The steps of a worker on a pass.
LEMMA WalkMoves ==
    ASSUME TypeOK, WalkInvariant, NEW w \in Workers, NEW v,
           worker' = [worker EXCEPT ![w] = v],
           v.pc \in {"load", "bfs", "ran", "mirror", "yield"} =>
              /\ worker[w].pc \in {"load", "bfs", "ran", "mirror", "yield"}
              /\ v.run = worker[w].run,
           v.pc \in {"load", "mirror"} => ~Waiting(v.doc)
    PROVE  \A x \in Workers : NoNewWalk(x)
<1>1. worker'[w] = v /\ \A x \in Workers : x # w => worker'[x] = worker[x]
  BY DEF TypeOK
<1>2. NoNewWalk(w)
  BY <1>1 DEF NoNewWalk, Walks, CopyDecided, Waiting
<1>3. ASSUME NEW x \in Workers, x # w PROVE NoNewWalk(x)
  BY <1>1, <1>3 DEF NoNewWalk, Walks, CopyDecided, WalkInvariant, Waiting
<1> QED
  BY <1>2, <1>3

LEMMA IdleWalks ==
    ASSUME TypeOK, WalkInvariant, NEW w \in Workers, worker' = [worker EXCEPT ![w] = IdleWorker]
    PROVE  \A x \in Workers : NoNewWalk(x)
<1>1. IdleWorker.pc = "idle"
  BY DEF IdleWorker
<1> HIDE DEF IdleWorker
<1> QED
  BY <1>1, WalkMoves

LEMMA QuietWalks ==
    ASSUME TypeOK, WalkInvariant, NEW w \in Workers, runs' = runs,
           \/ LoadWorkflow(w) \/ LeaveLoop(w) \/ RunNode(w) \/ RefuseNode(w) \/ ReadAtGate(w)
           \/ Reread(w) \/ ReadFinal(w) \/ GiveUp(w)
           \/ MirrorGateFails(w) \/ CheckpointFails(w) \/ YieldCheckpointFails(w)
           \/ RereadFails(w) \/ FinalFails(w) \/ HeartbeatCancels(w)
    PROVE  WalkInvariant'
<1>1. worker[w] \in WorkerStates
  BY DEF TypeOK
<1>2. PICK v : /\ worker' = [worker EXCEPT ![w] = v]
               /\ v.pc \in {"load", "bfs", "ran", "mirror", "yield"} =>
                     /\ worker[w].pc \in {"load", "bfs", "ran", "mirror", "yield"}
                     /\ v.run = worker[w].run
               /\ v.pc \in {"load", "mirror"} => ~Waiting(v.doc)
  <2> DEFINE Fits(v) ==
               /\ worker' = [worker EXCEPT ![w] = v]
               /\ v.pc \in {"load", "bfs", "ran", "mirror", "yield"} =>
                     /\ worker[w].pc \in {"load", "bfs", "ran", "mirror", "yield"}
                     /\ v.run = worker[w].run
               /\ v.pc \in {"load", "mirror"} => ~Waiting(v.doc)
  <2>1. CASE LoadWorkflow(w)
    <3> DEFINE v == [worker[w] EXCEPT !.pc = "bfs", !.doc = NoRun]
    <3>1. Fits(v)
      BY <1>1, <2>1 DEF LoadWorkflow, WorkerStates
    <3> QED
      BY <3>1
  <2>2. CASE LeaveLoop(w)
    <3> DEFINE v == [worker[w] EXCEPT !.pc = "reread"]
    <3>1. Fits(v)
      BY <1>1, <2>2 DEF LeaveLoop, Goto, WorkerStates
    <3> QED
      BY <3>1
  <2>3. CASE RunNode(w) \/ RefuseNode(w)
    <3>1. worker' = [worker EXCEPT ![w] = worker'[w]]
      BY <2>3 DEF RunNode, RefuseNode, TypeOK
    <3>2. worker'[w].pc = "ran" /\ worker'[w].run = worker[w].run /\ worker[w].pc = "bfs"
      <4>1. CASE RunNode(w)
        BY <1>1, <4>1 DEF RunNode, AtNode, TypeOK, WorkerStates
      <4>2. CASE RefuseNode(w)
        BY <1>1, <4>2 DEF RefuseNode, AtNode, TypeOK, WorkerStates
      <4> QED
        BY <2>3, <4>1, <4>2
    <3>3. Fits(worker'[w])
      BY <3>1, <3>2
    <3> QED
      BY <3>3
  <2>4. CASE ReadAtGate(w)
    <3> DEFINE v == [worker[w] EXCEPT !.pc = "mirror", !.doc = Doc(w)]
    <3>1. /\ worker[w].pc = "bfs" /\ worker' = [worker EXCEPT ![w] = v]
          /\ worker[w].run \in Runs
      BY <1>1, <2>4 DEF ReadAtGate, AtNode, WorkerStates
    <3>2. v.pc = "mirror" /\ v.run = worker[w].run /\ v.doc = runs[worker[w].run]
      BY <1>1 DEF WorkerStates, Doc
    <3>3. ~Waiting(runs[worker[w].run])
      BY <3>1 DEF WalkInvariant, WalkHolds, Walks
    <3> HIDE DEF v
    <3>4. Fits(v)
      BY <3>1, <3>2, <3>3
    <3> QED
      BY <3>4
  <2>5. CASE Reread(w) \/ RereadFails(w) \/ ReadFinal(w) \/ GiveUp(w)
               \/ YieldCheckpointFails(w) \/ FinalFails(w)
    <3>1. worker' = [worker EXCEPT ![w] = worker'[w]]
      BY <2>5 DEF Reread, RereadFails, ReadFinal, GiveUp, YieldCheckpointFails, FinalFails, Goto,
         TypeOK
    <3>2. worker'[w].pc \in {"release", "final", "put", "reread"}
      BY <1>1, <2>5 DEF Reread, RereadFails, ReadFinal, GiveUp, YieldCheckpointFails, FinalFails,
         Goto, TypeOK, WorkerStates
    <3>3. Fits(worker'[w])
      BY <3>1, <3>2
    <3> QED
      BY <3>3
  <2>6. CASE MirrorGateFails(w)
    <3> DEFINE v == [worker[w] EXCEPT !.pc = "yield", !.doc = NoRun]
    <3>1. Fits(v)
      BY <1>1, <2>6 DEF MirrorGateFails, WorkerStates
    <3> QED
      BY <3>1
  <2>7. CASE CheckpointFails(w)
    <3> DEFINE v == [worker[w] EXCEPT !.pc = "bfs"]
    <3>1. Fits(v)
      BY <1>1, <2>7 DEF CheckpointFails, Goto, WorkerStates
    <3> QED
      BY <3>1
  <2>8. CASE HeartbeatCancels(w)
    <3> DEFINE v == [worker[w] EXCEPT !.ctxDone = TRUE]
    <3>1. worker' = [worker EXCEPT ![w] = v]
      BY <2>8 DEF HeartbeatCancels
    <3>2. v.pc = worker[w].pc /\ v.run = worker[w].run /\ v.doc = worker[w].doc
      BY <1>1 DEF WorkerStates
    <3> HIDE DEF v
    <3>3. Fits(v)
      BY <3>1, <3>2 DEF WalkInvariant, CopyDecided
    <3> QED
      BY <3>3
  <2> QED
    BY <2>1, <2>2, <2>3, <2>4, <2>5, <2>6, <2>7, <2>8
<1>3. \A x \in Workers : NoNewWalk(x)
  BY <1>2, WalkMoves
<1>4. \A r \in Runs : LeftToWalkers(r)
  BY DEF LeftToWalkers
<1> QED
  BY <1>3, <1>4, StillWalksAlone

\* The whole-document writes of a worker leave a status nobody claims, and no
\* gate that waits.
LEMMA WholeWritesWalk ==
    ASSUME TypeOK, WalkInvariant, NEW w \in Workers,
           WorkflowGone(w) \/ MirrorGate(w) \/ PutFinal(w)
    PROVE  WalkInvariant'
<1> DEFINE r == worker[w].run
<1>1. worker[w] \in WorkerStates /\ r \in Runs /\ worker[w].doc \in RunDocs
  BY DEF TypeOK, WorkerStates
<1>2. PICK e : runs' = [runs EXCEPT ![r] = e] /\ Unclaimable(e) /\ ~Waiting(e)
  <2>1. CASE WorkflowGone(w)
    <3> DEFINE e == [worker[w].doc EXCEPT !.status = "error"]
    <3>1. runs' = [runs EXCEPT ![r] = e] /\ ~Waiting(worker[w].doc)
      BY <2>1 DEF WorkflowGone, WalkInvariant, CopyDecided
    <3>2. e.status = "error" /\ e.es = worker[w].doc.es
      BY <1>1 DEF RunDocs
    <3> HIDE DEF e
    <3> QED
      BY <3>1, <3>2 DEF Unclaimable, Terminal, Waiting
  <2>2. CASE MirrorGate(w)
    <3> DEFINE e == [worker[w].doc EXCEPT !.status = "pending_approval", !.gate = Head(w)]
    <3>1. runs' = [runs EXCEPT ![r] = e] /\ ~Waiting(worker[w].doc)
      BY <2>2 DEF MirrorGate, WalkInvariant, CopyDecided
    <3>2. e.status = "pending_approval" /\ e.es = worker[w].doc.es
      BY <1>1 DEF RunDocs
    <3> HIDE DEF e
    <3> QED
      BY <3>1, <3>2 DEF Unclaimable, Waiting
  <2>3. CASE PutFinal(w)
    <3> DEFINE e == [worker[w].doc EXCEPT !.status = IF worker[w].failed THEN "error" ELSE "success",
                                          !.es = NoState, !.gate = 0]
    <3>1. runs' = [runs EXCEPT ![r] = e]
      BY <2>3 DEF PutFinal
    <3>2. e.status \in {"error", "success"} /\ e.es = NoState
      BY <1>1 DEF RunDocs
    <3> HIDE DEF e
    <3> QED
      BY <3>1, <3>2 DEF Unclaimable, Terminal, Waiting
  <2> QED
    BY <2>1, <2>2, <2>3
<1>3. PICK v : /\ worker' = [worker EXCEPT ![w] = v] /\ v.run = r
               /\ v.pc \in {"release", "yield"}
               /\ v.pc = "yield" => worker[w].pc = "mirror"
  <2>1. CASE WorkflowGone(w)
    <3> DEFINE v == [worker[w] EXCEPT !.pc = "release", !.doc = NoRun]
    <3>1. worker' = [worker EXCEPT ![w] = v] /\ v.pc = "release" /\ v.run = r
      BY <1>1, <2>1 DEF WorkflowGone, WorkerStates
    <3> QED
      BY <3>1
  <2>2. CASE MirrorGate(w)
    <3> DEFINE v == [worker[w] EXCEPT !.pc = "yield", !.doc = NoRun]
    <3>1. /\ worker' = [worker EXCEPT ![w] = v] /\ v.pc = "yield" /\ v.run = r
          /\ worker[w].pc = "mirror"
      BY <1>1, <2>2 DEF MirrorGate, WorkerStates
    <3> QED
      BY <3>1
  <2>3. CASE PutFinal(w)
    <3> DEFINE v == [worker[w] EXCEPT !.pc = "release", !.doc = NoRun]
    <3>1. worker' = [worker EXCEPT ![w] = v] /\ v.pc = "release" /\ v.run = r
      BY <1>1, <2>3 DEF PutFinal, WorkerStates
    <3> QED
      BY <3>1
  <2> QED
    BY <2>1, <2>2, <2>3
<1>4. \A x \in Workers : NoNewWalk(x)
  BY <1>3, WalkMoves
<1> QED
  BY <1>1, <1>2, <1>4, OneLeftToWalkers, StillWalksAlone

\* A checkpoint is that of a node that ran: no gate waits in it.
LEMMA CheckpointWalk ==
    ASSUME TypeOK, WalkInvariant, NEW w \in Workers, Checkpoint(w)
    PROVE  WalkInvariant'
<1> DEFINE r == worker[w].run
           e == CheckpointStep(runs[r], Snapshot(w, "none"))
<1>1. worker[w] \in WorkerStates /\ r \in Runs /\ worker[w].pc = "ran" /\ runs[r] \in RunDocs
  BY DEF TypeOK, WorkerStates, Checkpoint
<1>2. CASE LeaseHeld(Doc(w), w)
  <2> DEFINE v == [worker[w] EXCEPT !.pc = "bfs"]
  <2>1. runs' = [runs EXCEPT ![r] = e] /\ worker' = [worker EXCEPT ![w] = v]
    BY <1>2 DEF Checkpoint, Goto
  <2>2. /\ e.status = runs[r].status /\ e.owner = runs[r].owner /\ e.lapsed = runs[r].lapsed
        /\ e.es.pending = "none"
    BY <1>1 DEF CheckpointStep, RunDocs, Snapshot
  <2>3. v.pc = "bfs" /\ v.run = r
    BY <1>1 DEF WorkerStates
  <2> HIDE DEF e, v
  <2>4. \A s \in Runs : LeftToWalkers(s)
    BY <1>1, <2>1, <2>2 DEF TypeOK, LeftToWalkers, Waiting
  <2>5. \A x \in Workers : NoNewWalk(x)
    BY <1>1, <2>1, <2>3, WalkMoves
  <2> QED
    BY <2>4, <2>5, StillWalksAlone
<1>3. CASE ~LeaseHeld(Doc(w), w)
  <2>1. runs' = runs /\ worker' = [worker EXCEPT ![w] = IdleWorker]
    BY <1>3 DEF Checkpoint
  <2> QED
    BY <2>1, IdleWalks, StillWalksAlone DEF LeftToWalkers
<1> QED
  BY <1>2, <1>3

\* The yield makes the gate wait, and takes its worker from the nodes; there is
\* no other worker there.
LEMMA YieldWalk ==
    ASSUME TypeOK, WalkInvariant, NEW w \in Workers, YieldCheckpoint(w)
    PROVE  WalkInvariant'
<1> PICK r \in Runs : r = worker[w].run
  BY DEF TypeOK, WorkerStates
<1> DEFINE e == CheckpointYield(runs[r], Snapshot(w, "waiting"))
<1>1. worker[w] \in WorkerStates /\ worker[w].pc = "yield" /\ runs[r] \in RunDocs
  BY DEF TypeOK, YieldCheckpoint
<1>2. CASE LeaseHeld(Doc(w), w)
  <2> DEFINE v == [worker[w] EXCEPT !.pc = "yrelease"]
  <2>1. runs' = [runs EXCEPT ![r] = e] /\ worker' = [worker EXCEPT ![w] = v]
    BY <1>2 DEF YieldCheckpoint, Goto
  <2>2. Unclaimable(e)
    BY <1>1 DEF CheckpointYield, RunDocs, Unclaimable
  <2>3. v.pc = "yrelease"
    BY <1>1 DEF WorkerStates
  <2> HIDE DEF e, v
  <2>4. Unwalked(r)
    <3>1. worker'[w] = v /\ \A x \in Workers : x # w => worker'[x] = worker[x]
      BY <2>1 DEF TypeOK
    <3>2. Walks(w, r)
      BY <1>1 DEF Walks
    <3>3. \A x \in Workers : x # w => ~Walks(x, r)
      BY <1>1, <3>2 DEF WalkInvariant, WalkExcludes
    <3> QED
      BY <2>3, <3>1, <3>3 DEF Unwalked, Walks
  <2>5. \A s \in Runs : LeftToWalkers(s)
    BY <1>1, <2>1, <2>2, <2>4, OneLeftToWalkers
  <2>6. \A x \in Workers : NoNewWalk(x)
    BY <2>1, <2>3, WalkMoves
  <2> QED
    BY <2>5, <2>6, StillWalksAlone
<1>3. CASE ~LeaseHeld(Doc(w), w)
  <2>1. runs' = runs /\ worker' = [worker EXCEPT ![w] = IdleWorker]
    BY <1>3 DEF YieldCheckpoint
  <2> QED
    BY <2>1, IdleWalks, StillWalksAlone DEF LeftToWalkers
<1> QED
  BY <1>2, <1>3

\* A release gives up a lease of its own: then nobody else is at the nodes.
LEMMA ReleaseWalk ==
    ASSUME TypeOK, WalkInvariant, NEW w \in Workers, YieldRelease(w) \/ Release(w)
    PROVE  WalkInvariant'
<1> PICK r \in Runs : r = worker[w].run
  BY DEF TypeOK, WorkerStates
<1> DEFINE e == ReleaseLease(runs[r], w)
<1>1. /\ worker[w] \in WorkerStates /\ runs[r] \in RunDocs
      /\ worker[w].pc \in {"yrelease", "release"}
  BY DEF TypeOK, YieldRelease, Release
<1>2. /\ runs' = [runs EXCEPT ![r] = e]
      /\ e.status = runs[r].status /\ e.es = runs[r].es
      /\ runs[r].owner # w => e = runs[r]
  BY <1>1 DEF YieldRelease, Release, ReleaseLease, LeaseHeld, RunDocs
<1> HIDE DEF e
<1>3. PICK v : worker' = [worker EXCEPT ![w] = v] /\ v.pc \in {"reread", "idle"}
  <2>1. CASE YieldRelease(w)
    <3> DEFINE v == [worker[w] EXCEPT !.pc = "reread"]
    <3>1. worker' = [worker EXCEPT ![w] = v] /\ v.pc = "reread"
      BY <1>1, <2>1 DEF YieldRelease, Goto, WorkerStates
    <3> QED
      BY <3>1
  <2>2. CASE Release(w)
    <3>1. worker' = [worker EXCEPT ![w] = IdleWorker] /\ IdleWorker.pc = "idle"
      BY <2>2 DEF Release, IdleWorker
    <3> HIDE DEF IdleWorker
    <3> QED
      BY <3>1
  <2> QED
    BY <2>1, <2>2
<1>4. \A x \in Workers : NoNewWalk(x)
  BY <1>3, WalkMoves
<1>5. CASE runs[r].owner # w \/ Unclaimable(runs[r])
  <2>1. runs'[r] = e /\ \A s \in Runs : s # r => runs'[s] = runs[s]
    BY <1>1, <1>2 DEF TypeOK
  <2>2. \A s \in Runs : LeftToWalkers(s)
    BY <1>2, <1>5, <2>1 DEF LeftToWalkers, Unclaimable, Waiting
  <2> QED
    BY <1>4, <2>2, StillWalksAlone
<1>6. CASE runs[r].owner = w /\ ~Unclaimable(runs[r])
  <2>1. \A x \in Workers : ~Walks(x, r)
    BY <1>1, <1>6 DEF WalkInvariant, WalkHolds, Walks
  <2>2. Unwalked(r)
    BY <1>1, <1>4, <2>1 DEF NoNewWalk, Unwalked
  <2>3. Waiting(e) => Unclaimable(e)
    BY <1>1, <1>2 DEF WalkInvariant, Waiting, Unclaimable
  <2> QED
    BY <1>1, <1>2, <1>4, <2>2, <2>3, OneLeftToWalkers, StillWalksAlone
<1> QED
  BY <1>5, <1>6

LEMMA WorkerWalk ==
    ASSUME TypeOK, WalkInvariant, NEW w \in Workers,
           WorkerStep(w) \/ WorkerFault(w) \/ HeartbeatCancels(w)
    PROVE  WalkInvariant'
<1> DEFINE Quiet == \/ LoadWorkflow(w) \/ LeaveLoop(w) \/ RunNode(w) \/ RefuseNode(w) \/ ReadAtGate(w)
                    \/ Reread(w) \/ ReadFinal(w) \/ GiveUp(w)
                    \/ MirrorGateFails(w) \/ CheckpointFails(w) \/ YieldCheckpointFails(w)
                    \/ RereadFails(w) \/ FinalFails(w) \/ HeartbeatCancels(w)
<1>1. CASE Quiet
  <2>1. runs' = runs
    BY <1>1 DEF LoadWorkflow, LeaveLoop, RunNode, RefuseNode, ReadAtGate, Reread, ReadFinal, GiveUp,
       MirrorGateFails, CheckpointFails, YieldCheckpointFails, RereadFails, FinalFails,
       HeartbeatCancels
  <2> QED
    BY <1>1, <2>1, QuietWalks
<1>2. CASE ~Quiet
  BY <1>2, WholeWritesWalk, CheckpointWalk, YieldWalk, ReleaseWalk DEF WorkerStep, WorkerFault
<1> QED
  BY <1>1, <1>2

-----------------------------------------------------------------------------
\* Nobody is at the nodes of a run that can be claimed, and no gate waits there.
LEMMA ClaimWalk ==
    ASSUME TypeOK, WalkInvariant, NEW w \in Workers, NEW r \in Runs, Claim(w, r)
    PROVE  WalkInvariant'
<1> DEFINE e == ClaimLease(runs[r], w)
<1>1. /\ worker[w].pc = "idle" /\ Claimable(runs[r])
      /\ runs' = [runs EXCEPT ![r] = e]
      /\ worker'[w].pc = "load" /\ worker'[w].run = r /\ worker'[w].doc = e
      /\ \A x \in Workers : x # w => worker'[x] = worker[x]
  BY DEF Claim, TypeOK, IdleWorker
<1>2. e.status = "running" /\ e.owner = w /\ e.lapsed = FALSE /\ e.es = runs[r].es
  BY DEF ClaimLease, TypeOK, RunDocs
<1> HIDE DEF e
<1>3. runs'[r] = e /\ \A s \in Runs : s # r => runs'[s] = runs[s]
  BY <1>1 DEF TypeOK
<1>4. ~Waiting(runs[r]) /\ ~Unclaimable(runs[r])
  BY <1>1 DEF WalkInvariant, Claimable, Unclaimable, Terminal
<1>5. \A x \in Workers : ~Walks(x, r)
  <2> SUFFICES ASSUME NEW x \in Workers, Walks(x, r) PROVE FALSE
    OBVIOUS
  <2>1. x # NoWorker
    BY NoWorkerAssumption
  <2> QED
    BY <1>1, <1>4, <2>1 DEF WalkInvariant, WalkHolds, Claimable
<1>6. \A x \in Workers, s \in Runs : Walks(x, s)' => (x = w /\ s = r) \/ (x # w /\ s # r /\ Walks(x, s))
  BY <1>1, <1>5 DEF Walks
<1>7. WalkExcludes'
  BY <1>6 DEF WalkInvariant, WalkExcludes
<1>8. ASSUME NEW x \in Workers, NEW s \in Runs, Walks(x, s)'
      PROVE  /\ ~Waiting(runs'[s])
             /\ \/ Unclaimable(runs'[s])
                \/ runs'[s].owner = x /\ ~runs'[s].lapsed /\ runs'[s].status # "absent"
  BY <1>2, <1>3, <1>4, <1>6, <1>8 DEF WalkInvariant, WalkHolds, Waiting
<1>9. \A x \in Workers, s \in Runs : WalkHolds(x, s)'
  BY <1>8 DEF WalkHolds, Waiting, Unclaimable
<1>10. \A s \in Runs : Waiting(runs'[s]) => Unclaimable(runs'[s])
  BY <1>2, <1>3, <1>4 DEF WalkInvariant, Waiting
<1>11. \A x \in Workers : CopyDecided(x)'
  BY <1>1, <1>2, <1>4 DEF WalkInvariant, CopyDecided, Waiting
<1> QED
  BY <1>7, <1>9, <1>10, <1>11 DEF WalkInvariant, Waiting, Unclaimable

LEMMA OthersWalk ==
    ASSUME TypeOK, WalkInvariant, worker' = worker
    PROVE  /\ \A w \in Workers : NoNewWalk(w)
           /\ \A r \in Runs : (\A w \in Workers : ~Walks(w, r)) => Unwalked(r)
BY DEF NoNewWalk, Unwalked, Walks, CopyDecided, WalkInvariant, Waiting

\* The clock, the heartbeat, the sweeps and the trigger.
LEMMA SurroundingsWalk ==
    ASSUME TypeOK, WalkInvariant, MaxLapses = 0,
           \/ \E r \in Runs : Dispatch(r) \/ LeaseLapses(r) \/ OrphanSweep(r)
           \/ \E w \in Workers : HeartbeatExtends(w)
           \/ BootSweep
    PROVE  WalkInvariant'
<1>1. worker' = worker
  BY DEF Dispatch, LeaseLapses, OrphanSweep, HeartbeatExtends, BootSweep
<1>a. \A r \in Runs : Unclaimable(Abandoned(runs[r])) /\ Abandoned(runs[r]).es = runs[r].es
  BY DEF Abandoned, TypeOK, RunDocs, Unclaimable, Terminal
<1>2. \A r \in Runs : LeftToWalkers(r)
  <2>1. ASSUME NEW r \in Runs, Dispatch(r) PROVE \A s \in Runs : LeftToWalkers(s)
    <3>1. \A w \in Workers : ~Walks(w, r)
      BY <2>1 DEF Dispatch, WalkInvariant, WalkHolds, Unclaimable, Terminal
    <3>2. Unwalked(r)
      BY <1>1, <3>1, OthersWalk
    <3>3. ~Waiting(FreshRun)
      BY DEF FreshRun, NoRun, Waiting
    <3> QED
      BY <2>1, <3>2, <3>3, OneLeftToWalkers DEF Dispatch
  <2>2. ASSUME NEW r \in Runs, LeaseLapses(r) PROVE \A s \in Runs : LeftToWalkers(s)
    <3> DEFINE e == [runs[r] EXCEPT !.lapsed = TRUE]
               w == runs[r].owner
    <3>1. /\ runs' = [runs EXCEPT ![r] = e] /\ w \in Workers
          /\ used.lapses \in Nat /\ ~Walks(w, r)
      BY <2>2 DEF LeaseLapses, TypeOK, RunDocs, Walks, Drives
    <3>2. e.status = runs[r].status /\ e.es = runs[r].es
      BY DEF TypeOK, RunDocs
    <3> HIDE DEF e
    <3>3. CASE Unclaimable(runs[r])
      BY <3>1, <3>2, <3>3, OneLeftToWalkers DEF Unclaimable, Waiting
    <3>4. CASE ~Unclaimable(runs[r])
      <4>1. \A x \in Workers : ~Walks(x, r)
        BY <3>1, <3>4 DEF WalkInvariant, WalkHolds
      <4>2. Unwalked(r)
        BY <1>1, <4>1, OthersWalk
      <4>3. ~Waiting(e)
        BY <3>2, <3>4 DEF WalkInvariant, Waiting
      <4> QED
        BY <3>1, <4>2, <4>3, OneLeftToWalkers
    <3> QED
      BY <3>3, <3>4
  <2>3. ASSUME NEW r \in Runs, OrphanSweep(r) PROVE \A s \in Runs : LeftToWalkers(s)
    BY <1>a, <2>3, OneLeftToWalkers DEF OrphanSweep, Waiting
  <2>4. ASSUME NEW w \in Workers, HeartbeatExtends(w) PROVE \A s \in Runs : LeftToWalkers(s)
    BY <2>4 DEF HeartbeatExtends, ExtendLease, TypeOK, RunDocs, WorkerStates, LeftToWalkers, Waiting
  <2>5. CASE BootSweep
    <3>1. \A r \in Runs : runs'[r] = runs[r] \/ runs'[r] = Abandoned(runs[r])
      BY <2>5 DEF BootSweep
    <3> QED
      BY <1>a, <3>1 DEF LeftToWalkers, Waiting
  <2> QED
    BY <2>1, <2>2, <2>3, <2>4, <2>5
<1> QED
  BY <1>1, <1>2, OthersWalk, StillWalksAlone

\* A decision that is recorded finds its gate waiting, so nobody at the nodes.
LEMMA RequestWalk ==
    ASSUME TypeOK, WalkInvariant, ReapReqs = {}, FirstDecision, NEW q \in Requests, RequestStep(q)
    PROVE  WalkInvariant'
<1> DEFINE r == request[q].run
<1>1. worker' = worker
  BY DEF RequestStep, CancelWrite, CancelRead, ApprovalRead, ApprovalApply, ApprovalOrphans, ReadRun
<1>2. request[q].doc \in RunDocs /\ r \in Runs /\ request[q].decision \in Decisions
  BY DEF TypeOK, RequestStates
<1>3. \A s \in Runs : LeftToWalkers(s)
  <2>1. CASE CancelWrite(q)
    <3> DEFINE e == [request[q].doc EXCEPT !.status = "cancelled", !.gate = 0,
                        !.es = NoState, !.owner = NoWorker, !.lapsed = FALSE]
    <3>1. runs' = [runs EXCEPT ![r] = e]
      BY <2>1 DEF CancelWrite
    <3>2. e.status = "cancelled" /\ e.es = NoState
      BY <1>2 DEF RunDocs
    <3> HIDE DEF e
    <3> QED
      BY <1>2, <3>1, <3>2, OneLeftToWalkers DEF Unclaimable, Terminal, Waiting
  <2>2. CASE ApprovalOrphans(q)
    <3> DEFINE e == [request[q].doc EXCEPT !.status = "error", !.gate = 0]
    <3>1. runs' = [runs EXCEPT ![r] = e] /\ ~HasPending(request[q].doc)
      BY <2>2 DEF ApprovalOrphans
    <3>2. e.status = "error" /\ e.es = request[q].doc.es
      BY <1>2 DEF RunDocs
    <3> HIDE DEF e
    <3> QED
      BY <1>2, <3>1, <3>2, OneLeftToWalkers DEF Unclaimable, Terminal, Waiting, HasPending
  <2>3. CASE ApprovalApply(q) /\ q \in ApprovalReqs
    <3>1. CASE HasPending(runs[r])
      <4> DEFINE e == ApplyDecision(runs[r], request[q].decision)
      <4>1. runs' = [runs EXCEPT ![r] = e]
        BY <2>3, <3>1 DEF ApprovalApply
      <4>2. Waiting(runs[r])
        <5>1. request[q].pc = "read" /\ request'[q].pc = "answered" /\ HasPending(request[q].doc)
          BY <2>3 DEF ApprovalApply, Answers, TypeOK, RequestStates
        <5> QED
          BY <2>3, <3>1, <5>1 DEF FirstDecision
      <4>3. Unwalked(r)
        BY <1>1, <1>2, <4>2, OthersWalk DEF WalkInvariant, WalkHolds
      <4>4. ~Waiting(e)
        <5>1. runs[r] \in RunDocs /\ runs[r].es \in ExecutionStates
          BY <1>2, <3>1 DEF TypeOK, HasPending, RunDocs
        <5>2. e.es.pending = request[q].decision
          BY <5>1 DEF ApplyDecision, RunDocs, ExecutionStates
        <5> QED
          BY <1>2, <5>2 DEF Waiting, Decisions
      <4> HIDE DEF e
      <4> QED
        BY <1>2, <4>1, <4>3, <4>4, OneLeftToWalkers
    <3>2. CASE ~HasPending(runs[r])
      BY <2>3, <3>2 DEF ApprovalApply, LeftToWalkers
    <3> QED
      BY <3>1, <3>2
  <2>4. CASE \E s \in Runs : CancelRead(q, s) \/ \E d \in Decisions : ApprovalRead(q, s, d)
    BY <2>4 DEF CancelRead, ApprovalRead, ReadRun, LeftToWalkers
  <2> QED
    BY <2>1, <2>2, <2>3, <2>4 DEF RequestStep
<1> QED
  BY <1>1, <1>3, OthersWalk, StillWalksAlone

LEMMA StepWalksAlone ==
    ASSUME MaxLapses = 0, ReapReqs = {}, TypeOK, WalkInvariant, [Next]_vars, [FirstDecision]_vars
    PROVE  WalkInvariant'
<1>1. CASE UNCHANGED vars
  BY <1>1, OthersWalk, StillWalksAlone DEF vars, LeftToWalkers
<1>2. ASSUME NEW w \in Workers, Crash(w)
      PROVE  WalkInvariant'
  BY <1>2, IdleWalks, StillWalksAlone DEF Crash, LeftToWalkers
<1> QED
  BY <1>1, <1>2, ClaimWalk, WorkerWalk, SurroundingsWalk, RequestWalk DEF Next, Heartbeat

(***************************************************************************)
(* Without a lapse under a live worker and without the reaper, a run is    *)
(* handed from worker to worker across its gates, its crashes and its      *)
(* failed calls, and no two workers are ever at its nodes, as long as no   *)
(* gate is decided twice.                                                  *)
(***************************************************************************)
THEOREM WalkIsExclusive ==
    ASSUME MaxLapses = 0, ReapReqs = {}
    PROVE  Spec /\ [][FirstDecision]_vars => []WalkExcludes
<1>1. Init => WalkInvariant
  BY DEF Init, IdleWorker, NoRun, WalkInvariant, WalkExcludes, WalkHolds, Walks, Waiting, CopyDecided
<1>2. TypeOK /\ WalkInvariant /\ [Next]_vars /\ [FirstDecision]_vars => WalkInvariant'
  BY StepWalksAlone
<1>3. WalkInvariant => WalkExcludes
  BY DEF WalkInvariant
<1> QED
  BY <1>1, <1>2, <1>3, TypeCorrect, PTL DEF Spec

-----------------------------------------------------------------------------
(***************************************************************************)
(* Workflows without gated nodes, whatever is requested, lapses, crashes   *)
(* or fails: their checkpoint is never taken back (CommittedProgressKept), *)
(* and if no node fails, a success executed every node                     *)
(* (SuccessExecutedAll).                                                   *)
(*                                                                         *)
(* The argument: without gates no copy of a run holds a pending decision,  *)
(* so every whole-document write ends the run, and what is left to write   *)
(* the checkpoint of a run that goes on is the worker that owns it; its    *)
(* memory starts at that checkpoint and only moves forward.  A pass leaves *)
(* its loop when the queue is empty, which, when nothing fails, is at the  *)
(* last node.                                                              *)
(***************************************************************************)
CopyOK(d) == d.es # NoState =>
    /\ d.es.pending = "none"
    /\ FailNodes = {} /\ d.es.done < N => d.es.open

PassOK(v) == v.pc # "idle" =>
    /\ v.pc \notin {"mirror", "yield", "yrelease"}
    /\ FailNodes = {} /\ v.done < N => v.open
    /\ v.pc \in {"reread", "final", "put"} => ~v.open

\* The owner of a run that goes on is not behind its checkpoint.
Ahead(w, r) ==
    /\ Drives(w, r) /\ runs[r].owner = w
    /\ runs[r].status \in NonTerminal /\ runs[r].es # NoState
    => runs[r].es.done <= worker[w].done

UngatedInvariant ==
    /\ \A r \in Runs : CopyOK(runs[r])
    /\ \A r \in Runs : runs[r].status = "absent" => runs[r].es = NoState
    /\ \A w \in Workers : PassOK(worker[w]) /\ CopyOK(worker[w].doc)
    /\ \A q \in Requests : CopyOK(request[q].doc)
    /\ \A w \in Workers, r \in Runs : Ahead(w, r)
    /\ \A w \in Workers, r \in Runs : Drives(w, r) => runs[r].status # "absent"
    /\ \A r \in Runs : refused[r] = {}
    /\ FailNodes = {} => SuccessExecutedAll

-----------------------------------------------------------------------------
(***************************************************************************)
(* What a step may do to a run, to a worker and to the history.            *)
(***************************************************************************)
KeepsOn(r) ==
    /\ runs'[r].es = runs[r].es /\ runs'[r].status = runs[r].status
    /\ runs'[r].owner \in {runs[r].owner, NoWorker}

Starts(r) ==
    runs[r].es = NoState /\ runs'[r].es = NoState /\ runs'[r].status = "queued"

Ends(r) ==
    /\ runs'[r].status \in Terminal /\ CopyOK(runs'[r])
    /\ FailNodes = {} /\ runs'[r].status = "success" =>
         \A n \in Nodes : effects[r][n] > 0

GoesOn(w) ==
    /\ PassOK(worker'[w]) /\ CopyOK(worker'[w].doc)
    /\ worker'[w].pc # "idle" =>
         /\ worker[w].pc # "idle" /\ worker'[w].run = worker[w].run
         /\ worker'[w].done \in Nat /\ worker[w].done <= worker'[w].done

HistoryKept ==
    /\ refused' = refused
    /\ \A r \in Runs, n \in Nodes : effects[r][n] > 0 => effects'[r][n] > 0

ProgressKept(r) ==
    runs[r].es # NoState /\ runs'[r].status \in NonTerminal =>
        runs'[r].es # NoState /\ runs[r].es.done <= runs'[r].es.done

LEMMA StillUngated ==
    ASSUME TypeOK, UngatedInvariant, HistoryKept,
           \A r \in Runs : KeepsOn(r) \/ Starts(r) \/ Ends(r),
           \A w \in Workers : GoesOn(w),
           \A q \in Requests : CopyOK(request'[q].doc)
    PROVE  UngatedInvariant' /\ \A r \in Runs : ProgressKept(r)
<1>1. ASSUME NEW r \in Runs
      PROVE  /\ CopyOK(runs'[r])
             /\ runs'[r].status = "absent" => runs'[r].es = NoState
             /\ runs[r].status # "absent" => runs'[r].status # "absent"
             /\ ProgressKept(r)
  <2>1. CASE KeepsOn(r)
    <3>1. runs[r].es # NoState => runs[r].es.done \in Nat
      BY DEF TypeOK, RunDocs, ExecutionStates
    <3> QED
      BY <2>1, <3>1 DEF KeepsOn, CopyOK, UngatedInvariant, ProgressKept
  <2>2. CASE Starts(r)
    BY <2>2 DEF Starts, CopyOK, ProgressKept
  <2>3. CASE Ends(r)
    BY <2>3 DEF Ends, ProgressKept, Terminal, NonTerminal
  <2> QED
    BY <2>1, <2>2, <2>3
<1>2. ASSUME NEW w \in Workers, NEW r \in Runs
      PROVE  Ahead(w, r)' /\ (Drives(w, r)' => Drives(w, r))
  <2>1. Drives(w, r)' =>
            Drives(w, r) /\ worker'[w].done \in Nat /\ worker[w].done <= worker'[w].done
    BY DEF GoesOn, Drives
  <2>2. SUFFICES ASSUME Drives(w, r)', runs'[r].owner = w, runs'[r].status \in NonTerminal,
                        runs'[r].es # NoState
                 PROVE  runs'[r].es.done <= worker'[w].done
    BY <2>1 DEF Ahead
  <2>3. KeepsOn(r)
    BY <2>2 DEF Starts, Ends, Terminal, NonTerminal
  <2>4. runs[r].owner = w
    BY <2>2, <2>3, NoWorkerAssumption DEF KeepsOn
  <2>5. /\ runs[r].es.done \in Nat /\ worker[w].done \in Nat
    BY <2>2, <2>3 DEF TypeOK, RunDocs, ExecutionStates, WorkerStates, KeepsOn
  <2>6. runs[r].es.done <= worker[w].done
    BY <2>1, <2>2, <2>3, <2>4 DEF KeepsOn, UngatedInvariant, Ahead
  <2> QED
    BY <2>1, <2>2, <2>3, <2>5, <2>6 DEF KeepsOn
<1>3. ASSUME FailNodes = {} PROVE SuccessExecutedAll'
  <2> SUFFICES ASSUME NEW r \in Runs, runs'[r].status = "success", NEW n \in Nodes
               PROVE  effects'[r][n] > 0
    BY DEF SuccessExecutedAll
  <2>1. effects[r][n] > 0
    BY <1>3 DEF KeepsOn, Starts, Ends, UngatedInvariant, SuccessExecutedAll
  <2> QED
    BY <2>1 DEF HistoryKept
<1>4. \A r \in Runs : refused'[r] = {}
  BY DEF HistoryKept, UngatedInvariant
<1>5. \A w \in Workers : PassOK(worker[w])' /\ CopyOK(worker[w].doc)'
  BY DEF GoesOn, PassOK, CopyOK
<1>6. \A r \in Runs : CopyOK(runs[r])'
  BY <1>1 DEF CopyOK
<1>7. \A q \in Requests : CopyOK(request[q].doc)'
  BY DEF CopyOK
<1>8. \A w \in Workers, r \in Runs : Drives(w, r)' => runs'[r].status # "absent"
  BY <1>1, <1>2 DEF UngatedInvariant
<1> QED
  BY <1>1, <1>2, <1>3, <1>4, <1>5, <1>6, <1>7, <1>8 DEF UngatedInvariant

-----------------------------------------------------------------------------
(***************************************************************************)
(* The steps, without gates.                                               *)
(***************************************************************************)
\* The trigger, the clock, the heartbeat and the sweeps.
LEMMA SurroundingsUngated ==
    ASSUME TypeOK, UngatedInvariant,
           \/ \E r \in Runs : Dispatch(r) \/ LeaseLapses(r) \/ OrphanSweep(r)
           \/ \E w \in Workers : HeartbeatExtends(w)
           \/ BootSweep
    PROVE  UngatedInvariant' /\ \A r \in Runs : ProgressKept(r)
<1>1. UNCHANGED <<worker, request, ghosts>>
  BY DEF Dispatch, LeaseLapses, OrphanSweep, HeartbeatExtends, BootSweep
<1>2. HistoryKept
  BY <1>1 DEF HistoryKept, ghosts
<1>3. \A w \in Workers : GoesOn(w)
  BY <1>1 DEF UngatedInvariant, GoesOn, TypeOK, WorkerStates
<1>4. \A q \in Requests : CopyOK(request'[q].doc)
  BY <1>1 DEF UngatedInvariant
<1>5. ASSUME NEW r \in Runs
      PROVE  /\ Abandoned(runs[r]).status = "error"
             /\ Abandoned(runs[r]).es = runs[r].es
  BY DEF Abandoned, TypeOK, RunDocs
<1>6. ASSUME NEW r \in Runs, runs'[r] = Abandoned(runs[r]) PROVE Ends(r)
  BY <1>5, <1>6 DEF Ends, Terminal, CopyOK, UngatedInvariant
<1>7. ASSUME NEW r \in Runs, runs'[r] = runs[r] PROVE KeepsOn(r)
  BY <1>7 DEF KeepsOn
<1>8. ASSUME NEW r \in Runs PROVE KeepsOn(r) \/ Starts(r) \/ Ends(r)
  <2>1. ASSUME NEW s \in Runs, Dispatch(s) PROVE KeepsOn(r) \/ Starts(r)
    <3>1. FreshRun.es = NoState /\ FreshRun.status = "queued"
      BY DEF FreshRun, NoRun
    <3>2. runs[s].es = NoState
      BY <2>1 DEF Dispatch, UngatedInvariant
    <3> QED
      BY <1>7, <2>1, <3>1, <3>2 DEF Dispatch, TypeOK, Starts
  <2>2. ASSUME NEW s \in Runs, LeaseLapses(s) PROVE KeepsOn(r)
    BY <2>2 DEF LeaseLapses, TypeOK, RunDocs, KeepsOn
  <2>3. ASSUME NEW s \in Runs, OrphanSweep(s) PROVE KeepsOn(r) \/ Ends(r)
    BY <1>6, <1>7, <2>3 DEF OrphanSweep, TypeOK
  <2>4. ASSUME NEW w \in Workers, HeartbeatExtends(w) PROVE KeepsOn(r)
    BY <2>4 DEF HeartbeatExtends, ExtendLease, TypeOK, RunDocs, WorkerStates, KeepsOn
  <2>5. CASE BootSweep
    BY <1>6, <1>7, <2>5 DEF BootSweep
  <2> QED
    BY <2>1, <2>2, <2>3, <2>4, <2>5
<1> QED
  BY <1>2, <1>3, <1>4, <1>8, StillUngated

\* A claim hydrates the worker from the checkpoint it claims.
LEMMA ClaimUngated ==
    ASSUME TypeOK, UngatedInvariant, NEW w \in Workers, NEW r \in Runs, Claim(w, r)
    PROVE  UngatedInvariant' /\ \A s \in Runs : ProgressKept(s)
<1> DEFINE d == ClaimLease(runs[r], w)
           v == worker'[w]
<1>1. /\ d.es = runs[r].es /\ d.status = "running" /\ d.owner = w
      /\ runs[r].status \in {"queued", "running"} /\ worker[w].pc = "idle"
      /\ runs[r].es # NoState => runs[r].es \in ExecutionStates
  BY DEF Claim, Claimable, ClaimLease, TypeOK, RunDocs
<1>2. /\ runs'[r] = d /\ \A s \in Runs : s # r => runs'[s] = runs[s]
      /\ UNCHANGED <<request, ghosts>>
      /\ \A x \in Workers : x # w => worker'[x] = worker[x]
  BY DEF Claim, TypeOK
<1>3. /\ v.pc = "load" /\ v.run = r /\ v.doc = d
      /\ v.done = IF d.es # NoState THEN d.es.done ELSE 0
      /\ v.open = IF d.es # NoState THEN d.es.open ELSE TRUE
  BY DEF Claim, TypeOK, IdleWorker
<1> HIDE DEF d, v
<1>4. CopyOK(d) /\ CopyOK(v.doc)
  BY <1>1, <1>3 DEF CopyOK, UngatedInvariant
<1>5. PassOK(v)
  BY <1>3, <1>4 DEF PassOK, CopyOK
<1>6. \A x \in Workers : PassOK(worker[x])' /\ CopyOK(worker[x].doc)'
  BY <1>2, <1>4, <1>5 DEF v, UngatedInvariant, PassOK, CopyOK
<1>7. \A s \in Runs : /\ CopyOK(runs[s])'
                      /\ runs'[s].status = "absent" => runs'[s].es = NoState
  BY <1>1, <1>2, <1>4 DEF UngatedInvariant, CopyOK
<1>8. ASSUME NEW x \in Workers, NEW s \in Runs
      PROVE  Ahead(x, s)' /\ (Drives(x, s)' => runs'[s].status # "absent")
  <2>1. CASE x = w /\ s = r
    <3>1. d.es # NoState => d.es.done <= v.done
      BY <1>1, <1>3 DEF ExecutionStates
    <3> QED
      BY <1>1, <1>2, <2>1, <3>1 DEF Ahead, v
  <2>2. CASE x = w /\ s # r
    BY <1>3, <2>2 DEF Ahead, Drives, v
  <2>3. CASE x # w /\ s = r
    BY <1>1, <1>2, <2>3 DEF Ahead
  <2>4. CASE x # w /\ s # r
    BY <1>2, <2>4 DEF Ahead, Drives, UngatedInvariant
  <2> QED
    BY <2>1, <2>2, <2>3, <2>4
<1>9. (\A s \in Runs : refused'[s] = {}) /\ (FailNodes = {} => SuccessExecutedAll')
  BY <1>1, <1>2 DEF ghosts, UngatedInvariant, SuccessExecutedAll
<1>10. \A q \in Requests : CopyOK(request[q].doc)'
  BY <1>2 DEF UngatedInvariant, CopyOK
<1>11. ASSUME NEW s \in Runs PROVE ProgressKept(s)
  <2>1. runs'[s].es = runs[s].es
    BY <1>1, <1>2
  <2>2. runs[s].es # NoState => runs[s].es.done \in Nat
    BY DEF TypeOK, RunDocs, ExecutionStates
  <2> QED
    BY <2>1, <2>2 DEF ProgressKept
<1> QED
  BY <1>6, <1>7, <1>8, <1>9, <1>10, <1>11 DEF UngatedInvariant

\* The steps of a worker that write nothing to the store.
LEMMA QuietUngated ==
    ASSUME TypeOK, UngatedInvariant, Gates = {}, NEW w \in Workers,
           \/ LoadWorkflow(w) \/ LeaveLoop(w) \/ RunNode(w) \/ RefuseNode(w) \/ ReadAtGate(w)
           \/ Reread(w) \/ ReadFinal(w) \/ GiveUp(w)
           \/ CheckpointFails(w) \/ RereadFails(w) \/ FinalFails(w)
           \/ HeartbeatCancels(w) \/ Crash(w)
    PROVE  UngatedInvariant' /\ \A r \in Runs : ProgressKept(r)
<1>1. /\ worker[w] \in WorkerStates /\ worker[w].pc # "idle"
      /\ worker[w].run \in Runs /\ worker[w].done \in 0 .. N
  BY DEF TypeOK, WorkerStates, LoadWorkflow, LeaveLoop, RunNode, RefuseNode, ReadAtGate, AtNode, Reread,
     ReadFinal, GiveUp, CheckpointFails, RereadFails, FinalFails, HeartbeatCancels, Executing, Crash
<1>2. CopyOK(NoRun) /\ CopyOK(Doc(w)) /\ CopyOK(worker[w].doc) /\ PassOK(worker[w])
  BY <1>1 DEF CopyOK, NoRun, Doc, UngatedInvariant
<1>3. UNCHANGED <<runs, request>> /\ \A x \in Workers : x # w => worker'[x] = worker[x]
  BY DEF TypeOK, LoadWorkflow, LeaveLoop, RunNode, RefuseNode, ReadAtGate, Reread, ReadFinal, GiveUp,
     CheckpointFails, RereadFails, FinalFails, HeartbeatCancels, Crash, Goto
<1>4. ~RefuseNode(w) /\ ~ReadAtGate(w)
  BY DEF RefuseNode, ReadAtGate
<1>5. HistoryKept
  <2>1. CASE RunNode(w)
    <3>1. /\ refused' = refused
          /\ effects' = [effects EXCEPT ![worker[w].run][Head(w)] = @ + 1]
      BY <2>1 DEF RunNode
    <3>2. \A r \in Runs, n \in Nodes :
            effects[r][n] \in Nat /\ effects'[r][n] \in {effects[r][n], effects[r][n] + 1}
      BY <3>1 DEF TypeOK
    <3> QED
      BY <3>1, <3>2 DEF HistoryKept
  <2>2. CASE ~RunNode(w)
    BY <1>4, <2>2 DEF HistoryKept, ghosts, LoadWorkflow, LeaveLoop, Reread, ReadFinal, GiveUp,
       CheckpointFails, RereadFails, FinalFails, HeartbeatCancels, Crash
  <2> QED
    BY <2>1, <2>2
<1>6. GoesOn(w)
  <2>1. CASE LoadWorkflow(w)
    BY <1>1, <1>2, <2>1 DEF LoadWorkflow, TypeOK, WorkerStates, GoesOn, PassOK
  <2>2. CASE LeaveLoop(w)
    BY <1>1, <1>2, <2>2 DEF LeaveLoop, Goto, TypeOK, WorkerStates, GoesOn, PassOK
  <2>3. CASE RunNode(w)
    <3>1. /\ worker'[w].pc = "ran" /\ worker'[w].run = worker[w].run
          /\ worker'[w].done = worker[w].done + 1 /\ worker'[w].doc = worker[w].doc
          /\ FailNodes = {} /\ worker[w].done + 1 < N => worker'[w].open
      BY <1>1, <2>3 DEF RunNode, Head, TypeOK, WorkerStates
    <3>2. PassOK(worker'[w]) /\ CopyOK(worker'[w].doc)
      BY <1>2, <3>1 DEF PassOK
    <3> QED
      BY <1>1, <3>1, <3>2, NAssumption DEF GoesOn
  <2>4. CASE Reread(w) \/ RereadFails(w)
    <3>1. /\ worker[w].pc = "reread" /\ worker'[w].pc \in {"release", "final"}
          /\ worker'[w].run = worker[w].run /\ worker'[w].done = worker[w].done
          /\ worker'[w].doc = worker[w].doc /\ worker'[w].open = worker[w].open
      BY <1>1, <2>4 DEF Reread, RereadFails, Goto, TypeOK, WorkerStates
    <3> QED
      BY <1>1, <1>2, <3>1 DEF GoesOn, PassOK
  <2>5. CASE ReadFinal(w)
    BY <1>1, <1>2, <2>5 DEF ReadFinal, TypeOK, WorkerStates, GoesOn, PassOK
  <2>6. CASE GiveUp(w) \/ FinalFails(w)
    BY <1>1, <1>2, <2>6 DEF GiveUp, FinalFails, TypeOK, WorkerStates, GoesOn, PassOK
  <2>7. CASE CheckpointFails(w)
    BY <1>1, <1>2, <2>7 DEF CheckpointFails, Goto, TypeOK, WorkerStates, GoesOn, PassOK
  <2>8. CASE HeartbeatCancels(w)
    BY <1>1, <1>2, <2>8 DEF HeartbeatCancels, TypeOK, WorkerStates, GoesOn, PassOK
  <2>9. CASE Crash(w)
    BY <1>2, <2>9 DEF Crash, IdleWorker, TypeOK, GoesOn, PassOK
  <2> QED
    BY <1>4, <2>1, <2>2, <2>3, <2>4, <2>5, <2>6, <2>7, <2>8, <2>9
<1>7. ASSUME NEW x \in Workers, x # w PROVE GoesOn(x)
  <2>1. worker'[x] = worker[x] /\ worker[x].done \in Nat
    BY <1>3, <1>7 DEF TypeOK, WorkerStates
  <2> QED
    BY <2>1 DEF GoesOn, UngatedInvariant
<1> QED
  BY <1>3, <1>5, <1>6, <1>7, StillUngated DEF KeepsOn, UngatedInvariant

\* A checkpoint is written by the owner, who is not behind the one it replaces.
LEMMA CheckpointUngated ==
    ASSUME TypeOK, UngatedInvariant, NEW w \in Workers, Checkpoint(w)
    PROVE  UngatedInvariant' /\ \A r \in Runs : ProgressKept(r)
<1> DEFINE r == worker[w].run
           es == Snapshot(w, "none")
           e == CheckpointStep(runs[r], es)
<1>1. /\ worker[w] \in WorkerStates /\ r \in Runs /\ worker[w].pc = "ran"
      /\ runs[r] \in RunDocs /\ PassOK(worker[w])
  BY DEF TypeOK, WorkerStates, Checkpoint, UngatedInvariant
<1>2. /\ es.done = worker[w].done /\ es.pending = "none" /\ es.open = worker[w].open
      /\ es # NoState /\ worker[w].done \in Nat
  BY <1>1, NoStateAssumption DEF Snapshot, WorkerStates, ExecutionStates
<1>3. CASE LeaseHeld(Doc(w), w)
  <2>1. /\ runs'[r] = e /\ \A s \in Runs : s # r => runs'[s] = runs[s]
        /\ e.es = es /\ e.status = runs[r].status /\ e.owner = w /\ runs[r].owner = w
        /\ UNCHANGED <<request, ghosts>>
    BY <1>1, <1>3 DEF Checkpoint, CheckpointStep, TypeOK, RunDocs, LeaseHeld, Doc
  <2>2. /\ worker'[w].pc = "bfs" /\ worker'[w].run = r /\ worker'[w].done = worker[w].done
        /\ worker'[w].open = worker[w].open /\ worker'[w].doc = worker[w].doc
        /\ \A x \in Workers : x # w => worker'[x] = worker[x]
    BY <1>1, <1>3 DEF Checkpoint, Goto, TypeOK, WorkerStates
  <2> HIDE DEF e, es
  <2>3. CopyOK(e)
    BY <1>1, <1>2, <2>1 DEF CopyOK, PassOK
  <2>4. runs[r].status # "absent"
    BY <1>1 DEF UngatedInvariant, Drives
  <2>5. \A x \in Workers : PassOK(worker[x])' /\ CopyOK(worker[x].doc)'
    <3>1. PassOK(worker'[w]) /\ CopyOK(worker'[w].doc)
      BY <1>1, <2>2 DEF PassOK, UngatedInvariant
    <3> QED
      BY <2>2, <3>1 DEF UngatedInvariant, PassOK, CopyOK
  <2>6. \A s \in Runs : /\ CopyOK(runs[s])'
                        /\ runs'[s].status = "absent" => runs'[s].es = NoState
    BY <2>1, <2>3, <2>4 DEF UngatedInvariant, CopyOK
  <2>7. ASSUME NEW x \in Workers, NEW s \in Runs
        PROVE  Ahead(x, s)' /\ (Drives(x, s)' => runs'[s].status # "absent")
    <3>1. Drives(x, s)' => Drives(x, s)
      BY <1>1, <2>2 DEF Drives
    <3>2. CASE s # r
      BY <2>1, <2>2, <3>1, <3>2 DEF Ahead, UngatedInvariant
    <3>3. CASE s = r /\ x = w
      BY <1>2, <2>1, <2>2, <2>4, <3>3 DEF Ahead
    <3>4. CASE s = r /\ x # w
      BY <2>1, <2>4, <3>4 DEF Ahead
    <3> QED
      BY <3>2, <3>3, <3>4
  <2>8. (\A s \in Runs : refused'[s] = {}) /\ (FailNodes = {} => SuccessExecutedAll')
    BY <2>1 DEF ghosts, UngatedInvariant, SuccessExecutedAll
  <2>9. \A q \in Requests : CopyOK(request[q].doc)'
    BY <2>1 DEF UngatedInvariant, CopyOK
  <2>10. ASSUME NEW s \in Runs PROVE ProgressKept(s)
    <3>1. CASE s = r
      BY <1>1, <1>2, <2>1, <3>1 DEF ProgressKept, UngatedInvariant, Ahead, Drives
    <3>2. CASE s # r
      <4>1. runs[s].es # NoState => runs[s].es.done \in Nat
        BY DEF TypeOK, RunDocs, ExecutionStates
      <4> QED
        BY <2>1, <3>2, <4>1 DEF ProgressKept
    <3> QED
      BY <3>1, <3>2
  <2> QED
    BY <2>5, <2>6, <2>7, <2>8, <2>9, <2>10 DEF UngatedInvariant
<1>4. CASE ~LeaseHeld(Doc(w), w)
  <2>1. /\ UNCHANGED <<runs, request, ghosts>> /\ worker'[w] = IdleWorker
        /\ \A x \in Workers : x # w => worker'[x] = worker[x]
    BY <1>4 DEF Checkpoint, TypeOK
  <2>2. GoesOn(w)
    BY <2>1 DEF GoesOn, IdleWorker, PassOK, CopyOK, NoRun
  <2>3. \A x \in Workers : GoesOn(x)
    BY <2>1, <2>2 DEF GoesOn, UngatedInvariant, TypeOK, WorkerStates
  <2> QED
    BY <2>1, <2>3, StillUngated DEF KeepsOn, HistoryKept, ghosts, UngatedInvariant
<1> QED
  BY <1>3, <1>4

\* A run that a worker finishes as a success was executed to its last node.
LEMMA FinishedIsExecuted ==
    ASSUME RunInvariant, UngatedInvariant, FailNodes = {}, NEW w \in Workers, worker[w].pc = "put",
           NEW n \in Nodes
    PROVE  effects[worker[w].run][n] > 0
<1>1. worker[w].run \in Runs /\ worker[w].done \in 0 .. N
  BY DEF RunInvariant, TypeOK, WorkerStates
<1>2. ~(worker[w].done < N)
  BY DEF UngatedInvariant, PassOK
<1>3. worker[w].done = N
  BY <1>1, <1>2, NAssumption
<1>4. Settled(worker[w].run, n)
  BY <1>1, <1>3 DEF RunInvariant, MemoryOK, Nodes
<1> QED
  BY <1>1, <1>4 DEF Settled, UngatedInvariant

\* The writes of a whole document by a worker, and its release.
LEMMA WritesUngated ==
    ASSUME RunInvariant, UngatedInvariant, NEW w \in Workers,
           WorkflowGone(w) \/ PutFinal(w) \/ Release(w)
    PROVE  UngatedInvariant' /\ \A r \in Runs : ProgressKept(r)
<1> DEFINE r == worker[w].run
<1>1. /\ TypeOK /\ worker[w] \in WorkerStates /\ worker[w].pc # "idle" /\ r \in Runs
      /\ worker[w].doc \in RunDocs /\ worker[w].done \in Nat
  BY DEF RunInvariant, TypeOK, WorkerStates, WorkflowGone, PutFinal, Release
<1>2. UNCHANGED <<request, ghosts>> /\ CopyOK(NoRun) /\ CopyOK(worker[w].doc)
  BY DEF WorkflowGone, PutFinal, Release, CopyOK, NoRun, UngatedInvariant
<1>3. /\ \A s \in Runs : s # r => runs'[s] = runs[s]
      /\ \A x \in Workers : x # w => worker'[x] = worker[x]
  BY <1>1 DEF TypeOK, WorkflowGone, PutFinal, Release
<1>4. GoesOn(w)
  <2>1. CASE WorkflowGone(w) \/ PutFinal(w)
    <3>1. /\ worker'[w].pc = "release" /\ worker'[w].run = r /\ worker'[w].doc = NoRun
          /\ worker'[w].done = worker[w].done /\ worker'[w].open = worker[w].open
      BY <1>1, <2>1 DEF TypeOK, WorkerStates, WorkflowGone, PutFinal
    <3> QED
      BY <1>1, <1>2, <3>1 DEF GoesOn, PassOK, UngatedInvariant
  <2>2. CASE Release(w)
    BY <1>1, <1>2, <2>2 DEF Release, IdleWorker, TypeOK, GoesOn, PassOK
  <2> QED
    BY <2>1, <2>2
<1>5. ASSUME NEW x \in Workers, x # w PROVE GoesOn(x)
  <2>1. worker'[x] = worker[x] /\ worker[x].done \in Nat
    BY <1>1, <1>3, <1>5 DEF TypeOK, WorkerStates
  <2> QED
    BY <2>1 DEF GoesOn, UngatedInvariant
<1>6. KeepsOn(r) \/ Ends(r)
  <2>1. CASE WorkflowGone(w)
    <3>1. runs'[r].status = "error" /\ runs'[r].es = worker[w].doc.es
      BY <1>1, <2>1 DEF WorkflowGone, TypeOK, RunDocs
    <3> QED
      BY <1>2, <3>1 DEF Ends, Terminal, CopyOK
  <2>2. CASE PutFinal(w)
    <3>1. runs'[r].status \in {"error", "success"} /\ runs'[r].es = NoState /\ worker[w].pc = "put"
      BY <1>1, <2>2 DEF PutFinal, TypeOK, RunDocs
    <3>2. FailNodes = {} => \A n \in Nodes : effects[r][n] > 0
      BY <3>1, FinishedIsExecuted
    <3> QED
      BY <3>1, <3>2 DEF Ends, Terminal, CopyOK
  <2>3. CASE Release(w)
    BY <1>1, <2>3 DEF Release, ReleaseLease, TypeOK, RunDocs, KeepsOn
  <2> QED
    BY <2>1, <2>2, <2>3
<1>7. \A s \in Runs : KeepsOn(s) \/ Ends(s)
  BY <1>3, <1>6 DEF KeepsOn
<1> QED
  BY <1>1, <1>2, <1>4, <1>5, <1>7, StillUngated DEF HistoryKept, ghosts, UngatedInvariant

\* Cancels and the reaper end a run; without a pending decision so does an
\* approval.
LEMMA RequestUngated ==
    ASSUME TypeOK, UngatedInvariant, NEW q \in Requests, RequestStep(q)
    PROVE  UngatedInvariant' /\ \A r \in Runs : ProgressKept(r)
<1> DEFINE s == request[q].run
           d == request[q].doc
<1>1. d \in RunDocs /\ s \in Runs /\ CopyOK(d) /\ ~HasPending(d)
  BY DEF TypeOK, RequestStates, UngatedInvariant, CopyOK, HasPending
<1>2. ~ApprovalApply(q)
  BY <1>1 DEF ApprovalApply
<1>3. UNCHANGED <<worker, ghosts>>
  BY <1>2 DEF RequestStep, CancelWrite, CancelRead, ReapWrite, ReapRead, ApprovalOrphans, ApprovalRead, ReadRun
<1>4. \A w \in Workers : GoesOn(w)
  BY <1>3 DEF UngatedInvariant, GoesOn, TypeOK, WorkerStates
<1>5. CASE \E r \in Runs, decision \in Decisions : ReadRun(q, r, decision)
  <2>1. PICK r \in Runs, decision \in Decisions : ReadRun(q, r, decision)
    BY <1>5
  <2>2. /\ runs' = runs /\ request'[q].doc = runs[r]
        /\ \A p \in Requests : p # q => request'[p] = request[p]
    BY <2>1 DEF ReadRun, TypeOK
  <2>3. \A p \in Requests : CopyOK(request'[p].doc)
    BY <2>2 DEF UngatedInvariant
  <2> QED
    BY <1>3, <1>4, <2>2, <2>3, StillUngated DEF KeepsOn, HistoryKept, ghosts
<1>6. CASE CancelWrite(q) \/ ReapWrite(q) \/ ApprovalOrphans(q)
  <2>1. /\ request'[q].doc.es = NoState
        /\ \A p \in Requests : p # q => request'[p] = request[p]
    BY <1>6 DEF CancelWrite, ReapWrite, ApprovalOrphans, Answers, NoRun, TypeOK, RequestStates
  <2>2. \A p \in Requests : CopyOK(request'[p].doc)
    BY <2>1 DEF UngatedInvariant, CopyOK
  <2>3. /\ runs'[s].status \in {"cancelled", "error"} /\ runs'[s].es \in {NoState, d.es}
        /\ \A r \in Runs : r # s => runs'[r] = runs[r]
    <3>1. CASE CancelWrite(q)
      BY <1>1, <3>1 DEF CancelWrite, TypeOK, RunDocs
    <3>2. CASE ReapWrite(q)
      BY <1>1, <3>2 DEF ReapWrite, TypeOK, RunDocs
    <3>3. CASE ApprovalOrphans(q)
      BY <1>1, <3>3 DEF ApprovalOrphans, TypeOK, RunDocs
    <3> QED
      BY <1>6, <3>1, <3>2, <3>3
  <2>4. Ends(s)
    BY <1>1, <2>3 DEF Ends, Terminal, CopyOK
  <2>5. \A r \in Runs : KeepsOn(r) \/ Ends(r)
    BY <2>3, <2>4 DEF KeepsOn
  <2> QED
    BY <1>3, <1>4, <2>2, <2>5, StillUngated DEF HistoryKept, ghosts
<1> QED
  BY <1>2, <1>5, <1>6 DEF RequestStep, CancelRead, ReapRead, ApprovalRead, Decisions

LEMMA StepUngated ==
    ASSUME Gates = {}, RunInvariant, UngatedInvariant, [Next]_vars
    PROVE  UngatedInvariant' /\ \A r \in Runs : ProgressKept(r)
<1>1. TypeOK
  BY DEF RunInvariant
<1>2. CASE UNCHANGED vars
  <2>1. \A w \in Workers : GoesOn(w)
    BY <1>1, <1>2 DEF vars, UngatedInvariant, GoesOn, TypeOK, WorkerStates
  <2> QED
    BY <1>1, <1>2, <2>1, StillUngated DEF vars, KeepsOn, HistoryKept, UngatedInvariant
<1>3. ASSUME NEW w \in Workers
      PROVE  /\ ~MirrorGate(w) /\ ~YieldCheckpoint(w) /\ ~YieldRelease(w)
             /\ ~MirrorGateFails(w) /\ ~YieldCheckpointFails(w)
  BY DEF MirrorGate, YieldCheckpoint, YieldRelease, MirrorGateFails, YieldCheckpointFails,
     UngatedInvariant, PassOK
<1>4. ASSUME NEW w \in Workers, WorkerStep(w) \/ WorkerFault(w) \/ HeartbeatCancels(w) \/ Crash(w)
      PROVE  UngatedInvariant' /\ \A r \in Runs : ProgressKept(r)
  BY <1>1, <1>3, <1>4, QuietUngated, CheckpointUngated, WritesUngated DEF WorkerStep, WorkerFault
<1> QED
  BY <1>1, <1>2, <1>4, ClaimUngated, SurroundingsUngated, RequestUngated DEF Next, Heartbeat

LEMMA InitiallyUngated == Init => UngatedInvariant
BY DEF Init, UngatedInvariant, CopyOK, PassOK, Ahead, Drives, IdleWorker, NewRequest, NoRun, SuccessExecutedAll

-----------------------------------------------------------------------------
(***************************************************************************)
(* The theorems.                                                           *)
(***************************************************************************)
\* Without gates no write takes the checkpoint of a run that goes on back to
\* an earlier one (CheckpointExecutionState, Update), though any number of
\* workers that lost the lease, of cancels and of reaper visits write late.
THEOREM ProgressIsKept ==
    ASSUME Gates = {}
    PROVE  Spec => CommittedProgressKept
<1>1. RunInvariant /\ UngatedInvariant /\ [Next]_vars =>
        UngatedInvariant' /\ \A r \in Runs : ProgressKept(r)
  BY StepUngated
<1>2. (\A r \in Runs : ProgressKept(r)) =>
        \A r \in Runs : runs[r].es # NoState /\ runs'[r].status \in NonTerminal =>
            /\ runs'[r].es # NoState
            /\ runs[r].es.done <= runs'[r].es.done
  BY DEF ProgressKept
<1> QED
  BY <1>1, <1>2, InitiallyUngated, RunInvariantHolds, PTL DEF Spec, CommittedProgressKept

\* Without gates and failing nodes a run that shows success executed every
\* node (RunFromCheckpoint's terminal write), whoever wrote it.
THEOREM SuccessIsExecuted ==
    ASSUME Gates = {}, FailNodes = {}
    PROVE  Spec => []SuccessExecutedAll
<1>1. RunInvariant /\ UngatedInvariant /\ [Next]_vars => UngatedInvariant'
  BY StepUngated
<1>2. UngatedInvariant => SuccessExecutedAll
  BY DEF UngatedInvariant
<1> QED
  BY <1>1, <1>2, InitiallyUngated, RunInvariantHolds, PTL DEF Spec

\* With gates or without, a cancelled run (CancelRun, reap) that no worker is on
\* and no unanswered request has read stays cancelled: no claim, no sweep and
\* no late heartbeat brings it back.
THEOREM CancelIsFinal == Spec => CancelSticks
<1> DEFINE Quiet(r) == /\ runs[r].status = "cancelled"
                       /\ \A w \in Workers : ~Drives(w, r)
                       /\ \A q \in Requests : request[q].pc = "read" => request[q].run # r
<1>1. ASSUME TypeOK, [Next]_vars, NEW r \in Runs, Quiet(r)
      PROVE  runs'[r].status = "cancelled"
  <2>1. ASSUME NEW s \in Runs, Dispatch(s) \/ LeaseLapses(s) \/ OrphanSweep(s)
        PROVE  runs'[r].status = "cancelled"
    BY <1>1, <2>1 DEF Dispatch, LeaseLapses, OrphanSweep, WorkerOrphan, NonTerminal, TypeOK, RunDocs
  <2>2. ASSUME NEW w \in Workers, NEW s \in Runs, Claim(w, s) PROVE runs'[r] = runs[r]
    BY <1>1, <2>2 DEF Claim, Claimable, TypeOK
  <2>3. ASSUME NEW w \in Workers, WorkerStep(w) \/ WorkerFault(w) \/ HeartbeatCancels(w) \/ Crash(w)
        PROVE  runs'[r] = runs[r]
    <3>1. CASE worker[w].pc = "idle"
      BY <2>3, <3>1 DEF WorkerStep, WorkerFault, HeartbeatCancels, Crash, Executing, AtNode, LoadWorkflow,
         LeaveLoop, RunNode, RefuseNode, ReadAtGate, MirrorGate, Checkpoint, YieldCheckpoint, YieldRelease,
         Reread, ReadFinal, PutFinal, GiveUp, Release, WorkflowGone, MirrorGateFails, CheckpointFails,
         YieldCheckpointFails, RereadFails, FinalFails
    <3>2. CASE worker[w].run # r
      <4>1. CASE WorkerStep(w)
        BY <1>1, <3>2, <4>1 DEF WorkerStep, TypeOK, LoadWorkflow, LeaveLoop, RunNode, RefuseNode, ReadAtGate,
           MirrorGate, Checkpoint, YieldCheckpoint, YieldRelease, Reread, ReadFinal, PutFinal, GiveUp, Release
      <4>2. CASE WorkerFault(w)
        BY <1>1, <3>2, <4>2 DEF WorkerFault, TypeOK, WorkflowGone, MirrorGateFails, CheckpointFails,
           YieldCheckpointFails, RereadFails, FinalFails
      <4> QED
        BY <2>3, <4>1, <4>2 DEF HeartbeatCancels, Crash
    <3> QED
      BY <1>1, <3>1, <3>2 DEF Drives
  <2>4. ASSUME NEW w \in Workers, HeartbeatExtends(w) PROVE runs'[r].status = "cancelled"
    BY <1>1, <2>4 DEF HeartbeatExtends, ExtendLease, TypeOK, RunDocs, WorkerStates
  <2>5. ASSUME NEW q \in Requests, RequestStep(q) PROVE runs'[r] = runs[r]
    <3>1. CASE Answers(q)
      BY <1>1, <2>5, <3>1 DEF Answers, RequestStep, CancelWrite, ReapWrite, ApprovalApply, ApprovalOrphans,
         CancelRead, ReapRead, ApprovalRead, ReadRun, TypeOK
    <3>2. CASE ~Answers(q)
      BY <2>5, <3>2 DEF RequestStep, CancelWrite, ReapWrite, ApprovalApply, ApprovalOrphans,
         CancelRead, ReapRead, ApprovalRead, ReadRun
    <3> QED
      BY <3>1, <3>2
  <2>6. CASE BootSweep
    BY <1>1, <2>6 DEF BootSweep, BootOrphan, NonTerminal
  <2> QED
    BY <1>1, <2>1, <2>2, <2>3, <2>4, <2>5, <2>6 DEF Next, Heartbeat, vars
<1>2. TypeOK /\ [Next]_vars =>
        \A r \in Runs :
            /\ runs[r].status = "cancelled"
            /\ \A w \in Workers : ~Drives(w, r)
            /\ \A q \in Requests : request[q].pc = "read" => request[q].run # r
            => runs'[r].status = "cancelled"
  BY <1>1
<1> QED
  BY <1>2, TypeCorrect, PTL DEF Spec, CancelSticks
-----------------------------------------------------------------------------
(***************************************************************************)
(* A workflow without gates and failing nodes, crashes of the executors    *)
(* being the only failure, implements the abstract run of DurableRun.      *)
(*                                                                         *)
(* The argument: a worker on a pass holds the lease of its run, and its    *)
(* memory is the checkpoint of the run plus the node it just ran.  So a    *)
(* checkpoint commits one more node, the terminal write finds all of them  *)
(* committed, and a run that is swept, which has no checkpoint, has        *)
(* committed none.                                                         *)
(***************************************************************************)
CrashesOnly ==
    /\ Gates = {} /\ FailNodes = {} /\ DeletedRuns = {} /\ Requests = {}
    /\ MaxLapses = 0 /\ MaxFaults = 0 /\ MaxBoots = 0

Committed(d) == IF d.es # NoState THEN d.es.done ELSE 0

StoredOK(d) ==
    /\ d.status \in {"absent", "queued", "running", "success", "error"}
    /\ d.es # NoState =>
         d.status = "running" /\ d.es.pending = "none" /\ (d.es.open <=> d.es.done < N)

OnPass(w) ==
    LET v == worker[w]
        d == runs[v.run]
    IN  /\ v.pc \in {"idle", "load", "bfs", "ran", "reread", "final", "put", "release"}
        /\ v.pc = "release" => d.status = "success"
        /\ v.pc \in {"load", "bfs", "ran", "reread", "final", "put"} =>
             /\ d.owner = w /\ ~d.lapsed /\ d.status = "running"
             /\ ~v.ctxDone /\ ~v.failed /\ (v.open <=> v.done < N)
             /\ v.done = IF v.pc = "ran" THEN Committed(d) + 1 ELSE Committed(d)
             /\ v.pc \in {"reread", "final", "put"} => v.done = N

MemoryInvariant ==
    /\ \A r \in Runs : StoredOK(runs[r])
    /\ \A w \in Workers : OnPass(w)

\* The abstract steps, the stuttering one included.
DurableStep == [Abstract!Next]_(Abstract!vars)

\* A step of worker w (or of its lease) that writes at most run r, on which no
\* other worker is.
LEMMA OneRun ==
    ASSUME TypeOK, MemoryInvariant, NEW w \in Workers, NEW r \in Runs,
           \A x \in Workers : x # w => worker'[x] = worker[x],
           \A s \in Runs : s # r => runs'[s] = runs[s],
           runs[r].status = "success" => runs'[r].status = "success",
           runs[r].status = "running" => runs[r].owner \in {w, NoWorker} \/ runs[r].lapsed,
           StoredOK(runs'[r]), OnPass(w)'
    PROVE  MemoryInvariant'
<1>1. \A s \in Runs : StoredOK(runs[s])'
  BY DEF MemoryInvariant, StoredOK
<1>2. ASSUME NEW x \in Workers, x # w PROVE OnPass(x)'
  <2>1. worker'[x] = worker[x] /\ worker[x].run \in Runs /\ OnPass(x) /\ x # NoWorker
    BY <1>2, NoWorkerAssumption DEF MemoryInvariant, TypeOK, WorkerStates
  <2>2. CASE worker[x].run # r
    BY <2>1, <2>2 DEF OnPass, Committed
  <2>3. CASE worker[x].run = r
    <3>1. worker[x].pc \in {"idle", "release"}
      BY <1>2, <2>1, <2>3 DEF OnPass
    <3> QED
      BY <2>1, <2>3, <3>1 DEF OnPass
  <2> QED
    BY <2>2, <2>3
<1> QED
  BY <1>1, <1>2 DEF MemoryInvariant

\* What the abstract run sees of a write of run r.
LEMMA Stutters ==
    ASSUME \A s \in Runs : /\ RunPhase(runs'[s]) = RunPhase(runs[s])
                           /\ RunProgress(runs'[s]) = RunProgress(runs[s])
    PROVE  DurableStep
BY DEF DurableStep, Abstract!vars

LEMMA ProgressMoves ==
    ASSUME NEW r \in Runs, \A s \in Runs : s # r => runs'[s] = runs[s],
           RunPhase(runs[r]) = "open", RunPhase(runs'[r]) = "open",
           RunProgress(runs[r]) \in Nat, RunProgress(runs[r]) < N,
           RunProgress(runs'[r]) = RunProgress(runs[r]) + 1
    PROVE  DurableStep
<1>1. Abstract!Commit(r)
  BY DEF Abstract!Commit
<1> QED
  BY <1>1 DEF DurableStep, Abstract!Next, Abstract!Advance, Runs

LEMMA PhaseMoves ==
    ASSUME NEW r \in Runs, \A s \in Runs : s # r => runs'[s] = runs[s],
           RunProgress(runs'[r]) = RunProgress(runs[r]),
           \/ RunPhase(runs[r]) = "absent" /\ RunPhase(runs'[r]) = "open"
           \/ RunPhase(runs[r]) = "open" /\ RunPhase(runs'[r]) = "success" /\ RunProgress(runs[r]) = N
           \/ RunPhase(runs[r]) = "open" /\ RunPhase(runs'[r]) = "error" /\ RunProgress(runs[r]) = 0
    PROVE  DurableStep
<1>1. Abstract!Submit(r) \/ Abstract!Finish(r) \/ Abstract!Abandon(r)
  BY DEF Abstract!Submit, Abstract!Finish, Abstract!Abandon
<1> QED
  BY <1>1 DEF DurableStep, Abstract!Next, Abstract!Advance, Runs

LEMMA RunsAreStored ==
    ASSUME TypeOK, MemoryInvariant, NEW r \in Runs
    PROVE  /\ runs[r] \in RunDocs /\ StoredOK(runs[r])
           /\ Committed(runs[r]) \in 0 .. N
           /\ runs[r].status = "running" => RunProgress(runs[r]) = Committed(runs[r])
           /\ runs[r].es # NoState => runs[r].es.done \in 0 .. N /\ runs[r].es.open \in BOOLEAN
BY NAssumption DEF TypeOK, MemoryInvariant, RunDocs, ExecutionStates, Committed, RunProgress, StoredOK

\* A worker on a pass, with the run it is on.
LEMMA Driven ==
    ASSUME TypeOK, MemoryInvariant, NEW w \in Workers, worker[w].pc # "idle"
    PROVE  /\ worker[w] \in WorkerStates /\ worker[w].run \in Runs /\ worker[w].done \in 0 .. N
           /\ worker[w].doc \in RunDocs /\ OnPass(w)
BY DEF TypeOK, MemoryInvariant, WorkerStates

-----------------------------------------------------------------------------
\* The trigger submits the run.
LEMMA DispatchIsDurable ==
    ASSUME TypeOK, MemoryInvariant, NEW r \in Runs, Dispatch(r)
    PROVE  MemoryInvariant' /\ DurableStep
<1>1. /\ runs[r].status = "absent" /\ runs'[r] = FreshRun /\ worker' = worker
      /\ \A s \in Runs : s # r => runs'[s] = runs[s]
  BY DEF Dispatch, TypeOK
<1>2. FreshRun.status = "queued" /\ FreshRun.es = NoState
  BY DEF FreshRun, NoRun
<1>3. StoredOK(runs[r]) /\ StoredOK(runs'[r])
  BY <1>1, <1>2 DEF StoredOK, MemoryInvariant
<1>4. ASSUME NEW x \in Workers PROVE OnPass(x)'
  <2>1. OnPass(x) /\ worker[x].run \in Runs
    BY DEF MemoryInvariant, TypeOK, WorkerStates
  <2> QED
    BY <1>1, <2>1 DEF OnPass
<1>5. MemoryInvariant'
  BY <1>1, <1>3, <1>4 DEF MemoryInvariant, StoredOK
<1>6. DurableStep
  BY <1>1, <1>2, <1>3, PhaseMoves DEF StoredOK, RunPhase, RunProgress, NonTerminal
<1> QED
  BY <1>5, <1>6

\* A claim hydrates the worker from the checkpoint of the run.
LEMMA ClaimIsDurable ==
    ASSUME TypeOK, MemoryInvariant, NEW w \in Workers, NEW r \in Runs, Claim(w, r)
    PROVE  MemoryInvariant' /\ DurableStep
<1> DEFINE d == ClaimLease(runs[r], w)
           v == worker'[w]
<1>1. /\ runs[r] \in RunDocs /\ StoredOK(runs[r]) /\ Committed(runs[r]) \in 0 .. N
      /\ runs[r].es # NoState => runs[r].es.done \in 0 .. N /\ runs[r].es.open \in BOOLEAN
  BY RunsAreStored
<1>2. /\ runs[r].status \in {"queued", "running"}
      /\ runs[r].owner = NoWorker \/ runs[r].lapsed
      /\ d.status = "running" /\ d.owner = w /\ d.lapsed = FALSE /\ d.es = runs[r].es
  BY <1>1 DEF Claim, Claimable, ClaimLease, RunDocs
<1>3. /\ runs'[r] = d /\ \A s \in Runs : s # r => runs'[s] = runs[s]
      /\ \A x \in Workers : x # w => worker'[x] = worker[x]
  BY DEF Claim, TypeOK
<1>4. /\ v.pc = "load" /\ v.run = r /\ v.ctxDone = FALSE /\ v.failed = FALSE
      /\ v.done = IF d.es # NoState THEN d.es.done ELSE 0
      /\ v.open = IF d.es # NoState THEN d.es.open ELSE TRUE
  BY DEF Claim, TypeOK, IdleWorker
<1> HIDE DEF d, v
<1>5. StoredOK(runs'[r])
  BY <1>1, <1>2, <1>3 DEF StoredOK
<1>6. v.done = Committed(d) /\ (v.open <=> v.done < N)
  BY <1>1, <1>2, <1>4, NAssumption DEF Committed, StoredOK
<1>7. OnPass(w)'
  BY <1>2, <1>3, <1>4, <1>6 DEF OnPass, Committed, v
<1>8. MemoryInvariant'
  BY <1>2, <1>3, <1>5, <1>7, OneRun
<1>9. DurableStep
  <2>1. RunPhase(runs'[r]) = RunPhase(runs[r]) /\ RunProgress(runs'[r]) = RunProgress(runs[r])
    BY <1>2, <1>3 DEF RunPhase, RunProgress, NonTerminal
  <2> QED
    BY <1>3, <2>1, Stutters
<1> QED
  BY <1>8, <1>9

\* The steps of a pass that write nothing to the store.
LEMMA QuietIsDurable ==
    ASSUME CrashesOnly, TypeOK, MemoryInvariant, NEW w \in Workers,
           \/ LoadWorkflow(w) \/ LeaveLoop(w) \/ RunNode(w)
           \/ Reread(w) \/ ReadFinal(w) \/ Crash(w)
    PROVE  MemoryInvariant' /\ DurableStep
<1> DEFINE r == worker[w].run
           v == worker'[w]
<1>1. /\ worker[w] \in WorkerStates /\ r \in Runs /\ worker[w].done \in 0 .. N /\ OnPass(w)
      /\ worker[w].pc # "idle"
  BY Driven DEF LoadWorkflow, LeaveLoop, RunNode, AtNode, Reread, ReadFinal, Crash
<1>2. /\ runs' = runs /\ \A x \in Workers : x # w => worker'[x] = worker[x]
  BY DEF TypeOK, LoadWorkflow, LeaveLoop, RunNode, Reread, ReadFinal, Crash, Goto
<1>3. StoredOK(runs[r]) /\ Committed(runs[r]) \in 0 .. N
  BY <1>1, RunsAreStored
<1>4. OnPass(w)'
  <2>1. CASE Crash(w)
    BY <2>1 DEF Crash, TypeOK, IdleWorker, OnPass
  <2>2. CASE LoadWorkflow(w)
    <3>1. /\ worker[w].pc = "load" /\ v.pc = "bfs" /\ v.run = r /\ v.done = worker[w].done
          /\ v.open = worker[w].open /\ v.failed = worker[w].failed /\ v.ctxDone = worker[w].ctxDone
      BY <1>1, <2>2 DEF LoadWorkflow, TypeOK, WorkerStates
    <3> QED
      BY <1>1, <1>2, <3>1 DEF OnPass, Committed
  <2>3. CASE LeaveLoop(w)
    <3>1. /\ worker[w].pc = "bfs" /\ ~worker[w].open /\ v.pc = "reread" /\ v.run = r /\ v.done = worker[w].done
          /\ v.open = worker[w].open /\ v.failed = worker[w].failed /\ v.ctxDone = worker[w].ctxDone
      BY <1>1, <2>3 DEF LeaveLoop, Goto, TypeOK, WorkerStates
    <3>2. worker[w].done = N
      BY <1>1, <3>1, NAssumption DEF OnPass
    <3> QED
      BY <1>1, <1>2, <3>1, <3>2 DEF OnPass, Committed
  <2>4. CASE RunNode(w)
    <3>1. /\ worker[w].pc = "bfs" /\ worker[w].open /\ v.pc = "ran" /\ v.run = r
          /\ v.done = worker[w].done + 1
          /\ v.open = (worker[w].done + 1 < N) /\ v.failed = worker[w].failed
          /\ v.ctxDone = worker[w].ctxDone
      BY <1>1, <2>4 DEF RunNode, AtNode, Head, TypeOK, WorkerStates, CrashesOnly
    <3> QED
      BY <1>1, <1>2, <1>3, <3>1 DEF OnPass, Committed
  <2>5. CASE Reread(w)
    <3>1. /\ worker[w].pc = "reread" /\ v.run = r /\ v.done = worker[w].done
          /\ v.open = worker[w].open /\ v.failed = worker[w].failed /\ v.ctxDone = worker[w].ctxDone
          /\ v.pc = IF runs[r].status = "pending_approval" THEN "release" ELSE "final"
      BY <1>1, <2>5 DEF Reread, Goto, Doc, TypeOK, WorkerStates
    <3> QED
      BY <1>1, <1>2, <3>1 DEF OnPass, Committed
  <2>6. CASE ReadFinal(w)
    <3>1. /\ worker[w].pc = "final" /\ v.pc = "put" /\ v.run = r /\ v.done = worker[w].done
          /\ v.open = worker[w].open /\ v.failed = worker[w].failed /\ v.ctxDone = worker[w].ctxDone
      BY <1>1, <2>6 DEF ReadFinal, TypeOK, WorkerStates
    <3> QED
      BY <1>1, <1>2, <3>1 DEF OnPass, Committed
  <2> QED
    BY <2>1, <2>2, <2>3, <2>4, <2>5, <2>6
<1>5. runs[r].status = "running" => runs[r].owner \in {w, NoWorker} \/ runs[r].lapsed
  BY <1>1 DEF OnPass
<1>6. MemoryInvariant'
  BY <1>1, <1>2, <1>3, <1>4, <1>5, OneRun
<1> QED
  BY <1>2, <1>6, Stutters

\* A checkpoint commits the node the worker ran.
LEMMA CheckpointIsDurable ==
    ASSUME TypeOK, MemoryInvariant, NEW w \in Workers, Checkpoint(w)
    PROVE  MemoryInvariant' /\ DurableStep
<1> DEFINE r == worker[w].run
           v == worker'[w]
           es == Snapshot(w, "none")
           e == CheckpointStep(runs[r], es)
<1>1. /\ worker[w] \in WorkerStates /\ r \in Runs /\ worker[w].done \in 0 .. N /\ OnPass(w)
      /\ worker[w].pc = "ran"
  BY Driven DEF Checkpoint
<1>2. /\ runs[r] \in RunDocs /\ StoredOK(runs[r]) /\ Committed(runs[r]) \in 0 .. N
      /\ runs[r].status = "running" => RunProgress(runs[r]) = Committed(runs[r])
  BY <1>1, RunsAreStored
<1>3. /\ runs[r].status = "running" /\ runs[r].owner = w /\ ~runs[r].lapsed
      /\ ~worker[w].ctxDone /\ ~worker[w].failed
      /\ worker[w].open <=> worker[w].done < N
      /\ worker[w].done = Committed(runs[r]) + 1
  BY <1>1 DEF OnPass
<1>4. /\ runs' = [runs EXCEPT ![r] = e] /\ worker' = [worker EXCEPT ![w].pc = "bfs"]
  BY <1>3 DEF Checkpoint, LeaseHeld, Doc, Goto
<1>5. /\ es.done = worker[w].done /\ es.open = worker[w].open /\ es.pending = "none" /\ es # NoState
      /\ e.status = "running" /\ e.owner = w /\ e.lapsed = runs[r].lapsed /\ e.es = es
  BY <1>1, <1>2, <1>3, NoStateAssumption DEF Snapshot, CheckpointStep, RunDocs, WorkerStates, ExecutionStates
<1> HIDE DEF e, es
<1>6. /\ runs'[r] = e /\ \A s \in Runs : s # r => runs'[s] = runs[s]
      /\ \A x \in Workers : x # w => worker'[x] = worker[x]
  BY <1>1, <1>4 DEF TypeOK
<1>7. /\ v.pc = "bfs" /\ v.run = r /\ v.done = worker[w].done /\ v.open = worker[w].open
      /\ v.failed = worker[w].failed /\ v.ctxDone = worker[w].ctxDone
  BY <1>1, <1>4 DEF TypeOK, WorkerStates
<1> HIDE DEF v
<1>8. StoredOK(runs'[r])
  BY <1>3, <1>5, <1>6 DEF StoredOK
<1>9. OnPass(w)'
  BY <1>1, <1>3, <1>5, <1>6, <1>7 DEF OnPass, Committed, v
<1>10. MemoryInvariant'
  BY <1>1, <1>3, <1>6, <1>8, <1>9, OneRun
<1>11. DurableStep
  <2>1. RunPhase(runs[r]) = "open" /\ RunPhase(runs'[r]) = "open"
    BY <1>3, <1>5, <1>6 DEF RunPhase, NonTerminal
  <2>2. RunProgress(runs[r]) = Committed(runs[r]) /\ RunProgress(runs'[r]) = worker[w].done
    BY <1>2, <1>3, <1>5, <1>6 DEF RunProgress
  <2>3. Committed(runs[r]) < N
    BY <1>1, <1>2, <1>3, NAssumption
  <2> QED
    BY <1>1, <1>2, <1>3, <1>6, <2>1, <2>2, <2>3, ProgressMoves
<1> QED
  BY <1>10, <1>11

\* The terminal write finds every node committed.
LEMMA FinishIsDurable ==
    ASSUME TypeOK, MemoryInvariant, NEW w \in Workers, PutFinal(w)
    PROVE  MemoryInvariant' /\ DurableStep
<1> DEFINE r == worker[w].run
           v == worker'[w]
<1>1. /\ worker[w] \in WorkerStates /\ r \in Runs /\ worker[w].doc \in RunDocs /\ OnPass(w)
      /\ worker[w].pc = "put"
  BY Driven DEF PutFinal
<1>2. /\ runs[r].status = "running" => RunProgress(runs[r]) = Committed(runs[r])
      /\ StoredOK(runs[r])
  BY <1>1, RunsAreStored
<1>3. /\ runs[r].status = "running" /\ runs[r].owner = w /\ ~worker[w].failed
      /\ Committed(runs[r]) = N
  BY <1>1 DEF OnPass
<1>4. /\ runs'[r].status = "success" /\ runs'[r].es = NoState
      /\ \A s \in Runs : s # r => runs'[s] = runs[s]
  BY <1>1, <1>3 DEF PutFinal, TypeOK, RunDocs
<1>5. /\ v.pc = "release" /\ v.run = r /\ \A x \in Workers : x # w => worker'[x] = worker[x]
  BY <1>1 DEF PutFinal, TypeOK, WorkerStates
<1> HIDE DEF v
<1>6. StoredOK(runs'[r])
  BY <1>4 DEF StoredOK
<1>7. OnPass(w)'
  BY <1>4, <1>5 DEF OnPass, v
<1>8. MemoryInvariant'
  BY <1>1, <1>3, <1>4, <1>5, <1>6, <1>7, OneRun
<1>9. DurableStep
  <2>1. RunPhase(runs[r]) = "open" /\ RunPhase(runs'[r]) = "success"
    BY <1>3, <1>4 DEF RunPhase, NonTerminal
  <2>2. RunProgress(runs[r]) = N /\ RunProgress(runs'[r]) = N
    BY <1>2, <1>3, <1>4 DEF RunProgress
  <2> QED
    BY <1>1, <1>4, <2>1, <2>2, PhaseMoves
<1> QED
  BY <1>8, <1>9

\* The writes to the lease fields: release, heartbeat and the clock.
LEMMA LeaseIsNotSeen ==
    ASSUME CrashesOnly, TypeOK, MemoryInvariant, NEW w \in Workers,
           Release(w) \/ HeartbeatExtends(w) \/ \E r \in Runs : runs[r].owner = w /\ LeaseLapses(r)
    PROVE  MemoryInvariant' /\ DurableStep
<1>1. PICK r \in Runs :
        /\ \A s \in Runs : s # r => runs'[s] = runs[s]
        /\ runs'[r].status = runs[r].status /\ runs'[r].es = runs[r].es
        /\ \A x \in Workers : x # w => worker'[x] = worker[x]
        /\ runs[r].status = "running" => runs[r].owner \in {w, NoWorker} \/ runs[r].lapsed
        /\ OnPass(w)'
  <2>1. CASE Release(w)
    <3> DEFINE r == worker[w].run
    <3>1. r \in Runs /\ OnPass(w) /\ worker[w].pc = "release" /\ runs[r] \in RunDocs
      BY <2>1, Driven, RunsAreStored DEF Release
    <3>2. /\ runs'[r].status = runs[r].status /\ runs'[r].es = runs[r].es
          /\ \A s \in Runs : s # r => runs'[s] = runs[s]
          /\ \A x \in Workers : x # w => worker'[x] = worker[x]
          /\ worker'[w].pc = "idle"
      BY <2>1, <3>1 DEF Release, ReleaseLease, TypeOK, RunDocs, IdleWorker
    <3> QED
      BY <3>1, <3>2 DEF OnPass
  <2>2. CASE HeartbeatExtends(w)
    <3> DEFINE r == worker[w].run
    <3>1. /\ r \in Runs /\ OnPass(w) /\ runs[r] \in RunDocs /\ runs[r].owner = w
      BY <2>2, Driven, RunsAreStored DEF HeartbeatExtends, Executing, LeaseHeld, Doc
    <3>2. /\ runs'[r].status = runs[r].status /\ runs'[r].es = runs[r].es
          /\ runs'[r].owner = runs[r].owner /\ ~runs'[r].lapsed
          /\ \A s \in Runs : s # r => runs'[s] = runs[s]
          /\ worker' = worker
      BY <2>2, <3>1 DEF HeartbeatExtends, ExtendLease, TypeOK, RunDocs
    <3> QED
      BY <3>1, <3>2 DEF OnPass, Committed
  <2>3. ASSUME NEW r \in Runs, runs[r].owner = w, LeaseLapses(r)
        PROVE  /\ \A s \in Runs : s # r => runs'[s] = runs[s]
               /\ runs'[r].status = runs[r].status /\ runs'[r].es = runs[r].es
               /\ \A x \in Workers : x # w => worker'[x] = worker[x]
               /\ runs[r].status = "running" => runs[r].owner \in {w, NoWorker} \/ runs[r].lapsed
               /\ OnPass(w)'
    <3>1. /\ runs[r] \in RunDocs /\ used.lapses \in Nat /\ OnPass(w) /\ worker[w].run \in Runs
      BY RunsAreStored DEF TypeOK, MemoryInvariant, WorkerStates
    <3>2. ~Drives(w, r)
      BY <2>3, <3>1 DEF LeaseLapses, CrashesOnly
    <3>3. /\ runs'[r].status = runs[r].status /\ runs'[r].es = runs[r].es /\ worker' = worker
          /\ \A s \in Runs : s # r => runs'[s] = runs[s]
      BY <2>3, <3>1 DEF LeaseLapses, TypeOK, RunDocs
    <3>4. OnPass(w)'
      BY <3>1, <3>2, <3>3 DEF OnPass, Drives, Committed
    <3> QED
      BY <2>3, <3>3, <3>4
  <2> QED
    BY <2>1, <2>2, <2>3
<1>2. StoredOK(runs'[r])
  BY <1>1 DEF StoredOK, MemoryInvariant
<1>3. MemoryInvariant'
  BY <1>1, <1>2, OneRun
<1>4. RunPhase(runs'[r]) = RunPhase(runs[r]) /\ RunProgress(runs'[r]) = RunProgress(runs[r])
  BY <1>1 DEF RunPhase, RunProgress
<1> QED
  BY <1>1, <1>3, <1>4, Stutters

\* A run that is swept has committed nothing.
LEMMA SweepIsDurable ==
    ASSUME TypeOK, MemoryInvariant, NEW r \in Runs, OrphanSweep(r)
    PROVE  MemoryInvariant' /\ DurableStep
<1>1. runs[r] \in RunDocs /\ StoredOK(runs[r])
  BY RunsAreStored
<1>2. /\ runs[r].status = "running" /\ runs[r].lapsed /\ runs[r].es = NoState
      /\ runs'[r].status = "error" /\ runs'[r].es = NoState /\ worker' = worker
      /\ \A s \in Runs : s # r => runs'[s] = runs[s]
  BY <1>1 DEF OrphanSweep, WorkerOrphan, Abandoned, NonTerminal, StoredOK, TypeOK, RunDocs
<1>3. StoredOK(runs'[r])
  BY <1>2 DEF StoredOK
<1>4. ASSUME NEW x \in Workers PROVE OnPass(x)'
  <2>1. OnPass(x) /\ worker[x].run \in Runs
    BY DEF MemoryInvariant, TypeOK, WorkerStates
  <2>2. worker[x].run = r => worker[x].pc = "idle"
    BY <1>2, <2>1 DEF OnPass
  <2> QED
    BY <1>2, <2>1, <2>2 DEF OnPass, Committed
<1>5. MemoryInvariant'
  BY <1>2, <1>3, <1>4 DEF MemoryInvariant, StoredOK
<1>6. DurableStep
  BY <1>2, PhaseMoves DEF RunPhase, RunProgress, NonTerminal
<1> QED
  BY <1>5, <1>6

\* The steps that cannot happen.
LEMMA NothingElse ==
    ASSUME CrashesOnly, TypeOK, MemoryInvariant
    PROVE  /\ ~BootSweep
           /\ \A w \in Workers :
                /\ ~WorkerFault(w) /\ ~HeartbeatCancels(w)
                /\ ~RefuseNode(w) /\ ~ReadAtGate(w) /\ ~MirrorGate(w)
                /\ ~YieldCheckpoint(w) /\ ~YieldRelease(w) /\ ~GiveUp(w)
<1>1. used.faults \in Nat /\ used.boots \in Nat
  BY DEF TypeOK
<1>2. ~Fault /\ ~BootSweep
  BY <1>1 DEF Fault, BootSweep, CrashesOnly
<1>3. ASSUME NEW w \in Workers
      PROVE  /\ ~WorkerFault(w) /\ ~HeartbeatCancels(w)
             /\ ~RefuseNode(w) /\ ~ReadAtGate(w) /\ ~MirrorGate(w)
             /\ ~YieldCheckpoint(w) /\ ~YieldRelease(w) /\ ~GiveUp(w)
  <2>1. OnPass(w)
    BY DEF MemoryInvariant
  <2>2. ~WorkerFault(w)
    BY <1>2 DEF WorkerFault, WorkflowGone, MirrorGateFails, CheckpointFails, YieldCheckpointFails,
       RereadFails, FinalFails, CrashesOnly
  <2>3. ~HeartbeatCancels(w) /\ ~GiveUp(w)
    BY <2>1 DEF HeartbeatCancels, GiveUp, Executing, OnPass, LeaseHeld, Doc
  <2>4. ~RefuseNode(w) /\ ~ReadAtGate(w)
    BY DEF RefuseNode, ReadAtGate, CrashesOnly
  <2>5. ~MirrorGate(w) /\ ~YieldCheckpoint(w) /\ ~YieldRelease(w)
    BY <2>1 DEF MirrorGate, YieldCheckpoint, YieldRelease, OnPass
  <2> QED
    BY <2>2, <2>3, <2>4, <2>5
<1> QED
  BY <1>2, <1>3

LEMMA StepIsDurable ==
    ASSUME CrashesOnly, TypeOK, MemoryInvariant, [Next]_vars
    PROVE  MemoryInvariant' /\ DurableStep
<1>1. CASE UNCHANGED vars
  <2>1. runs' = runs /\ worker' = worker
    BY <1>1 DEF vars
  <2>2. MemoryInvariant'
    BY <2>1 DEF MemoryInvariant, StoredOK, OnPass, Committed
  <2> QED
    BY <2>1, <2>2, Stutters
<1>2. ASSUME NEW r \in Runs, LeaseLapses(r) PROVE MemoryInvariant' /\ DurableStep
  <2>1. runs[r].owner \in Workers
    BY <1>2 DEF LeaseLapses, TypeOK, RunDocs
  <2> QED
    BY <1>2, <2>1, LeaseIsNotSeen
<1>3. ASSUME NEW w \in Workers, WorkerStep(w) \/ WorkerFault(w) \/ Heartbeat(w) \/ Crash(w)
      PROVE  MemoryInvariant' /\ DurableStep
  <2>1. \/ LoadWorkflow(w) \/ LeaveLoop(w) \/ RunNode(w) \/ Reread(w) \/ ReadFinal(w) \/ Crash(w)
        \/ Checkpoint(w) \/ PutFinal(w) \/ Release(w) \/ HeartbeatExtends(w)
    BY <1>3, NothingElse DEF WorkerStep, Heartbeat
  <2> QED
    BY <2>1, QuietIsDurable, CheckpointIsDurable, FinishIsDurable, LeaseIsNotSeen
<1>4. ~\E q \in Requests : RequestStep(q)
  BY DEF CrashesOnly
<1>5. CASE Next
  BY <1>2, <1>3, <1>4, <1>5, NothingElse, DispatchIsDurable, ClaimIsDurable, SweepIsDurable DEF Next
<1> QED
  BY <1>1, <1>5

\* With crashes of the executors as the only failure, a workflow without gates
\* and failing nodes implements DurableRun: nodes are committed one after the
\* other, a run succeeds when all are, is given up while none is
\* (SweepOrphanedWorkflowRuns), and stays as it ended.  The fairness of
\* DurableRun!Spec is left to the model checker.
THEOREM RunsAreDurable ==
    ASSUME CrashesOnly
    PROVE  Spec => Abstract!Init /\ [][Abstract!Next]_(Abstract!vars)
<1>1. Init => MemoryInvariant
  BY DEF Init, MemoryInvariant, StoredOK, OnPass, IdleWorker, NoRun
<1>2. Init => Abstract!Init
  BY DEF Init, Abstract!Init, RunPhase, RunProgress, NoRun, NonTerminal, Runs
<1>3. TypeOK /\ MemoryInvariant /\ [Next]_vars => MemoryInvariant' /\ [Abstract!Next]_(Abstract!vars)
  BY StepIsDurable DEF DurableStep
<1> QED
  BY <1>1, <1>2, <1>3, TypeCorrect, PTL DEF Spec

-----------------------------------------------------------------------------
(***************************************************************************)
(* Losing the lease.  Without gates and without a reaper, a worker that    *)
(* lost its lease executes at most the node it was on, plus one for each   *)
(* checkpoint write that failed (StrayedBound), though workers crash,      *)
(* leases lapse, people cancel and the API restarts.                       *)
(*                                                                         *)
(* The argument: after a node the worker meets its checkpoint, and a       *)
(* worker that does not hold the lease ends its pass there, unless the     *)
(* write fails.  So a worker that strayed must not be handed the lease     *)
(* back.  A claim is made by a free worker for itself; the only other      *)
(* write that may name an owner is the terminal one, of a document another *)
(* worker read after the last node.  It can hand the lease to a worker     *)
(* that still executes, once checkpoints have failed: but then the owner   *)
(* was behind the last node by no more than the number of those failures,  *)
(* and every node it executes brings it nearer to the end.                 *)
(***************************************************************************)
\* The nodes after which the chain stops.
LastNodes == FailNodes \cup {N}

\* The run of d is one that a worker may claim, now or after a lapse.
Going(d) == d.status \in {"queued", "running"}

\* No frontier passes a node that ends the chain; the queue is empty there.
InBounds(done, open) ==
    /\ \A e \in LastNodes : done <= e /\ (open => done < e)
    /\ ~open => done \in LastNodes

InRun(w, r) == Drives(w, r) /\ worker[w].pc # "release"

\* Worker w is past frontier n by failed checkpoints and a node it is on.
Within(w, n) ==
    worker[w].done <= n + used.faults + (IF worker[w].pc = "ran" THEN 1 ELSE 0)

Leads(w, r) == \A x \in Workers : InRun(x, r) => Within(x, worker[w].done)

\* The failed calls allow w every node it may still come to.
PaidFor(w) ==
    \E e \in LastNodes :
        worker[w].done <= e /\ worker[w].strayed + (e - worker[w].done) <= used.faults

RunPaid(r) == Going(runs[r]) =>
    /\ runs[r].es # NoState => InBounds(runs[r].es.done, runs[r].es.open)
    /\ \A w \in Workers : InRun(w, r) => Within(w, Committed(runs[r]))

Leased(w) == \A r \in Runs : runs[r].owner = w /\ Walks(w, r) =>
    \/ worker[w].strayed = 0 /\ Leads(w, r)
    \/ ~Going(runs[r]) /\ PaidFor(w)

\* No terminal document names w as its owner while w may stray further.
Handed(w) == \A z \in Workers :
    worker[z].pc = "put" /\ worker[z].doc.owner = w /\ Walks(w, worker[z].run) =>
        PaidFor(w)

PassPaid(w) ==
    /\ worker[w].pc # "idle" => InBounds(worker[w].done, worker[w].open)
    /\ worker[w].pc = "load" => worker[w].doc.owner = w
    /\ worker[w].strayed <= 1 + used.faults
    /\ worker[w].pc \in {"load", "bfs"} => worker[w].strayed <= used.faults

StrayInvariant ==
    /\ \A r \in Runs : runs[r].status # "pending_approval" /\ RunPaid(r)
    /\ \A w \in Workers : Leased(w) /\ Handed(w) /\ PassPaid(w)
    /\ \A q \in ApprovalReqs : request[q].pc = "new"

(***************************************************************************)
(* What a step may do to a run and to a worker that executes nothing.      *)
(***************************************************************************)
Stays(r) ==
    /\ runs'[r].status # "pending_approval"
    /\ Going(runs'[r]) =>
         \/ Going(runs[r]) /\ runs'[r].es = runs[r].es
         \/ runs'[r].es = NoState /\ \A w \in Workers : ~Drives(w, r)'
    /\ \A w \in Workers : runs'[r].owner = w /\ Walks(w, r)' =>
         \/ runs[r].owner = w
         \/ ~Going(runs'[r]) /\ PaidFor(w)

Rests(w) ==
    /\ worker'[w].strayed \in {0, worker[w].strayed}
    /\ worker'[w].pc # "idle" =>
         /\ worker[w].pc # "idle"
         /\ worker'[w].run = worker[w].run /\ worker'[w].done = worker[w].done
         /\ worker'[w].open = worker[w].open /\ worker'[w].strayed = worker[w].strayed
         /\ worker[w].pc = "release" => worker'[w].pc = "release"
         /\ \A r \in Runs : Walks(w, r)' => Walks(w, r)
         /\ worker'[w].pc = "ran" => worker[w].pc = "ran"
         /\ worker[w].pc = "ran" /\ worker'[w].pc \notin {"ran", "release"} =>
              used'.faults = used.faults + 1
         /\ worker'[w].pc = "load" => worker[w].pc = "load" /\ worker'[w].doc = worker[w].doc
         /\ worker'[w].pc = "put" =>
              \/ worker[w].pc = "put" /\ worker'[w].doc = worker[w].doc
              \/ worker[w].pc = "final" /\ worker'[w].doc = runs[worker[w].run]

LEMMA StrayTypes ==
    ASSUME TypeOK
    PROVE  /\ used.faults \in Nat
           /\ \A w \in Workers : /\ worker[w].done \in Nat /\ worker[w].strayed \in Nat
                                 /\ worker[w].run \in Runs /\ worker[w].open \in BOOLEAN
           /\ \A r \in Runs : Committed(runs[r]) \in Nat
           /\ LastNodes \subseteq Nat
BY NAssumption, NodeSetsAssumption
   DEF TypeOK, WorkerStates, RunDocs, ExecutionStates, Committed, LastNodes, Nodes

LEMMA StillPaid ==
    ASSUME TypeOK, TypeOK', UngatedInvariant, StrayInvariant,
           used.faults <= used'.faults,
           \A r \in Runs : Stays(r), \A w \in Workers : Rests(w),
           \A q \in ApprovalReqs : request'[q].pc = "new"
    PROVE  StrayInvariant'
<1>0. /\ used.faults \in Nat /\ used'.faults \in Nat /\ LastNodes \subseteq Nat
      /\ \A w \in Workers :
            /\ worker[w].done \in Nat /\ worker[w].strayed \in Nat
            /\ worker'[w].done \in Nat /\ worker'[w].strayed \in Nat
            /\ worker[w].run \in Runs /\ worker'[w].run \in Runs
      /\ \A r \in Runs : Committed(runs[r]) \in Nat
  BY StrayTypes DEF TypeOK, WorkerStates
<1>1. \A w \in Workers, r \in Runs :
         /\ InRun(w, r)' => InRun(w, r) /\ worker'[w].done = worker[w].done
         /\ Walks(w, r)' =>
              /\ Walks(w, r) /\ worker'[w].done = worker[w].done
              /\ worker'[w].strayed = worker[w].strayed
  BY DEF Rests, InRun, Drives, Walks
<1>2. ASSUME NEW w \in Workers, NEW r \in Runs, NEW n \in Nat, InRun(w, r)', Within(w, n)
      PROVE  worker'[w].done <= n + used'.faults + (IF worker'[w].pc = "ran" THEN 1 ELSE 0)
  <2>1. /\ worker'[w].done = worker[w].done
        /\ worker'[w].pc = "ran" => worker[w].pc = "ran"
        /\ worker[w].pc = "ran" /\ worker'[w].pc # "ran" => used'.faults = used.faults + 1
    BY <1>2 DEF Rests, InRun, Drives
  <2> QED
    BY <1>0, <1>2, <2>1 DEF Within
<1>3. ASSUME NEW w \in Workers, NEW r \in Runs, Walks(w, r)', Leads(w, r)
      PROVE  Leads(w, r)'
  BY <1>0, <1>1, <1>2, <1>3 DEF Leads, Within
<1>4. ASSUME NEW w \in Workers, NEW r \in Runs, Walks(w, r)', PaidFor(w)
      PROVE  PaidFor(w)'
  <2>1. PICK e \in LastNodes :
          worker[w].done <= e /\ worker[w].strayed + (e - worker[w].done) <= used.faults
    BY <1>4 DEF PaidFor
  <2>2. worker'[w].done <= e /\ worker'[w].strayed + (e - worker'[w].done) <= used'.faults
    BY <1>0, <1>1, <1>4, <2>1
  <2> QED
    BY <2>2 DEF PaidFor, LastNodes
<1>5. ASSUME NEW r \in Runs, Going(runs'[r])
      PROVE  /\ runs'[r].es # NoState => InBounds(runs'[r].es.done, runs'[r].es.open)
             /\ \A w \in Workers : InRun(w, r)' => Within(w, Committed(runs[r]))'
  <2>1. CASE Going(runs[r]) /\ runs'[r].es = runs[r].es
    <3>1. Committed(runs[r])' = Committed(runs[r])
      BY <2>1 DEF Committed
    <3>2. /\ runs[r].es # NoState => InBounds(runs[r].es.done, runs[r].es.open)
          /\ \A w \in Workers : InRun(w, r) => Within(w, Committed(runs[r]))
      BY <2>1 DEF StrayInvariant, RunPaid
    <3>3. ASSUME NEW w \in Workers, InRun(w, r)' PROVE Within(w, Committed(runs[r]))'
      BY <1>0, <1>1, <1>2, <3>1, <3>2, <3>3 DEF Within
    <3> QED
      BY <2>1, <3>2, <3>3
  <2>2. CASE runs'[r].es = NoState /\ \A w \in Workers : ~Drives(w, r)'
    BY <2>2 DEF InRun
  <2> QED
    BY <1>5, <2>1, <2>2 DEF Stays
<1>6. ASSUME NEW w \in Workers, NEW r \in Runs, runs'[r].owner = w, Walks(w, r)'
      PROVE  \/ worker'[w].strayed = 0 /\ Leads(w, r)'
             \/ ~Going(runs'[r]) /\ PaidFor(w)'
  <2>1. CASE runs[r].owner = w
    <3>1. (worker[w].strayed = 0 /\ Leads(w, r)) \/ (~Going(runs[r]) /\ PaidFor(w))
      BY <1>1, <1>6, <2>1 DEF StrayInvariant, Leased
    <3>2. Drives(w, r)'
      BY <1>6 DEF Walks, Drives
    <3>3. Going(runs'[r]) => Going(runs[r])
      BY <3>2 DEF Stays
    <3> QED
      BY <1>1, <1>3, <1>4, <1>6, <3>1, <3>3
  <2>2. CASE ~Going(runs'[r]) /\ PaidFor(w)
    BY <1>4, <1>6, <2>2
  <2> QED
    BY <1>6, <2>1, <2>2 DEF Stays
<1>7. ASSUME NEW w \in Workers, NEW z \in Workers, worker'[z].pc = "put",
             worker'[z].doc.owner = w, Walks(w, worker[z].run)'
      PROVE  PaidFor(w)'
  <2>0. PICK r \in Runs : r = worker[z].run
    BY <1>0
  <2>1. /\ worker'[z].run = r /\ Walks(w, r) /\ Walks(w, r)'
        /\ \/ worker[z].pc = "put" /\ worker'[z].doc = worker[z].doc
           \/ worker[z].pc = "final" /\ worker'[z].doc = runs[r]
    BY <1>1, <1>7, <2>0 DEF Rests, Walks
  <2>2. CASE worker[z].pc = "put" /\ worker'[z].doc = worker[z].doc
    BY <1>4, <1>7, <2>0, <2>1, <2>2 DEF StrayInvariant, Handed
  <2>3. CASE worker[z].pc = "final" /\ worker'[z].doc = runs[r]
    <3>1. (worker[w].strayed = 0 /\ Leads(w, r)) \/ PaidFor(w)
      BY <1>7, <2>1, <2>3 DEF StrayInvariant, Leased
    <3>2. ASSUME worker[w].strayed = 0, Leads(w, r) PROVE PaidFor(w)
      <4>1. /\ worker[z].done \in LastNodes
            /\ \A e \in LastNodes : worker[w].done <= e
        BY <2>1, <2>3 DEF StrayInvariant, PassPaid, InBounds, UngatedInvariant, PassOK, Walks
      <4>2. worker[z].done <= worker[w].done + used.faults
        BY <1>0, <2>0, <2>3, <3>2 DEF Leads, InRun, Drives, Within
      <4>3. worker[w].strayed + (worker[z].done - worker[w].done) <= used.faults
        BY <1>0, <3>2, <4>1, <4>2
      <4> QED
        BY <4>1, <4>3 DEF PaidFor
    <3> QED
      BY <1>4, <2>1, <3>1, <3>2
  <2> QED
    BY <2>1, <2>2, <2>3
<1>8. ASSUME NEW w \in Workers PROVE PassPaid(w)'
  <2>1. PassPaid(w)
    BY DEF StrayInvariant
  <2>2. CASE worker'[w].pc = "idle"
    BY <1>0, <2>1, <2>2 DEF PassPaid, Rests
  <2>3. CASE worker'[w].pc # "idle"
    <3>1. worker'[w].pc = "load" => worker'[w].doc.owner = w
      BY <2>1, <2>3 DEF PassPaid, Rests
    <3>2. InBounds(worker[w].done, worker[w].open)'
      BY <2>1, <2>3 DEF PassPaid, Rests, InBounds, LastNodes
    <3>3. worker'[w].strayed = worker[w].strayed /\ worker[w].strayed <= 1 + used.faults
      BY <2>1, <2>3 DEF PassPaid, Rests
    <3>4. ASSUME worker'[w].pc \in {"load", "bfs"} PROVE worker'[w].strayed <= used'.faults
      <4>1. PICK r \in Runs : r = worker'[w].run
        BY <1>0
      <4>2. Walks(w, r)
        BY <1>1, <3>4, <4>1 DEF Walks
      <4>3. worker[w].pc \in {"load", "bfs"} \/ used'.faults = used.faults + 1
        BY <2>3, <3>4, <4>2 DEF Rests, Walks, UngatedInvariant, PassOK
      <4> QED
        BY <1>0, <2>1, <3>3, <4>3 DEF PassPaid
    <3> QED
      BY <1>0, <3>1, <3>2, <3>3, <3>4 DEF PassPaid
  <2> QED
    BY <2>2, <2>3
<1>9. /\ \A r \in Runs : RunPaid(r)'
      /\ \A w \in Workers : Leased(w)' /\ Handed(w)'
  <2>1. \A r \in Runs : RunPaid(r)'
    BY <1>5 DEF RunPaid, InBounds, LastNodes, Going
  <2>2. \A w \in Workers : Leased(w)'
    BY <1>6 DEF Leased, Going
  <2>3. \A w \in Workers : Handed(w)'
    BY <1>7 DEF Handed
  <2> QED
    BY <2>1, <2>2, <2>3
<1>10. \A r \in Runs : runs'[r].status # "pending_approval"
  BY DEF Stays
<1> QED
  BY <1>8, <1>9, <1>10 DEF StrayInvariant

-----------------------------------------------------------------------------
(***************************************************************************)
(* The steps.                                                              *)
(***************************************************************************)
\* A run whose write leaves a status nobody claims, or the status and the
\* checkpoint there were.
LEMMA EndStays ==
    ASSUME StrayInvariant, NEW r \in Runs,
           \/ runs'[r].status \in Terminal
           \/ runs'[r].status = runs[r].status /\ runs'[r].es = runs[r].es,
           runs'[r].owner \in {runs[r].owner, NoWorker}
    PROVE  Stays(r)
<1>1. runs'[r].status # "pending_approval"
  BY DEF StrayInvariant, Terminal
<1>2. Going(runs'[r]) => Going(runs[r]) /\ runs'[r].es = runs[r].es
  BY DEF Terminal, Going
<1>3. \A w \in Workers : runs'[r].owner = w => runs[r].owner = w
  BY NoWorkerAssumption
<1> QED
  BY <1>1, <1>2, <1>3 DEF Stays

LEMMA UnmovedRests ==
    ASSUME NEW w \in Workers, worker'[w] = worker[w]
    PROVE  Rests(w)
BY DEF Rests, Walks

\* The trigger, the clock, the heartbeat and the sweeps.
LEMMA SurroundingsStray ==
    ASSUME TypeOK, TypeOK', UngatedInvariant, StrayInvariant,
           \/ \E r \in Runs : Dispatch(r) \/ LeaseLapses(r) \/ OrphanSweep(r)
           \/ \E w \in Workers : HeartbeatExtends(w)
           \/ BootSweep
    PROVE  StrayInvariant'
<1>1. UNCHANGED <<worker, request>> /\ used'.faults = used.faults
  BY DEF Dispatch, LeaseLapses, OrphanSweep, HeartbeatExtends, BootSweep, TypeOK
<1>2. ASSUME NEW r \in Runs PROVE Stays(r)
  <2> DEFINE Same == runs'[r].status = runs[r].status /\ runs'[r].es = runs[r].es
             Ended == runs'[r].status \in Terminal
             Owned == runs'[r].owner = runs[r].owner
  <2>1. ASSUME NEW s \in Runs, Dispatch(s) PROVE Stays(r)
    <3>1. CASE r = s
      <4>1. /\ runs'[r].status = "queued" /\ runs'[r].owner = NoWorker
            /\ runs'[r].es = NoState
        BY <2>1, <3>1 DEF Dispatch, FreshRun, NoRun, TypeOK
      <4>2. \A w \in Workers : ~Drives(w, r)'
        BY <1>1, <2>1, <3>1 DEF Dispatch, Drives, UngatedInvariant
      <4> QED
        BY <4>1, <4>2, NoWorkerAssumption DEF Stays
    <3>2. CASE r # s
      BY <2>1, <3>2, EndStays DEF Dispatch, TypeOK
    <3> QED
      BY <3>1, <3>2
  <2>2. CASE ~\E s \in Runs : Dispatch(s)
    <3>1. /\ Abandoned(runs[r]).status = "error"
          /\ Abandoned(runs[r]).owner = runs[r].owner
      BY DEF Abandoned, TypeOK, RunDocs
    <3>2. (Same \/ Ended) /\ Owned
      <4>1. ASSUME NEW s \in Runs, LeaseLapses(s) PROVE Same /\ Owned
        BY <4>1 DEF LeaseLapses, TypeOK, RunDocs
      <4>2. ASSUME NEW s \in Runs, OrphanSweep(s) PROVE (Same \/ Ended) /\ Owned
        BY <3>1, <4>2 DEF OrphanSweep, TypeOK, Terminal
      <4>3. ASSUME NEW w \in Workers, HeartbeatExtends(w) PROVE Same /\ Owned
        BY <4>3 DEF HeartbeatExtends, ExtendLease, TypeOK, RunDocs, WorkerStates
      <4>4. CASE BootSweep
        BY <3>1, <4>4 DEF BootSweep, Terminal
      <4> QED
        BY <2>2, <4>1, <4>2, <4>3, <4>4
    <3> QED
      BY <3>2, EndStays
  <2> QED
    BY <2>1, <2>2
<1>3. \A w \in Workers : Rests(w)
  BY <1>1, UnmovedRests
<1>4. used.faults <= used'.faults
  BY <1>1, StrayTypes
<1>5. \A q \in ApprovalReqs : request'[q].pc = "new"
  BY <1>1 DEF StrayInvariant
<1> QED
  BY <1>2, <1>3, <1>4, <1>5, StillPaid

\* A claim starts the worker at the checkpoint, which leads by what failed.
LEMMA ClaimStray ==
    ASSUME TypeOK, TypeOK', UngatedInvariant, StrayInvariant,
           NEW w \in Workers, NEW r \in Runs, Claim(w, r)
    PROVE  StrayInvariant'
<1> DEFINE d == ClaimLease(runs[r], w)
           v == worker'[w]
<1>1. /\ d.es = runs[r].es /\ d.status = "running" /\ d.owner = w
      /\ Going(runs[r]) /\ worker[w].pc = "idle"
  BY DEF Claim, Claimable, ClaimLease, TypeOK, RunDocs, Going
<1>2. /\ runs'[r] = d /\ \A s \in Runs : s # r => runs'[s] = runs[s]
      /\ UNCHANGED <<request, used>>
      /\ \A x \in Workers : x # w => worker'[x] = worker[x]
  BY DEF Claim, TypeOK
<1>3. /\ v.pc = "load" /\ v.run = r /\ v.doc = d /\ v.strayed = 0
      /\ v.done = Committed(runs[r])
      /\ v.open = IF d.es # NoState THEN d.es.open ELSE TRUE
  BY <1>1 DEF Claim, TypeOK, IdleWorker, Committed
<1> HIDE DEF d, v
<1>4. /\ used.faults \in Nat /\ LastNodes \subseteq Nat /\ Committed(runs[r]) \in Nat
      /\ \A x \in Workers : worker[x].done \in Nat
  BY StrayTypes
<1>5. RunPaid(r) /\ \A x \in Workers : Leased(x) /\ Handed(x) /\ PassPaid(x)
  BY DEF StrayInvariant
<1>6. InBounds(v.done, v.open)
  <2>1. CASE d.es = NoState
    <3>1. v.done = 0 /\ v.open = TRUE
      BY <1>1, <1>3, <2>1 DEF Committed
    <3>2. \A e \in LastNodes : e \in Nat /\ 0 < e
      BY NAssumption, NodeSetsAssumption DEF LastNodes, Nodes
    <3> QED
      BY <3>1, <3>2 DEF InBounds
  <2>2. CASE d.es # NoState
    BY <1>1, <1>3, <1>5, <2>2 DEF RunPaid, Committed
  <2> QED
    BY <2>1, <2>2
<1>7. \A x \in Workers : InRun(x, r) => x # w /\ Within(x, Committed(runs[r]))
  BY <1>1, <1>5 DEF RunPaid, InRun, Drives
<1>8. ASSUME NEW x \in Workers, InRun(x, r)'
      PROVE  Within(x, Committed(runs[r]))'
  <2>0. Committed(runs[r])' = Committed(runs[r])
    BY <1>1, <1>2 DEF Committed
  <2>1. CASE x = w
    BY <1>2, <1>3, <1>4, <2>0, <2>1 DEF Within, v
  <2>2. CASE x # w
    BY <1>2, <1>7, <1>8, <2>0, <2>2 DEF Within, InRun, Drives
  <2> QED
    BY <2>1, <2>2
<1>9. Committed(runs[r])' = worker'[w].done
  BY <1>1, <1>2, <1>3 DEF Committed, v
<1>10. \A x \in Workers, s \in Runs : x # w =>
         /\ InRun(x, s)' <=> InRun(x, s)
         /\ Walks(x, s)' <=> Walks(x, s)
         /\ Drives(x, s)' <=> Drives(x, s)
         /\ PaidFor(x)' <=> PaidFor(x)
  BY <1>2 DEF InRun, Drives, Walks, PaidFor, LastNodes
<1>11. ASSUME NEW s \in Runs PROVE RunPaid(s)'
  <2>1. CASE s = r
    <3>1. d.es # NoState => InBounds(d.es.done, d.es.open)
      BY <1>1, <1>5 DEF RunPaid
    <3> QED
      BY <1>2, <1>8, <2>1, <3>1 DEF RunPaid, InBounds, LastNodes
  <2>2. CASE s # r
    <3>1. runs'[s] = runs[s] /\ Committed(runs[s])' = Committed(runs[s]) /\ RunPaid(s)
      BY <1>2, <2>2 DEF StrayInvariant, Committed
    <3>2. ASSUME NEW x \in Workers, InRun(x, s)' PROVE x # w
      BY <1>3, <2>2, <3>2 DEF InRun, Drives, v
    <3>3. \A x \in Workers : InRun(x, s)' /\ Going(runs[s]) => Within(x, Committed(runs[s]))'
      BY <1>2, <1>10, <3>1, <3>2 DEF RunPaid, Within
    <3> QED
      BY <3>1, <3>3 DEF RunPaid, InBounds, LastNodes, Going
  <2> QED
    BY <2>1, <2>2
<1>12. ASSUME NEW x \in Workers, NEW s \in Runs, runs'[s].owner = x, Walks(x, s)'
       PROVE  \/ worker'[x].strayed = 0 /\ Leads(x, s)'
              \/ ~Going(runs'[s]) /\ PaidFor(x)'
  <2>1. CASE x = w
    <3>1. s = r
      BY <1>3, <1>12, <2>1 DEF Walks, v
    <3>2. Leads(w, r)'
      BY <1>8, <1>9 DEF Leads, Within
    <3> QED
      BY <1>3, <2>1, <3>1, <3>2 DEF v
  <2>2. CASE x # w
    <3>1. s # r /\ runs'[s] = runs[s] /\ runs[s].owner = x /\ Walks(x, s)
      BY <1>1, <1>2, <1>10, <1>12, <2>2
    <3>2. (worker[x].strayed = 0 /\ Leads(x, s)) \/ (~Going(runs[s]) /\ PaidFor(x))
      BY <1>5, <3>1 DEF Leased
    <3>3. ASSUME Leads(x, s) PROVE Leads(x, s)'
      <4>1. \A y \in Workers : InRun(y, s)' => y # w
        BY <1>3, <3>1 DEF InRun, Drives, v
      <4> QED
        BY <1>2, <1>10, <2>2, <3>3, <4>1 DEF Leads, Within
    <3> QED
      BY <1>2, <1>10, <2>2, <3>1, <3>2, <3>3
  <2> QED
    BY <2>1, <2>2
<1>13. ASSUME NEW x \in Workers, NEW z \in Workers, worker'[z].pc = "put",
              worker'[z].doc.owner = x, Walks(x, worker[z].run)'
       PROVE  PaidFor(x)'
  <2>1. z # w /\ worker'[z] = worker[z]
    BY <1>2, <1>3, <1>13 DEF v
  <2>2. CASE x # w
    <3>1. PICK s \in Runs : s = worker[z].run
      BY StrayTypes
    <3>2. Walks(x, s)
      BY <1>10, <1>13, <2>1, <2>2, <3>1 DEF Walks
    <3> QED
      BY <1>5, <1>10, <1>13, <2>1, <2>2, <3>1, <3>2 DEF Handed
  <2>3. CASE x = w
    <3>1. worker[z].run = r /\ InRun(z, r)
      BY <1>3, <1>13, <2>1, <2>3 DEF Walks, InRun, Drives, v
    <3>2. worker[z].done \in LastNodes
      BY <1>5, <1>13, <2>1 DEF PassPaid, InBounds, UngatedInvariant, PassOK
    <3>3. worker[z].done <= v.done + used.faults
      BY <1>3, <1>4, <1>7, <1>13, <2>1, <3>1 DEF Within
    <3>4. v.done <= worker[z].done
      BY <1>6, <3>2 DEF InBounds
    <3>5. v.strayed + (worker[z].done - v.done) <= used'.faults
      BY <1>2, <1>3, <1>4, <3>2, <3>3, <3>4
    <3> QED
      BY <2>3, <3>2, <3>4, <3>5 DEF PaidFor, v, LastNodes
  <2> QED
    BY <2>2, <2>3
<1>14. ASSUME NEW x \in Workers PROVE PassPaid(x)'
  <2>1. CASE x = w
    <3>1. InBounds(worker[w].done, worker[w].open)'
      BY <1>6 DEF InBounds, LastNodes, v
    <3>2. used'.faults = used.faults /\ 0 <= used.faults /\ 0 <= 1 + used.faults
      BY <1>2, <1>4
    <3> QED
      BY <1>1, <1>3, <2>1, <3>1, <3>2 DEF PassPaid, v
  <2>2. CASE x # w
    BY <1>2, <1>5, <2>2 DEF PassPaid, InBounds, LastNodes
  <2> QED
    BY <2>1, <2>2
<1>15. \A x \in Workers : Leased(x)'
  BY <1>12 DEF Leased, Going
<1>16. \A x \in Workers : Handed(x)'
  <2>1. \A z \in Workers : worker'[z].pc = "put" => worker'[z].run = worker[z].run
    BY <1>2, <1>3 DEF v
  <2> QED
    BY <1>13, <2>1 DEF Handed, Walks
<1>17. \A s \in Runs : runs'[s].status # "pending_approval"
  BY <1>1, <1>2 DEF StrayInvariant
<1>18. \A q \in ApprovalReqs : request'[q].pc = "new"
  BY <1>2 DEF StrayInvariant
<1> QED
  BY <1>11, <1>14, <1>15, <1>16, <1>17, <1>18 DEF StrayInvariant

\* The steps of a worker that write nothing to the store and execute nothing.
LEMMA QuietStray ==
    ASSUME TypeOK, TypeOK', UngatedInvariant, StrayInvariant, NEW w \in Workers,
           \/ LoadWorkflow(w) \/ LeaveLoop(w) \/ CheckpointFails(w)
           \/ Checkpoint(w) /\ ~LeaseHeld(Doc(w), w)
           \/ Reread(w) \/ RereadFails(w) \/ ReadFinal(w) \/ FinalFails(w)
           \/ GiveUp(w) \/ HeartbeatCancels(w) \/ Crash(w)
    PROVE  StrayInvariant'
<1>1. worker[w] \in WorkerStates /\ used.faults \in Nat
  BY StrayTypes DEF TypeOK
<1>2. /\ UNCHANGED <<runs, request>>
      /\ \A x \in Workers : x # w => worker'[x] = worker[x]
  BY DEF LoadWorkflow, LeaveLoop, CheckpointFails, Checkpoint, Reread, RereadFails, ReadFinal,
     FinalFails, GiveUp, HeartbeatCancels, Crash, Goto, TypeOK
<1>3. Rests(w) /\ used.faults <= used'.faults
  <2>1. CASE Crash(w) \/ (Checkpoint(w) /\ ~LeaseHeld(Doc(w), w))
    <3>1. worker'[w] = IdleWorker /\ used'.faults = used.faults
      BY <2>1 DEF Crash, Checkpoint, TypeOK
    <3> QED
      BY <1>1, <3>1 DEF IdleWorker, Rests
  <2>2. CASE LoadWorkflow(w) \/ LeaveLoop(w) \/ Reread(w) \/ HeartbeatCancels(w)
    <3>1. /\ used' = used
          /\ worker'[w].run = worker[w].run /\ worker'[w].done = worker[w].done
          /\ worker'[w].open = worker[w].open /\ worker'[w].strayed = worker[w].strayed
          /\ \/ worker[w].pc = "load" /\ worker'[w].pc = "bfs"
             \/ worker[w].pc = "bfs" /\ worker'[w].pc = "reread"
             \/ worker[w].pc = "reread" /\ worker'[w].pc \in {"release", "final"}
             \/ /\ worker'[w].pc = worker[w].pc /\ worker'[w].doc = worker[w].doc
                /\ worker[w].pc # "idle"
      <4>1. CASE LoadWorkflow(w)
        BY <1>1, <4>1 DEF LoadWorkflow, TypeOK, WorkerStates
      <4>2. CASE LeaveLoop(w)
        BY <1>1, <4>2 DEF LeaveLoop, Goto, TypeOK, WorkerStates
      <4>3. CASE Reread(w)
        BY <1>1, <4>3 DEF Reread, Goto, TypeOK, WorkerStates
      <4>4. CASE HeartbeatCancels(w)
        BY <1>1, <4>4 DEF HeartbeatCancels, Executing, TypeOK, WorkerStates
      <4> QED
        BY <2>2, <4>1, <4>2, <4>3, <4>4
    <3> QED
      BY <1>1, <3>1 DEF Rests, Walks
  <2>3. CASE CheckpointFails(w) \/ RereadFails(w) \/ FinalFails(w)
    <3>1. /\ used'.faults = used.faults + 1
          /\ worker'[w].run = worker[w].run /\ worker'[w].done = worker[w].done
          /\ worker'[w].open = worker[w].open /\ worker'[w].strayed = worker[w].strayed
          /\ \/ worker[w].pc = "ran" /\ worker'[w].pc = "bfs"
             \/ worker[w].pc = "reread" /\ worker'[w].pc = "final"
             \/ worker[w].pc \in {"final", "put"} /\ worker'[w].pc = "release"
      <4>0. Fault => used'.faults = used.faults + 1
        BY DEF Fault, TypeOK
      <4>1. CASE CheckpointFails(w)
        BY <1>1, <4>0, <4>1 DEF CheckpointFails, Goto, TypeOK, WorkerStates
      <4>2. CASE RereadFails(w)
        BY <1>1, <4>0, <4>2 DEF RereadFails, Goto, TypeOK, WorkerStates
      <4>3. CASE FinalFails(w)
        BY <1>1, <4>0, <4>3 DEF FinalFails, TypeOK, WorkerStates
      <4> QED
        BY <2>3, <4>1, <4>2, <4>3
    <3> QED
      BY <1>1, <3>1 DEF Rests, Walks
  <2>4. CASE ReadFinal(w) \/ GiveUp(w)
    <3>1. /\ used' = used
          /\ worker'[w].run = worker[w].run /\ worker'[w].done = worker[w].done
          /\ worker'[w].open = worker[w].open /\ worker'[w].strayed = worker[w].strayed
          /\ \/ /\ worker[w].pc = "final" /\ worker'[w].pc = "put"
                /\ worker'[w].doc = runs[worker[w].run]
             \/ worker[w].pc # "idle" /\ worker'[w].pc = "release"
      <4>1. CASE ReadFinal(w)
        BY <1>1, <4>1 DEF ReadFinal, Doc, TypeOK, WorkerStates
      <4>2. CASE GiveUp(w)
        BY <1>1, <4>2 DEF GiveUp, Executing, TypeOK, WorkerStates
      <4> QED
        BY <2>4, <4>1, <4>2
    <3> QED
      BY <1>1, <3>1 DEF Rests, Walks
  <2> QED
    BY <2>1, <2>2, <2>3, <2>4
<1>4. \A x \in Workers : Rests(x)
  BY <1>2, <1>3, UnmovedRests
<1>5. \A r \in Runs : Stays(r)
  BY <1>2, EndStays
<1>6. \A q \in ApprovalReqs : request'[q].pc = "new"
  BY <1>2 DEF StrayInvariant
<1> QED
  BY <1>3, <1>4, <1>5, <1>6, StillPaid

\* Without the lease a node strays further; in any case the end is nearer by it.
LEMMA RunNodeStray ==
    ASSUME TypeOK, TypeOK', UngatedInvariant, StrayInvariant, NEW w \in Workers, RunNode(w)
    PROVE  StrayInvariant'
<1>0. PICK r \in Runs : r = worker[w].run
  BY StrayTypes
<1>1. /\ used.faults \in Nat /\ LastNodes \subseteq Nat /\ N \in Nat
      /\ \A x \in Workers : worker[x].done \in Nat /\ worker[x].strayed \in Nat
      /\ \A s \in Runs : Committed(runs[s]) \in Nat
      /\ worker'[w].done \in 0 .. N
  BY StrayTypes, NAssumption DEF TypeOK, WorkerStates
<1>2. /\ UNCHANGED <<runs, request, used>>
      /\ \A x \in Workers : x # w => worker'[x] = worker[x]
  BY DEF RunNode, TypeOK
<1>3. /\ worker[w].pc = "bfs" /\ worker[w].open
      /\ worker'[w].pc = "ran" /\ worker'[w].run = r
      /\ worker'[w].done = worker[w].done + 1
      /\ worker'[w].open <=> (worker'[w].done \notin FailNodes /\ worker'[w].done < N)
      /\ worker'[w].strayed = IF runs[r].owner = w THEN worker[w].strayed
                              ELSE worker[w].strayed + 1
  <2> DEFINE n == worker[w].done + 1
  <2>1. /\ worker[w].pc = "bfs" /\ worker[w].open
        /\ worker'[w] = [worker[w] EXCEPT
               !.pc = "ran", !.done = n, !.pre = "none",
               !.open = n \notin FailNodes /\ n < N,
               !.failed = worker[w].failed \/ n \in FailNodes,
               !.strayed = IF LeaseHeld(runs[r], w) THEN worker[w].strayed
                           ELSE worker[w].strayed + 1]
    BY <1>0 DEF RunNode, AtNode, Head, TypeOK
  <2>2. PICK v \in WorkerStates : v = worker[w]
    BY DEF TypeOK
  <2>3. worker'[w].pc = "ran" /\ worker'[w].run = v.run /\ worker'[w].done = n
    BY <2>1, <2>2 DEF WorkerStates
  <2>4. worker'[w].open <=> (n \notin FailNodes /\ n < N)
    BY <2>1, <2>2 DEF WorkerStates
  <2>5. worker'[w].strayed = IF LeaseHeld(runs[r], w) THEN v.strayed ELSE v.strayed + 1
    <3> HIDE DEF n
    <3> QED
      BY <1>0, <2>1, <2>2 DEF WorkerStates
  <2>6. LeaseHeld(runs[r], w) <=> runs[r].owner = w
    BY DEF LeaseHeld
  <2> QED
    BY <1>0, <2>1, <2>2, <2>3, <2>4, <2>5, <2>6
<1>4. PassPaid(w) /\ Leased(w) /\ Handed(w) /\ Walks(w, r) /\ InRun(w, r)
  BY <1>0, <1>3 DEF StrayInvariant, Walks, InRun, Drives
<1>5. \A e \in LastNodes : worker[w].done < e
  BY <1>3, <1>4 DEF PassPaid, InBounds
<1>6. InBounds(worker[w].done, worker[w].open)'
  <2>1. ASSUME NEW e \in LastNodes PROVE worker'[w].done <= e
    <3>1. worker[w].done \in Nat /\ e \in Nat /\ worker[w].done < e
      BY <1>1, <1>5
    <3> QED
      BY <1>3, <3>1
  <2>2. worker'[w].open => \A e \in LastNodes : worker'[w].done # e
    BY <1>1, <1>3 DEF LastNodes
  <2>3. ~worker'[w].open => worker'[w].done \in LastNodes
    BY <1>1, <1>3 DEF LastNodes
  <2> QED
    BY <1>1, <2>1, <2>2, <2>3 DEF InBounds, LastNodes
<1>7. \A x \in Workers, s \in Runs :
         (InRun(x, s)' <=> InRun(x, s)) /\ (Walks(x, s)' <=> Walks(x, s))
  BY <1>0, <1>2, <1>3 DEF InRun, Walks, Drives
<1>8. ASSUME NEW x \in Workers, NEW n \in Nat, Within(x, n)
      PROVE  worker'[x].done <= n + used.faults + (IF worker'[x].pc = "ran" THEN 1 ELSE 0)
  <2>1. CASE x = w
    BY <1>1, <1>3, <1>8, <2>1 DEF Within
  <2>2. CASE x # w
    BY <1>2, <1>8, <2>2 DEF Within
  <2> QED
    BY <2>1, <2>2
<1>9. ASSUME NEW x \in Workers, NEW s \in Runs, Walks(x, s), Leads(x, s) PROVE Leads(x, s)'
  <2>1. ASSUME NEW y \in Workers, InRun(y, s)' PROVE Within(y, worker[x].done)'
    <3>1. Within(y, worker[x].done)
      BY <1>7, <1>9, <2>1 DEF Leads
    <3>2. worker'[y].done <= worker[x].done + used.faults
                             + (IF worker'[y].pc = "ran" THEN 1 ELSE 0)
      BY <1>1, <1>8, <3>1
    <3>3. worker[x].done <= worker'[x].done /\ worker'[x].done \in Nat /\ worker'[y].done \in Nat
      BY <1>1, <1>2, <1>3
    <3> QED
      BY <1>1, <1>2, <3>2, <3>3 DEF Within
  <2> QED
    BY <2>1 DEF Leads
<1>10. ASSUME NEW x \in Workers, PaidFor(x) PROVE PaidFor(x)'
  <2>1. PICK e \in LastNodes :
          worker[x].done <= e /\ worker[x].strayed + (e - worker[x].done) <= used.faults
    BY <1>10 DEF PaidFor
  <2>2. worker'[x].done <= e /\ worker'[x].strayed + (e - worker'[x].done) <= used'.faults
    <3>1. CASE x = w
      BY <1>1, <1>2, <1>3, <1>5, <2>1, <3>1
    <3>2. CASE x # w
      BY <1>2, <2>1, <3>2
    <3> QED
      BY <3>1, <3>2
  <2> QED
    BY <2>2 DEF PaidFor, LastNodes
<1>11. ASSUME NEW s \in Runs PROVE RunPaid(s)'
  <2>1. RunPaid(s) /\ Committed(runs[s])' = Committed(runs[s])
    BY <1>2 DEF StrayInvariant, Committed
  <2>2. \A x \in Workers : InRun(x, s)' /\ Going(runs[s]) => Within(x, Committed(runs[s]))'
    BY <1>1, <1>2, <1>7, <1>8, <2>1 DEF RunPaid, Within
  <2> QED
    BY <1>2, <2>1, <2>2 DEF RunPaid, InBounds, LastNodes, Going
<1>12. ASSUME NEW x \in Workers, NEW s \in Runs, runs'[s].owner = x, Walks(x, s)'
       PROVE  \/ worker'[x].strayed = 0 /\ Leads(x, s)'
              \/ ~Going(runs'[s]) /\ PaidFor(x)'
  <2>1. runs[s].owner = x /\ Walks(x, s)
    BY <1>2, <1>7, <1>12
  <2>2. (worker[x].strayed = 0 /\ Leads(x, s)) \/ (~Going(runs[s]) /\ PaidFor(x))
    BY <2>1 DEF StrayInvariant, Leased
  <2>3. worker'[x].strayed = worker[x].strayed
    BY <1>0, <1>2, <1>3, <2>1 DEF Walks
  <2> QED
    BY <1>2, <1>9, <1>10, <2>1, <2>2, <2>3
<1>13. ASSUME NEW x \in Workers PROVE Handed(x)'
  <2> SUFFICES ASSUME NEW z \in Workers, worker'[z].pc = "put", worker'[z].doc.owner = x,
                      Walks(x, worker[z].run)'
               PROVE  PaidFor(x)'
    BY DEF Handed
  <2>0. PICK s \in Runs : s = worker[z].run
    BY StrayTypes
  <2>1. worker'[z] = worker[z]
    BY <1>2, <1>3
  <2>2. Walks(x, s)'
    BY <2>0, <2>1 DEF Walks
  <2> QED
    BY <1>7, <1>10, <2>0, <2>1, <2>2 DEF StrayInvariant, Handed
<1>14. ASSUME NEW x \in Workers PROVE PassPaid(x)'
  <2>1. CASE x = w
    <3>1. worker[w].strayed <= used.faults
      BY <1>3, <1>4 DEF PassPaid
    <3>2. worker'[w].strayed <= 1 + used'.faults
      BY <1>1, <1>2, <1>3, <3>1
    <3> QED
      BY <1>3, <1>6, <2>1, <3>2 DEF PassPaid
  <2>2. CASE x # w
    BY <1>2, <2>2 DEF StrayInvariant, PassPaid, InBounds, LastNodes
  <2> QED
    BY <2>1, <2>2
<1>15. \A x \in Workers : Leased(x)'
  BY <1>12 DEF Leased, Going
<1> QED
  BY <1>2, <1>11, <1>13, <1>14, <1>15 DEF StrayInvariant

\* A checkpoint is written by the owner, which leads the run by what failed.
LEMMA CheckpointStray ==
    ASSUME TypeOK, TypeOK', UngatedInvariant, StrayInvariant,
           NEW w \in Workers, Checkpoint(w), LeaseHeld(Doc(w), w)
    PROVE  StrayInvariant'
<1>0. PICK r \in Runs : r = worker[w].run
  BY StrayTypes
<1>1. /\ used.faults \in Nat /\ LastNodes \subseteq Nat
      /\ \A x \in Workers : worker[x].done \in Nat /\ worker[x].strayed \in Nat
      /\ worker[w] \in WorkerStates /\ runs[r] \in RunDocs
  BY StrayTypes DEF TypeOK
<1>2. /\ UNCHANGED <<request, used>>
      /\ \A x \in Workers : x # w => worker'[x] = worker[x]
      /\ \A s \in Runs : s # r => runs'[s] = runs[s]
  BY <1>0 DEF Checkpoint, Goto, TypeOK
<1>3. /\ worker[w].pc = "ran" /\ worker'[w].pc = "bfs" /\ worker'[w].run = r
      /\ worker'[w].done = worker[w].done /\ worker'[w].open = worker[w].open
      /\ worker'[w].strayed = worker[w].strayed
  BY <1>0, <1>1 DEF Checkpoint, Goto, TypeOK, WorkerStates
<1>4. /\ runs[r].owner = w /\ runs'[r].owner = w /\ runs'[r].status = runs[r].status
      /\ runs'[r].es = Snapshot(w, "none")
  BY <1>0, <1>1 DEF Checkpoint, CheckpointStep, TypeOK, RunDocs, LeaseHeld, Doc
<1>5. /\ Snapshot(w, "none") # NoState
      /\ Snapshot(w, "none").done = worker[w].done
      /\ Snapshot(w, "none").open = worker[w].open
  BY <1>1, NoStateAssumption DEF Snapshot, WorkerStates, ExecutionStates
<1>6. /\ PassPaid(w) /\ Walks(w, r) /\ InRun(w, r)
      /\ (worker[w].strayed = 0 /\ Leads(w, r)) \/ (~Going(runs[r]) /\ PaidFor(w))
  BY <1>0, <1>3, <1>4 DEF StrayInvariant, Leased, Walks, InRun, Drives
<1>7. \A x \in Workers, s \in Runs :
         (InRun(x, s)' <=> InRun(x, s)) /\ (Walks(x, s)' <=> Walks(x, s))
  BY <1>0, <1>2, <1>3 DEF InRun, Walks, Drives
<1>8. \A x \in Workers : PaidFor(x)' <=> PaidFor(x)
  BY <1>2, <1>3 DEF PaidFor, LastNodes
<1>9. \A x \in Workers, n \in Nat : x # w /\ Within(x, n) =>
         worker'[x].done <= n + used'.faults + (IF worker'[x].pc = "ran" THEN 1 ELSE 0)
  BY <1>2 DEF Within
<1>10. Leads(w, r) => Leads(w, r)'
  <2> SUFFICES ASSUME Leads(w, r), NEW x \in Workers, InRun(x, r)'
               PROVE  Within(x, worker[w].done)'
    BY DEF Leads
  <2>1. CASE x = w
    BY <1>1, <1>2, <1>3, <2>1 DEF Within
  <2>2. CASE x # w
    <3>1. Within(x, worker[w].done)
      BY <1>7 DEF Leads
    <3> QED
      BY <1>1, <1>3, <1>9, <2>2, <3>1 DEF Within
  <2> QED
    BY <2>1, <2>2
<1>11. ASSUME NEW s \in Runs PROVE RunPaid(s)'
  <2>1. CASE s = r
    <3> SUFFICES ASSUME Going(runs'[r]) PROVE RunPaid(r)'
      BY <2>1 DEF RunPaid, Going
    <3>1. Leads(w, r)'
      BY <1>4, <1>6, <1>10 DEF Going
    <3>2. Committed(runs[r])' = worker'[w].done
      BY <1>3, <1>4, <1>5 DEF Committed
    <3>3. InBounds(worker[w].done, worker[w].open)
      BY <1>3, <1>6 DEF PassPaid
    <3>4. InBounds(runs[r].es.done, runs[r].es.open)'
      BY <1>4, <1>5, <3>3 DEF InBounds, LastNodes
    <3> QED
      BY <3>1, <3>2, <3>4 DEF RunPaid, Leads, Within
  <2>2. CASE s # r
    <3>1. RunPaid(s) /\ runs'[s] = runs[s] /\ Committed(runs[s])' = Committed(runs[s])
      BY <1>2, <2>2 DEF StrayInvariant, Committed
    <3>2. \A x \in Workers : InRun(x, s)' => x # w /\ InRun(x, s)
      BY <1>3, <1>7, <2>2 DEF InRun, Drives
    <3>3. \A x \in Workers : InRun(x, s)' /\ Going(runs[s]) => Within(x, Committed(runs[s]))'
      BY <1>2, <3>1, <3>2 DEF RunPaid, Within
    <3> QED
      BY <3>1, <3>3 DEF RunPaid, InBounds, LastNodes, Going
  <2> QED
    BY <2>1, <2>2
<1>12. ASSUME NEW x \in Workers, NEW s \in Runs, runs'[s].owner = x, Walks(x, s)'
       PROVE  \/ worker'[x].strayed = 0 /\ Leads(x, s)'
              \/ ~Going(runs'[s]) /\ PaidFor(x)'
  <2>1. CASE s = r
    BY <1>3, <1>4, <1>6, <1>8, <1>10, <1>12, <2>1 DEF Going
  <2>2. CASE s # r
    <3>1. x # w /\ runs'[s] = runs[s]
      BY <1>2, <1>3, <1>12, <2>2 DEF Walks
    <3>2. (worker[x].strayed = 0 /\ Leads(x, s)) \/ (~Going(runs[s]) /\ PaidFor(x))
      BY <1>7, <1>12, <3>1 DEF StrayInvariant, Leased
    <3>3. \A y \in Workers : InRun(y, s)' => y # w /\ InRun(y, s)
      BY <1>3, <1>7, <2>2 DEF InRun, Drives
    <3>4. Leads(x, s) => Leads(x, s)'
      BY <1>2, <3>1, <3>3 DEF Leads, Within
    <3> QED
      BY <1>2, <1>8, <3>1, <3>2, <3>4
  <2> QED
    BY <2>1, <2>2
<1>13. ASSUME NEW x \in Workers PROVE Handed(x)'
  <2> SUFFICES ASSUME NEW z \in Workers, worker'[z].pc = "put", worker'[z].doc.owner = x,
                      Walks(x, worker[z].run)'
               PROVE  PaidFor(x)'
    BY DEF Handed
  <2>0. PICK s \in Runs : s = worker[z].run
    BY StrayTypes
  <2>1. worker'[z] = worker[z]
    BY <1>2, <1>3
  <2>2. Walks(x, s)'
    BY <2>0, <2>1 DEF Walks
  <2> QED
    BY <1>7, <1>8, <2>0, <2>1, <2>2 DEF StrayInvariant, Handed
<1>14. ASSUME NEW x \in Workers PROVE PassPaid(x)'
  <2>1. CASE x = w
    <3>1. worker[w].strayed <= used.faults
      <4>1. ASSUME PaidFor(w) PROVE worker[w].strayed <= used.faults
        <5>1. PICK e \in LastNodes : worker[w].done <= e
                 /\ worker[w].strayed + (e - worker[w].done) <= used.faults
          BY <4>1 DEF PaidFor
        <5>2. e \in Nat /\ worker[w].done \in Nat /\ worker[w].strayed \in Nat
          BY <1>1
        <5> QED
          BY <1>1, <5>1, <5>2
      <4> QED
        BY <1>1, <1>6, <4>1
    <3>2. InBounds(worker[w].done, worker[w].open)'
      BY <1>3, <1>6 DEF PassPaid, InBounds, LastNodes
    <3> QED
      BY <1>1, <1>2, <1>3, <2>1, <3>1, <3>2 DEF PassPaid
  <2>2. CASE x # w
    BY <1>2, <2>2 DEF StrayInvariant, PassPaid, InBounds, LastNodes
  <2> QED
    BY <2>1, <2>2
<1>15. \A x \in Workers : Leased(x)'
  BY <1>12 DEF Leased, Going
<1>16. \A s \in Runs : runs'[s].status # "pending_approval"
  BY <1>2, <1>4 DEF StrayInvariant
<1> QED
  BY <1>2, <1>11, <1>13, <1>14, <1>15, <1>16 DEF StrayInvariant

\* The writes of a whole document by a worker, and its release: they hand the
\* lease to nobody that may stray further.
LEMMA WritesStray ==
    ASSUME TypeOK, TypeOK', UngatedInvariant, StrayInvariant, NEW w \in Workers,
           WorkflowGone(w) \/ PutFinal(w) \/ Release(w)
    PROVE  StrayInvariant'
<1>0. PICK r \in Runs : r = worker[w].run
  BY StrayTypes
<1>1. /\ worker[w] \in WorkerStates /\ worker[w].doc \in RunDocs /\ PassPaid(w)
      /\ worker[w].pc \in {"load", "put", "release"}
      /\ used.faults \in Nat
  BY StrayTypes DEF TypeOK, WorkerStates, WorkflowGone, PutFinal, Release, StrayInvariant
<1>2. /\ UNCHANGED request
      /\ \A s \in Runs : s # r => runs'[s] = runs[s]
      /\ \A x \in Workers : x # w => worker'[x] = worker[x]
  BY <1>0 DEF TypeOK, WorkflowGone, PutFinal, Release
<1>3. Rests(w)
  <2>1. CASE WorkflowGone(w) \/ PutFinal(w)
    <3>1. /\ worker'[w].pc = "release" /\ worker'[w].run = worker[w].run
          /\ worker'[w].done = worker[w].done /\ worker'[w].open = worker[w].open
          /\ worker'[w].strayed = worker[w].strayed
      BY <1>1, <2>1 DEF TypeOK, WorkerStates, WorkflowGone, PutFinal
    <3> QED
      BY <1>1, <3>1 DEF Rests, Walks
  <2>2. CASE Release(w)
    <3>1. worker'[w].pc = "idle" /\ worker'[w].strayed = 0
      BY <2>2 DEF Release, IdleWorker, TypeOK
    <3> QED
      BY <3>1 DEF Rests
  <2> QED
    BY <2>1, <2>2
<1>4. ~Walks(w, r)'
  BY <1>1, <1>3 DEF Rests, Walks, TypeOK, WorkerStates, WorkflowGone, PutFinal, Release, IdleWorker
<1>5. \A x \in Workers : Rests(x)
  BY <1>2, <1>3, UnmovedRests
<1>6. used.faults <= used'.faults
  BY <1>1 DEF WorkflowGone, PutFinal, Release, Fault, TypeOK
<1>7. Stays(r)
  <2>1. CASE WorkflowGone(w)
    <3>1. runs'[r].status = "error" /\ runs'[r].owner = w
      BY <1>0, <1>1, <2>1 DEF WorkflowGone, TypeOK, RunDocs, PassPaid
    <3> QED
      BY <1>4, <3>1 DEF Stays, Going
  <2>2. CASE PutFinal(w)
    <3>1. /\ runs'[r].status \in {"error", "success"} /\ runs'[r].owner = worker[w].doc.owner
          /\ worker[w].pc = "put"
      BY <1>0, <1>1, <2>2 DEF PutFinal, TypeOK, RunDocs
    <3>2. ASSUME NEW x \in Workers, runs'[r].owner = x, Walks(x, r)' PROVE PaidFor(x)
      <4>1. Walks(x, r)
        BY <1>5, <3>2 DEF Rests, Walks
      <4> QED
        BY <1>0, <3>1, <3>2, <4>1 DEF StrayInvariant, Handed
    <3> QED
      BY <3>1, <3>2 DEF Stays, Going
  <2>3. CASE Release(w)
    <3>1. /\ runs'[r].status = runs[r].status /\ runs'[r].es = runs[r].es
          /\ runs'[r].owner \in {runs[r].owner, NoWorker}
      BY <1>0, <1>1, <2>3 DEF Release, ReleaseLease, TypeOK, RunDocs
    <3> QED
      BY <3>1, EndStays
  <2> QED
    BY <2>1, <2>2, <2>3
<1>8. \A s \in Runs : Stays(s)
  BY <1>2, <1>7, EndStays
<1>9. \A q \in ApprovalReqs : request'[q].pc = "new"
  BY <1>2 DEF StrayInvariant
<1> QED
  BY <1>5, <1>6, <1>8, <1>9, StillPaid

\* A cancel takes the lease away; no run shows a gate to decide on.
LEMMA RequestStray ==
    ASSUME TypeOK, TypeOK', UngatedInvariant, StrayInvariant, ReapReqs = {},
           NEW q \in Requests, RequestStep(q)
    PROVE  StrayInvariant'
<1> DEFINE s == request[q].run
<1>1. ~\E r \in Runs, decision \in Decisions : ApprovalRead(q, r, decision)
  BY DEF ApprovalRead, StrayInvariant
<1>2. q \in CancelReqs /\ q \notin ApprovalReqs
  BY <1>1, RequestsAssumption DEF RequestStep, ApprovalApply, ApprovalOrphans, Answers, StrayInvariant
<1>3. PICK r \in Runs : CancelWrite(q) \/ CancelRead(q, r)
  BY <1>2, RequestsAssumption DEF RequestStep, TypeOK, RequestStates
<1>4. /\ worker' = worker /\ used' = used
      /\ \A p \in Requests : p # q => request'[p] = request[p]
  BY <1>3 DEF CancelWrite, CancelRead, ReadRun, Answers, TypeOK
<1>5. \A p \in ApprovalReqs : request'[p].pc = "new"
  BY <1>2, <1>4 DEF StrayInvariant, Requests
<1>6. ASSUME NEW t \in Runs PROVE Stays(t)
  <2>1. CASE runs'[t] = runs[t]
    BY <2>1, EndStays
  <2>2. CASE CancelWrite(q) /\ t = s
    <3>1. runs'[t].status = "cancelled" /\ runs'[t].owner = NoWorker
      BY <2>2 DEF CancelWrite, TypeOK, RequestStates, RunDocs
    <3> QED
      BY <3>1, EndStays DEF Terminal
  <2> QED
    BY <1>3, <2>1, <2>2 DEF CancelWrite, CancelRead, ReadRun, TypeOK
<1>7. \A w \in Workers : Rests(w)
  BY <1>4, UnmovedRests
<1>8. used.faults <= used'.faults
  BY <1>4, StrayTypes
<1> QED
  BY <1>5, <1>6, <1>7, <1>8, StillPaid

LEMMA StepStray ==
    ASSUME Gates = {}, ReapReqs = {},
           TypeOK, TypeOK', UngatedInvariant, StrayInvariant, [Next]_vars
    PROVE  StrayInvariant'
<1>1. CASE UNCHANGED vars
  <2>1. \A r \in Runs : Stays(r)
    BY <1>1, EndStays DEF vars
  <2>2. \A w \in Workers : Rests(w)
    BY <1>1, UnmovedRests DEF vars
  <2>3. used.faults <= used'.faults
    BY <1>1, StrayTypes DEF vars
  <2> QED
    BY <1>1, <2>1, <2>2, <2>3, StillPaid DEF vars, StrayInvariant
<1>2. ASSUME NEW w \in Workers
      PROVE  /\ ~RefuseNode(w) /\ ~ReadAtGate(w)
             /\ ~MirrorGate(w) /\ ~YieldCheckpoint(w) /\ ~YieldRelease(w)
             /\ ~MirrorGateFails(w) /\ ~YieldCheckpointFails(w)
  BY DEF RefuseNode, ReadAtGate, MirrorGate, YieldCheckpoint, YieldRelease,
     MirrorGateFails, YieldCheckpointFails, UngatedInvariant, PassOK
<1>3. ASSUME NEW w \in Workers, WorkerStep(w) \/ WorkerFault(w) \/ HeartbeatCancels(w) \/ Crash(w)
      PROVE  StrayInvariant'
  BY <1>2, <1>3, QuietStray, RunNodeStray, CheckpointStray, WritesStray
     DEF WorkerStep, WorkerFault
<1> QED
  BY <1>1, <1>3, ClaimStray, SurroundingsStray, RequestStray DEF Next, Heartbeat

LEMMA InitiallyPaid == Init => StrayInvariant
<1> SUFFICES ASSUME Init PROVE StrayInvariant
  OBVIOUS
<1>1. /\ used.faults = 0
      /\ \A w \in Workers : worker[w].pc = "idle" /\ worker[w].strayed = 0
      /\ \A r \in Runs : runs[r].status = "absent"
      /\ \A q \in ApprovalReqs : request[q].pc = "new"
  BY DEF Init, IdleWorker, NoRun, NewRequest, Requests
<1> QED
  BY <1>1 DEF StrayInvariant, RunPaid, Going, Leased, Handed, PassPaid, Walks

-----------------------------------------------------------------------------
\* Without gates and reaper visits, no worker executes more nodes without
\* holding the lease than the one it was on and one for each database call that
\* failed (the checkpoint after each node, gated on the lease), whatever
\* crashes, lapses, is cancelled, deleted or swept meanwhile.
THEOREM StrayingIsBounded ==
    ASSUME Gates = {}, ReapReqs = {}
    PROVE  Spec => []StrayedBound
<1>1. RunInvariant /\ UngatedInvariant /\ [Next]_vars => UngatedInvariant'
  BY StepUngated
<1>2. RunInvariant /\ RunInvariant' /\ UngatedInvariant /\ StrayInvariant /\ [Next]_vars
        => StrayInvariant'
  BY StepStray DEF RunInvariant
<1>3. StrayInvariant => StrayedBound
  BY DEF StrayInvariant, PassPaid, StrayedBound
<1> QED
  BY <1>1, <1>2, <1>3, InitiallyUngated, InitiallyPaid, RunInvariantHolds, PTL DEF Spec
=============================================================================
