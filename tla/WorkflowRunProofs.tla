-------------------------- MODULE WorkflowRunProofs --------------------------
(***************************************************************************)
(* RunInvariant is inductive, for any number of runs, nodes, workers and   *)
(* requests and any bounds on the failures.                                *)
(***************************************************************************)
EXTENDS WorkflowRun, TLAPS

-----------------------------------------------------------------------------
(***************************************************************************)
(* The store's operations keep a document a document, and say what they do *)
(* to its execution_state.                                                 *)
(***************************************************************************)
LEMMA LeaseTypes ==
    ASSUME NEW d \in RunDocs, NEW w \in Workers
    PROVE  /\ ClaimLease(d, w) \in RunDocs /\ ClaimLease(d, w).es = d.es
           /\ ExtendLease(d) \in RunDocs /\ ExtendLease(d).es = d.es
           /\ ReleaseLease(d, w) \in RunDocs /\ ReleaseLease(d, w).es = d.es
<1> USE DEF RunDocs
<1>1. "running" \in Statuses
  BY DEF Statuses, NonTerminal
<1>3. ClaimLease(d, w) \in RunDocs /\ ClaimLease(d, w).es = d.es
  BY <1>1 DEF ClaimLease
<1>4. ExtendLease(d) \in RunDocs /\ ExtendLease(d).es = d.es
  BY DEF ExtendLease
<1>5. ReleaseLease(d, w) \in RunDocs /\ ReleaseLease(d, w).es = d.es
  BY DEF ReleaseLease
<1> QED
  BY <1>3, <1>4, <1>5

\* What an orphan sweep makes of a document is a document.
LEMMA AbandonTypes ==
    ASSUME NEW d \in RunDocs
    PROVE  Abandoned(d) \in RunDocs /\ Abandoned(d).es = d.es
<1>1. "error" \in Statuses /\ 0 \in 0 .. N
  BY NAssumption DEF Statuses, Terminal
<1> QED
  BY <1>1 DEF RunDocs, Abandoned

\* What a checkpoint makes of a document is a document.
LEMMA CheckpointTypes ==
    ASSUME NEW d \in RunDocs, NEW es \in ExecutionStates
    PROVE  /\ CheckpointStep(d, es) \in RunDocs
           /\ CheckpointStep(d, es).es = es
           /\ CheckpointYield(d, es) \in RunDocs
           /\ CheckpointYield(d, es).es = es
<1>1. "pending_approval" \in Statuses
  BY DEF Statuses, NonTerminal
<1> QED
  BY <1>1 DEF RunDocs, CheckpointStep, CheckpointYield

\* What a recorded decision makes of a document is a document.
LEMMA DecisionTypes ==
    ASSUME NEW d \in RunDocs, HasPending(d), NEW decision \in Decisions
    PROVE  /\ ApplyDecision(d, decision) \in RunDocs
           /\ ApplyDecision(d, decision).es = [d.es EXCEPT !.pending = decision]
           /\ d.es \in ExecutionStates
<1>1. d.es \in ExecutionStates
  BY DEF RunDocs, HasPending
<1>2. [d.es EXCEPT !.pending = decision] \in ExecutionStates
  BY <1>1 DEF ExecutionStates
<1>3. ApplyDecision(d, decision) =
        [d EXCEPT !.es = [d.es EXCEPT !.pending = decision],
                  !.status = "running", !.owner = NoWorker, !.lapsed = FALSE]
  BY DEF ApplyDecision, RunDocs
<1> QED
  BY <1>1, <1>2, <1>3 DEF RunDocs, Statuses, NonTerminal

\* A queued run is a document, safe to resume from.
LEMMA FreshTypes ==
    /\ NoRun \in RunDocs /\ NoRun.es = NoState
    /\ FreshRun \in RunDocs /\ FreshRun.es = NoState
<1>1. {"absent", "queued"} \subseteq Statuses
  BY DEF Statuses, NonTerminal
<1>2. 0 \in 0 .. N
  BY NAssumption
<1> QED
  BY <1>1, <1>2 DEF NoRun, FreshRun, RunDocs

\* A worker between two passes has its type, and nothing to answer for.
LEMMA IdleTypes ==
    /\ IdleWorker \in WorkerStates
    /\ NewRequest \in RequestStates
BY FreshTypes, RAssumption, NAssumption
   DEF IdleWorker, NewRequest, WorkerStates, RequestStates, WorkerPCs,
       Executing, Runs, Decisions

-----------------------------------------------------------------------------
(***************************************************************************)
(* History only grows, and a document that was safe to resume from stays   *)
(* so: the reason stale copies do no harm.                                 *)
(***************************************************************************)
Grows ==
    \A r \in Runs :
        /\ \A n \in Nodes : Settled(r, n) => Settled(r, n)'
        /\ granted[r] \subseteq granted'[r]

\* A step that leaves the history alone leaves every settled node settled.
LEMMA HistoryUnchanged ==
    ASSUME UNCHANGED ghosts
    PROVE  Grows
BY DEF ghosts, Grows, Settled

\* What a step leaves alone stays safe.
LEMMA Frame ==
    ASSUME RunInvariant, Grows
    PROVE  /\ \A r \in Runs : runs'[r].es = runs[r].es => DocOK(r, runs[r])'
           /\ \A w \in Workers : worker'[w] = worker[w] =>
                MemoryOK(w)' /\ DocOK(worker[w].run, worker[w].doc)'
           /\ \A q \in Requests : request'[q] = request[q] =>
                DocOK(request[q].run, request[q].doc)'
<1> USE NAssumption
<1>1. ASSUME NEW r \in Runs, runs'[r].es = runs[r].es
      PROVE  DocOK(r, runs[r])'
  BY <1>1 DEF RunInvariant, TypeOK, Grows, DocOK, RunDocs, ExecutionStates, Nodes
<1>2. ASSUME NEW w \in Workers, worker'[w] = worker[w]
      PROVE  MemoryOK(w)' /\ DocOK(worker[w].run, worker[w].doc)'
  <2>1. worker[w] \in WorkerStates
    BY DEF RunInvariant, TypeOK
  <2>2. MemoryOK(w)'
    BY <1>2, <2>1 DEF RunInvariant, Grows, MemoryOK, WorkerStates, Nodes, Head
  <2>3. DocOK(worker[w].run, worker[w].doc)'
    BY <1>2, <2>1
       DEF RunInvariant, Grows, DocOK, WorkerStates, RunDocs, ExecutionStates, Nodes
  <2> QED
    BY <2>2, <2>3
<1>3. ASSUME NEW q \in Requests, request'[q] = request[q]
      PROVE  DocOK(request[q].run, request[q].doc)'
  BY <1>3
     DEF RunInvariant, TypeOK, Grows, DocOK, RequestStates, RunDocs,
         ExecutionStates, Nodes
<1> QED
  BY <1>1, <1>2, <1>3

\* A write of a safe document to one run keeps every run safe.
LEMMA SafeWrite ==
    ASSUME RunInvariant, UNCHANGED ghosts, NEW r \in Runs, NEW e \in RunDocs,
           DocOK(r, e), runs' = [runs EXCEPT ![r] = e]
    PROVE  /\ runs' \in [Runs -> RunDocs]
           /\ \A s \in Runs : DocOK(s, runs[s])'
<1>1. Grows
  BY HistoryUnchanged
<1>2. ASSUME NEW s \in Runs PROVE DocOK(s, runs[s])'
  <2>1. CASE s = r
    BY <2>1 DEF RunInvariant, TypeOK, DocOK, Settled, ghosts
  <2>2. CASE s # r
    BY <1>1, <2>2, Frame DEF RunInvariant, TypeOK
  <2> QED
    BY <2>1, <2>2
<1> QED
  BY <1>2 DEF RunInvariant, TypeOK

\* A worker that goes on with the memory it has, holding a safe document.
LEMMA SameMemory ==
    ASSUME RunInvariant, UNCHANGED ghosts,
           NEW w \in Workers, worker[w].pc # "idle",
           NEW v \in WorkerStates, worker' = [worker EXCEPT ![w] = v],
           v.run = worker[w].run, v.done = worker[w].done,
           v.open = worker[w].open, v.pre = worker[w].pre,
           v.pc \in {"mirror", "yield", "yrelease"} => v.open,
           DocOK(v.run, v.doc)
    PROVE  /\ worker' \in [Workers -> WorkerStates]
           /\ \A x \in Workers :
                MemoryOK(x)' /\ DocOK(worker[x].run, worker[x].doc)'
<1>1. Grows
  BY HistoryUnchanged
<1>2. worker'[w] = v
  BY DEF RunInvariant, TypeOK
<1>3. MemoryOK(w)'
  BY <1>2 DEF RunInvariant, MemoryOK, Settled, Head, ghosts
<1>4. DocOK(worker[w].run, worker[w].doc)'
  BY <1>2 DEF DocOK, Settled, ghosts
<1>5. \A x \in Workers : x # w => worker'[x] = worker[x]
  BY DEF RunInvariant, TypeOK
<1> QED
  BY <1>1, <1>3, <1>4, <1>5, Frame DEF RunInvariant, TypeOK

\* A worker that ends its pass.
LEMMA PassEnds ==
    ASSUME RunInvariant, UNCHANGED ghosts, NEW w \in Workers,
           worker' = [worker EXCEPT ![w] = IdleWorker]
    PROVE  /\ worker' \in [Workers -> WorkerStates]
           /\ \A x \in Workers :
                MemoryOK(x)' /\ DocOK(worker[x].run, worker[x].doc)'
<1>1. Grows
  BY HistoryUnchanged
<1>2. worker'[w] = IdleWorker
  BY DEF RunInvariant, TypeOK
<1>3. MemoryOK(w)' /\ DocOK(worker[w].run, worker[w].doc)'
  BY <1>2, FreshTypes DEF IdleWorker, MemoryOK, DocOK
<1>4. \A x \in Workers : x # w => worker'[x] = worker[x]
  BY DEF RunInvariant, TypeOK
<1> QED
  BY <1>1, <1>3, <1>4, Frame, IdleTypes DEF RunInvariant, TypeOK

\* The parts of the invariant nothing but a node, a rejection or an approval
\* touches.
LEMMA Assemble ==
    ASSUME RunInvariant, UNCHANGED ghosts,
           runs' \in [Runs -> RunDocs],
           \A r \in Runs : DocOK(r, runs[r])',
           worker' \in [Workers -> WorkerStates],
           \A w \in Workers : MemoryOK(w)' /\ DocOK(worker[w].run, worker[w].doc)',
           request' \in [Requests -> RequestStates],
           \A q \in Requests : DocOK(request[q].run, request[q].doc)',
           used' \in [crashes: Nat, lapses: Nat, faults: Nat, boots: Nat]
    PROVE  RunInvariant'
BY DEF RunInvariant, TypeOK, GateRespected, ghosts

\* What a step that leaves a variable alone keeps of it.
LEMMA Unchanged ==
    ASSUME RunInvariant, UNCHANGED ghosts
    PROVE  /\ UNCHANGED runs =>
                /\ runs' \in [Runs -> RunDocs]
                /\ \A r \in Runs : DocOK(r, runs[r])'
           /\ UNCHANGED worker =>
                /\ worker' \in [Workers -> WorkerStates]
                /\ \A w \in Workers :
                     MemoryOK(w)' /\ DocOK(worker[w].run, worker[w].doc)'
           /\ UNCHANGED request =>
                /\ request' \in [Requests -> RequestStates]
                /\ \A q \in Requests : DocOK(request[q].run, request[q].doc)'
           /\ UNCHANGED used =>
                used' \in [crashes: Nat, lapses: Nat, faults: Nat, boots: Nat]
           /\ Fault =>
                used' \in [crashes: Nat, lapses: Nat, faults: Nat, boots: Nat]
<1>1. Grows
  BY HistoryUnchanged
<1>2. ASSUME UNCHANGED runs
      PROVE  runs' \in [Runs -> RunDocs] /\ \A r \in Runs : DocOK(r, runs[r])'
  BY <1>1, <1>2, Frame DEF RunInvariant, TypeOK
<1>3. ASSUME UNCHANGED worker
      PROVE  /\ worker' \in [Workers -> WorkerStates]
             /\ \A w \in Workers : MemoryOK(w)' /\ DocOK(worker[w].run, worker[w].doc)'
  BY <1>1, <1>3, Frame DEF RunInvariant, TypeOK
<1>4. ASSUME UNCHANGED request
      PROVE  /\ request' \in [Requests -> RequestStates]
             /\ \A q \in Requests : DocOK(request[q].run, request[q].doc)'
  BY <1>1, <1>4, Frame DEF RunInvariant, TypeOK
<1>5. ASSUME UNCHANGED used \/ Fault
      PROVE  used' \in [crashes: Nat, lapses: Nat, faults: Nat, boots: Nat]
  BY <1>5 DEF RunInvariant, TypeOK, Fault
<1> QED
  BY <1>2, <1>3, <1>4, <1>5

-----------------------------------------------------------------------------
\* The invariant holds before any run is queued.
LEMMA InitInvariant == Init => RunInvariant
<1> SUFFICES ASSUME Init PROVE RunInvariant
  OBVIOUS
<1>1. TypeOK
  BY FreshTypes, IdleTypes DEF Init, TypeOK
<1>2. GateRespected
  BY NodeSetsAssumption DEF Init, GateRespected
<1> QED
  BY <1>1, <1>2, FreshTypes
     DEF Init, RunInvariant, DocOK, MemoryOK, IdleWorker, NewRequest

\* A trigger queues a run: its document has no checkpoint to be wrong about.
LEMMA DispatchInvariant ==
    ASSUME RunInvariant, NEW r \in Runs, Dispatch(r)
    PROVE  RunInvariant'
<1>1. TypeOK'
  BY FreshTypes DEF RunInvariant, TypeOK, Dispatch, ghosts
<1> QED
  BY <1>1, FreshTypes
     DEF RunInvariant, TypeOK, Dispatch, ghosts, DocOK, MemoryOK, Settled,
         Head, GateRespected

\* A claim hydrates the memory of the worker from a safe document.
LEMMA ClaimInvariant ==
    ASSUME RunInvariant, NEW w \in Workers, NEW r \in Runs, Claim(w, r)
    PROVE  RunInvariant'
<1> DEFINE d == ClaimLease(runs[r], w)
<1>1. /\ d \in RunDocs
      /\ d.es = runs[r].es
      /\ d.es # NoState => d.es \in ExecutionStates
  BY LeaseTypes DEF RunInvariant, TypeOK, RunDocs
<1>2. PriorDecision(d.es) \in {"none"} \cup Decisions
  BY DEF PriorDecision
<1> DEFINE v == [IdleWorker EXCEPT
                    !.pc = "load", !.run = r, !.doc = d,
                    !.done = IF d.es # NoState THEN d.es.done ELSE 0,
                    !.open = IF d.es # NoState THEN d.es.open ELSE TRUE,
                    !.pre = PriorDecision(d.es)]
<1>3. /\ runs' = [runs EXCEPT ![r] = d]
      /\ worker' = [worker EXCEPT ![w] = v]
      /\ UNCHANGED <<request, effects, granted, refused, used>>
  BY DEF Claim, ghosts
<1>4. v \in WorkerStates
  <2>1. "load" \in WorkerPCs /\ 0 \in 0 .. N
    BY NAssumption DEF WorkerPCs
  <2>2. d.es # NoState => d.es.done \in 0 .. N /\ d.es.open \in BOOLEAN
    BY <1>1 DEF ExecutionStates
  <2> QED
    BY <1>1, <1>2, <2>1, <2>2, IdleTypes DEF WorkerStates
<1>5. TypeOK'
  BY <1>1, <1>3, <1>4 DEF RunInvariant, TypeOK
<1>6. Grows
  BY <1>3, HistoryUnchanged DEF ghosts
<1>7. \A s \in Runs : runs'[s].es = runs[s].es
  BY <1>1, <1>3 DEF RunInvariant, TypeOK
<1>8. MemoryOK(w)' /\ DocOK(worker[w].run, worker[w].doc)'
  <2>1. worker'[w] = v
    BY <1>3 DEF RunInvariant, TypeOK
  <2>2. v.pc = "load" /\ v.run = r /\ v.doc = d /\ v.pre = PriorDecision(d.es)
        /\ v.done = (IF d.es # NoState THEN d.es.done ELSE 0)
        /\ v.open = (IF d.es # NoState THEN d.es.open ELSE TRUE)
    BY DEF IdleWorker
  <2>3. DocOK(r, d)
    BY <1>1 DEF RunInvariant, DocOK
  <2>4. DocOK(worker[w].run, worker[w].doc)'
    BY <1>3, <2>1, <2>2, <2>3 DEF DocOK, Settled
  <2> HIDE DEF d, v
  <2>5. CASE d.es = NoState
    <3>1. v.done = 0 /\ v.open = TRUE /\ v.pre = "none"
      BY <2>2, <2>5 DEF PriorDecision
    <3>2. MemoryOK(w)'
      BY <2>1, <2>2, <3>1, NAssumption DEF MemoryOK, Head
    <3> QED
      BY <2>4, <3>2
  <2>6. CASE d.es # NoState
    <3>1. v.done = d.es.done /\ v.open = d.es.open
          /\ (v.pre = "approved" => d.es.pending = "approved")
      BY <2>2, <2>6 DEF PriorDecision
    <3>2. MemoryOK(w)'
      BY <1>3, <2>1, <2>2, <2>3, <2>6, <3>1 DEF DocOK, MemoryOK, Head, Settled
    <3> QED
      BY <2>4, <3>2
  <2> QED
    BY <2>5, <2>6
<1>9. GateRespected'
  BY <1>3 DEF RunInvariant, GateRespected
<1> QED
  BY <1>3, <1>5, <1>6, <1>7, <1>8, <1>9, Frame DEF RunInvariant, TypeOK

\* The steps by which a worker only moves on, drops or reads a document, or
\* notes an error or the cancelled context.
LEMMA WorkerMoves ==
    ASSUME RunInvariant, UNCHANGED <<runs, request, ghosts>>,
           UNCHANGED used \/ Fault,
           NEW w \in Workers, worker[w].pc # "idle",
           NEW v \in WorkerStates, worker' = [worker EXCEPT ![w] = v],
           v.run = worker[w].run, v.done = worker[w].done,
           v.open = worker[w].open, v.pre = worker[w].pre,
           v.pc \in {"mirror", "yield", "yrelease"} => v.open,
           v.doc = NoRun \/ v.doc = worker[w].doc \/ v.doc = Doc(w)
    PROVE  RunInvariant'
<1>1. worker[w].run \in Runs
  BY DEF RunInvariant, TypeOK, WorkerStates
<1>2. DocOK(v.run, v.doc)
  BY <1>1, FreshTypes DEF RunInvariant, Doc, DocOK
<1>3. /\ worker' \in [Workers -> WorkerStates]
      /\ \A x \in Workers :
           MemoryOK(x)' /\ DocOK(worker[x].run, worker[x].doc)'
  BY <1>2, SameMemory
<1> QED
  BY <1>3, Unchanged, Assemble

\* LoadWorkflow preserves the invariant.
LEMMA LoadWorkflowInvariant ==
    ASSUME RunInvariant, NEW w \in Workers, LoadWorkflow(w)
    PROVE  RunInvariant'
<1> DEFINE v == [worker[w] EXCEPT !.pc = "bfs", !.doc = NoRun]
<1>1. /\ worker[w] \in WorkerStates
      /\ worker[w].pc # "idle"
      /\ worker' = [worker EXCEPT ![w] = v]
      /\ UNCHANGED <<runs, request, ghosts>>
      /\ UNCHANGED used \/ Fault
  BY DEF RunInvariant, TypeOK, LoadWorkflow, Goto, Executing
<1>2. /\ v \in WorkerStates
      /\ v.run = worker[w].run /\ v.done = worker[w].done
      /\ v.open = worker[w].open /\ v.pre = worker[w].pre
      /\ v.pc \in {"mirror", "yield", "yrelease"} => v.open
      /\ v.doc = NoRun \/ v.doc = worker[w].doc \/ v.doc = Doc(w)
  BY <1>1, FreshTypes
     DEF LoadWorkflow, WorkerStates, WorkerPCs, Executing
<1> HIDE DEF v
<1> QED
  BY <1>1, <1>2, WorkerMoves

\* LeaveLoop preserves the invariant.
LEMMA LeaveLoopInvariant ==
    ASSUME RunInvariant, NEW w \in Workers, LeaveLoop(w)
    PROVE  RunInvariant'
<1> DEFINE v == [worker[w] EXCEPT !.pc = "reread"]
<1>1. /\ worker[w] \in WorkerStates
      /\ worker[w].pc # "idle"
      /\ worker' = [worker EXCEPT ![w] = v]
      /\ UNCHANGED <<runs, request, ghosts>>
      /\ UNCHANGED used \/ Fault
  BY DEF RunInvariant, TypeOK, LeaveLoop, Goto, Executing
<1>2. /\ v \in WorkerStates
      /\ v.run = worker[w].run /\ v.done = worker[w].done
      /\ v.open = worker[w].open /\ v.pre = worker[w].pre
      /\ v.pc \in {"mirror", "yield", "yrelease"} => v.open
      /\ v.doc = NoRun \/ v.doc = worker[w].doc \/ v.doc = Doc(w)
  BY <1>1
     DEF LeaveLoop, WorkerStates, WorkerPCs, Executing
<1> HIDE DEF v
<1> QED
  BY <1>1, <1>2, WorkerMoves

\* ReadAtGate preserves the invariant.
LEMMA ReadAtGateInvariant ==
    ASSUME RunInvariant, NEW w \in Workers, ReadAtGate(w)
    PROVE  RunInvariant'
<1> DEFINE v == [worker[w] EXCEPT !.pc = "mirror", !.doc = Doc(w)]
<1>1. /\ worker[w] \in WorkerStates
      /\ worker[w].pc # "idle"
      /\ worker' = [worker EXCEPT ![w] = v]
      /\ UNCHANGED <<runs, request, ghosts>>
      /\ UNCHANGED used \/ Fault
  BY DEF RunInvariant, TypeOK, ReadAtGate, Goto, AtNode, Executing
<1>2. /\ v \in WorkerStates
      /\ v.run = worker[w].run /\ v.done = worker[w].done
      /\ v.open = worker[w].open /\ v.pre = worker[w].pre
      /\ v.pc \in {"mirror", "yield", "yrelease"} => v.open
      /\ v.doc = NoRun \/ v.doc = worker[w].doc \/ v.doc = Doc(w)
  BY <1>1
     DEF ReadAtGate, RunInvariant, TypeOK, Doc, AtNode, WorkerStates, WorkerPCs, Executing
<1> HIDE DEF v
<1> QED
  BY <1>1, <1>2, WorkerMoves

\* MirrorGateFails preserves the invariant.
LEMMA MirrorGateFailsInvariant ==
    ASSUME RunInvariant, NEW w \in Workers, MirrorGateFails(w)
    PROVE  RunInvariant'
<1> DEFINE v == [worker[w] EXCEPT !.pc = "yield", !.doc = NoRun]
<1>1. /\ worker[w] \in WorkerStates
      /\ worker[w].pc # "idle"
      /\ worker' = [worker EXCEPT ![w] = v]
      /\ UNCHANGED <<runs, request, ghosts>>
      /\ UNCHANGED used \/ Fault
  BY DEF RunInvariant, TypeOK, MirrorGateFails, Goto, MemoryOK, Executing
<1>2. /\ v \in WorkerStates
      /\ v.run = worker[w].run /\ v.done = worker[w].done
      /\ v.open = worker[w].open /\ v.pre = worker[w].pre
      /\ v.pc \in {"mirror", "yield", "yrelease"} => v.open
      /\ v.doc = NoRun \/ v.doc = worker[w].doc \/ v.doc = Doc(w)
  BY <1>1, FreshTypes
     DEF MirrorGateFails, RunInvariant, MemoryOK, WorkerStates, WorkerPCs, Executing
<1> HIDE DEF v
<1> QED
  BY <1>1, <1>2, WorkerMoves

\* CheckpointFails preserves the invariant.
LEMMA CheckpointFailsInvariant ==
    ASSUME RunInvariant, NEW w \in Workers, CheckpointFails(w)
    PROVE  RunInvariant'
<1> DEFINE v == [worker[w] EXCEPT !.pc = "bfs"]
<1>1. /\ worker[w] \in WorkerStates
      /\ worker[w].pc # "idle"
      /\ worker' = [worker EXCEPT ![w] = v]
      /\ UNCHANGED <<runs, request, ghosts>>
      /\ UNCHANGED used \/ Fault
  BY DEF RunInvariant, TypeOK, CheckpointFails, Goto, Executing
<1>2. /\ v \in WorkerStates
      /\ v.run = worker[w].run /\ v.done = worker[w].done
      /\ v.open = worker[w].open /\ v.pre = worker[w].pre
      /\ v.pc \in {"mirror", "yield", "yrelease"} => v.open
      /\ v.doc = NoRun \/ v.doc = worker[w].doc \/ v.doc = Doc(w)
  BY <1>1
     DEF CheckpointFails, WorkerStates, WorkerPCs, Executing
<1> HIDE DEF v
<1> QED
  BY <1>1, <1>2, WorkerMoves

\* YieldCheckpointFails preserves the invariant.
LEMMA YieldCheckpointFailsInvariant ==
    ASSUME RunInvariant, NEW w \in Workers, YieldCheckpointFails(w)
    PROVE  RunInvariant'
<1> DEFINE v == [worker[w] EXCEPT !.pc = "reread", !.failed = TRUE]
<1>1. /\ worker[w] \in WorkerStates
      /\ worker[w].pc # "idle"
      /\ worker' = [worker EXCEPT ![w] = v]
      /\ UNCHANGED <<runs, request, ghosts>>
      /\ UNCHANGED used \/ Fault
  BY DEF RunInvariant, TypeOK, YieldCheckpointFails, Goto, Executing
<1>2. /\ v \in WorkerStates
      /\ v.run = worker[w].run /\ v.done = worker[w].done
      /\ v.open = worker[w].open /\ v.pre = worker[w].pre
      /\ v.pc \in {"mirror", "yield", "yrelease"} => v.open
      /\ v.doc = NoRun \/ v.doc = worker[w].doc \/ v.doc = Doc(w)
  BY <1>1
     DEF YieldCheckpointFails, WorkerStates, WorkerPCs, Executing
<1> HIDE DEF v
<1> QED
  BY <1>1, <1>2, WorkerMoves

\* Reread preserves the invariant.
LEMMA RereadInvariant ==
    ASSUME RunInvariant, NEW w \in Workers, Reread(w)
    PROVE  RunInvariant'
<1> DEFINE v == [worker[w] EXCEPT !.pc = IF Doc(w).status = "pending_approval" THEN "release" ELSE "final"]
<1>1. /\ worker[w] \in WorkerStates
      /\ worker[w].pc # "idle"
      /\ worker' = [worker EXCEPT ![w] = v]
      /\ UNCHANGED <<runs, request, ghosts>>
      /\ UNCHANGED used \/ Fault
  BY DEF RunInvariant, TypeOK, Reread, Goto, Executing
<1>2. /\ v \in WorkerStates
      /\ v.run = worker[w].run /\ v.done = worker[w].done
      /\ v.open = worker[w].open /\ v.pre = worker[w].pre
      /\ v.pc \in {"mirror", "yield", "yrelease"} => v.open
      /\ v.doc = NoRun \/ v.doc = worker[w].doc \/ v.doc = Doc(w)
  BY <1>1
     DEF Reread, RunInvariant, TypeOK, Doc, WorkerStates, WorkerPCs, Executing
<1> HIDE DEF v
<1> QED
  BY <1>1, <1>2, WorkerMoves

\* RereadFails preserves the invariant.
LEMMA RereadFailsInvariant ==
    ASSUME RunInvariant, NEW w \in Workers, RereadFails(w)
    PROVE  RunInvariant'
<1> DEFINE v == [worker[w] EXCEPT !.pc = "final"]
<1>1. /\ worker[w] \in WorkerStates
      /\ worker[w].pc # "idle"
      /\ worker' = [worker EXCEPT ![w] = v]
      /\ UNCHANGED <<runs, request, ghosts>>
      /\ UNCHANGED used \/ Fault
  BY DEF RunInvariant, TypeOK, RereadFails, Goto, Executing
<1>2. /\ v \in WorkerStates
      /\ v.run = worker[w].run /\ v.done = worker[w].done
      /\ v.open = worker[w].open /\ v.pre = worker[w].pre
      /\ v.pc \in {"mirror", "yield", "yrelease"} => v.open
      /\ v.doc = NoRun \/ v.doc = worker[w].doc \/ v.doc = Doc(w)
  BY <1>1
     DEF RereadFails, WorkerStates, WorkerPCs, Executing
<1> HIDE DEF v
<1> QED
  BY <1>1, <1>2, WorkerMoves

\* ReadFinal preserves the invariant.
LEMMA ReadFinalInvariant ==
    ASSUME RunInvariant, NEW w \in Workers, ReadFinal(w)
    PROVE  RunInvariant'
<1> DEFINE v == [worker[w] EXCEPT !.pc = "put", !.doc = Doc(w)]
<1>1. /\ worker[w] \in WorkerStates
      /\ worker[w].pc # "idle"
      /\ worker' = [worker EXCEPT ![w] = v]
      /\ UNCHANGED <<runs, request, ghosts>>
      /\ UNCHANGED used \/ Fault
  BY DEF RunInvariant, TypeOK, ReadFinal, Goto, Executing
<1>2. /\ v \in WorkerStates
      /\ v.run = worker[w].run /\ v.done = worker[w].done
      /\ v.open = worker[w].open /\ v.pre = worker[w].pre
      /\ v.pc \in {"mirror", "yield", "yrelease"} => v.open
      /\ v.doc = NoRun \/ v.doc = worker[w].doc \/ v.doc = Doc(w)
  BY <1>1
     DEF ReadFinal, RunInvariant, TypeOK, Doc, WorkerStates, WorkerPCs, Executing
<1> HIDE DEF v
<1> QED
  BY <1>1, <1>2, WorkerMoves

\* FinalFails preserves the invariant.
LEMMA FinalFailsInvariant ==
    ASSUME RunInvariant, NEW w \in Workers, FinalFails(w)
    PROVE  RunInvariant'
<1> DEFINE v == [worker[w] EXCEPT !.pc = "release", !.doc = NoRun]
<1>1. /\ worker[w] \in WorkerStates
      /\ worker[w].pc # "idle"
      /\ worker' = [worker EXCEPT ![w] = v]
      /\ UNCHANGED <<runs, request, ghosts>>
      /\ UNCHANGED used \/ Fault
  BY DEF RunInvariant, TypeOK, FinalFails, Goto, Executing
<1>2. /\ v \in WorkerStates
      /\ v.run = worker[w].run /\ v.done = worker[w].done
      /\ v.open = worker[w].open /\ v.pre = worker[w].pre
      /\ v.pc \in {"mirror", "yield", "yrelease"} => v.open
      /\ v.doc = NoRun \/ v.doc = worker[w].doc \/ v.doc = Doc(w)
  BY <1>1, FreshTypes
     DEF FinalFails, WorkerStates, WorkerPCs, Executing
<1> HIDE DEF v
<1> QED
  BY <1>1, <1>2, WorkerMoves

\* GiveUp preserves the invariant.
LEMMA GiveUpInvariant ==
    ASSUME RunInvariant, NEW w \in Workers, GiveUp(w)
    PROVE  RunInvariant'
<1> DEFINE v == [worker[w] EXCEPT !.pc = "release", !.doc = NoRun]
<1>1. /\ worker[w] \in WorkerStates
      /\ worker[w].pc # "idle"
      /\ worker' = [worker EXCEPT ![w] = v]
      /\ UNCHANGED <<runs, request, ghosts>>
      /\ UNCHANGED used \/ Fault
  BY DEF RunInvariant, TypeOK, GiveUp, Goto, Executing
<1>2. /\ v \in WorkerStates
      /\ v.run = worker[w].run /\ v.done = worker[w].done
      /\ v.open = worker[w].open /\ v.pre = worker[w].pre
      /\ v.pc \in {"mirror", "yield", "yrelease"} => v.open
      /\ v.doc = NoRun \/ v.doc = worker[w].doc \/ v.doc = Doc(w)
  BY <1>1, FreshTypes
     DEF GiveUp, WorkerStates, WorkerPCs, Executing
<1> HIDE DEF v
<1> QED
  BY <1>1, <1>2, WorkerMoves

\* HeartbeatCancels preserves the invariant.
LEMMA HeartbeatCancelsInvariant ==
    ASSUME RunInvariant, NEW w \in Workers, HeartbeatCancels(w)
    PROVE  RunInvariant'
<1> DEFINE v == [worker[w] EXCEPT !.ctxDone = TRUE]
<1>1. /\ worker[w] \in WorkerStates
      /\ worker[w].pc # "idle"
      /\ worker' = [worker EXCEPT ![w] = v]
      /\ UNCHANGED <<runs, request, ghosts>>
      /\ UNCHANGED used \/ Fault
  BY DEF RunInvariant, TypeOK, HeartbeatCancels, Goto, MemoryOK, Executing
<1>2. /\ v \in WorkerStates
      /\ v.run = worker[w].run /\ v.done = worker[w].done
      /\ v.open = worker[w].open /\ v.pre = worker[w].pre
      /\ v.pc \in {"mirror", "yield", "yrelease"} => v.open
      /\ v.doc = NoRun \/ v.doc = worker[w].doc \/ v.doc = Doc(w)
  BY <1>1
     DEF HeartbeatCancels, RunInvariant, MemoryOK, WorkerStates, WorkerPCs, Executing
<1> HIDE DEF v
<1> QED
  BY <1>1, <1>2, WorkerMoves

-----------------------------------------------------------------------------
\* Crash preserves the invariant.
LEMMA CrashInvariant ==
    ASSUME RunInvariant, NEW w \in Workers, Crash(w)
    PROVE  RunInvariant'
<1>1. used' \in [crashes: Nat, lapses: Nat, faults: Nat, boots: Nat]
  BY DEF RunInvariant, TypeOK, Crash
<1> QED
  BY <1>1, PassEnds, Unchanged, Assemble DEF Crash

\* HeartbeatExtends preserves the invariant.
LEMMA HeartbeatExtendsInvariant ==
    ASSUME RunInvariant, NEW w \in Workers, HeartbeatExtends(w)
    PROVE  RunInvariant'
<1> DEFINE r == worker[w].run
           e == ExtendLease(runs[r])
<1>1. r \in Runs /\ runs[r] \in RunDocs
  BY DEF RunInvariant, TypeOK, WorkerStates
<1>2. e \in RunDocs /\ DocOK(r, e)
  BY <1>1, LeaseTypes DEF RunInvariant, DocOK
<1>3. runs' = [runs EXCEPT ![r] = e]
  BY <1>1 DEF RunInvariant, TypeOK, HeartbeatExtends
<1> QED
  BY <1>1, <1>2, <1>3, SafeWrite, Unchanged, Assemble DEF HeartbeatExtends

\* LeaseLapses preserves the invariant.
LEMMA LeaseLapsesInvariant ==
    ASSUME RunInvariant, NEW r \in Runs, LeaseLapses(r)
    PROVE  RunInvariant'
<1> DEFINE e == [runs[r] EXCEPT !.lapsed = TRUE]
<1>1. e \in RunDocs /\ e.es = runs[r].es
  BY DEF RunInvariant, TypeOK, RunDocs
<1>2. DocOK(r, e)
  BY <1>1 DEF RunInvariant, DocOK
<1>3. runs' = [runs EXCEPT ![r] = e]
  BY DEF LeaseLapses
<1>4. used' \in [crashes: Nat, lapses: Nat, faults: Nat, boots: Nat]
  <2>1. used' = used \/ used' = [used EXCEPT !.lapses = @ + 1]
    BY DEF LeaseLapses
  <2> QED
    BY <2>1 DEF RunInvariant, TypeOK
<1> QED
  BY <1>1, <1>2, <1>3, <1>4, SafeWrite, Unchanged, Assemble DEF LeaseLapses

\* OrphanSweep preserves the invariant.
LEMMA OrphanSweepInvariant ==
    ASSUME RunInvariant, NEW r \in Runs, OrphanSweep(r)
    PROVE  RunInvariant'
<1> DEFINE e == Abandoned(runs[r])
<1>1. runs[r] \in RunDocs
  BY DEF RunInvariant, TypeOK
<1>2. e \in RunDocs /\ DocOK(r, e)
  BY <1>1, AbandonTypes DEF RunInvariant, DocOK
<1>3. runs' = [runs EXCEPT ![r] = e]
  BY DEF RunInvariant, TypeOK, OrphanSweep
<1> QED
  BY <1>2, <1>3, SafeWrite, Unchanged, Assemble DEF OrphanSweep

\* The sweep at boot changes no checkpoint.
LEMMA BootSweepInvariant ==
    ASSUME RunInvariant, BootSweep
    PROVE  RunInvariant'
<1>1. used' \in [crashes: Nat, lapses: Nat, faults: Nat, boots: Nat]
  BY DEF RunInvariant, TypeOK, BootSweep
<1>2. ASSUME NEW r \in Runs
      PROVE  runs'[r] \in RunDocs /\ DocOK(r, runs[r])'
  <2>1. runs[r] \in RunDocs /\ DocOK(r, runs[r])
    BY DEF RunInvariant, TypeOK
  <2>2. runs'[r] \in RunDocs /\ runs'[r].es = runs[r].es
    BY <2>1, AbandonTypes DEF BootSweep
  <2> QED
    BY <2>2, HistoryUnchanged, Frame DEF BootSweep
<1>3. runs' \in [Runs -> RunDocs]
  BY <1>2 DEF BootSweep
<1> QED
  BY <1>1, <1>2, <1>3, Unchanged, Assemble DEF BootSweep

\* The stale document a worker writes when GetByID fails is safe.
LEMMA WorkflowGoneInvariant ==
    ASSUME RunInvariant, NEW w \in Workers, WorkflowGone(w)
    PROVE  RunInvariant'
<1> DEFINE r == worker[w].run
           e == [worker[w].doc EXCEPT !.status = "error"]
           v == [worker[w] EXCEPT !.pc = "release", !.doc = NoRun]
<1>1. /\ worker[w] \in WorkerStates /\ worker[w].doc \in RunDocs /\ r \in Runs
      /\ worker[w].pc # "idle"
  BY DEF RunInvariant, TypeOK, WorkerStates, WorkflowGone
<1>2. /\ runs' = [runs EXCEPT ![r] = e]
      /\ worker' = [worker EXCEPT ![w] = v]
      /\ UNCHANGED <<request, ghosts>>
      /\ UNCHANGED used \/ Fault
  BY DEF RunInvariant, TypeOK, WorkflowGone
<1>3. 0 \in 0 .. N
  BY NAssumption
<1>4. e \in RunDocs /\ e.es = worker[w].doc.es
  <2>1. {"error", "success", "pending_approval"} \subseteq Statuses
    BY DEF Statuses, NonTerminal, Terminal
  <2> QED
    BY <1>1, <1>3, <2>1 DEF RunDocs
<1>5. DocOK(r, e)
  BY <1>1, <1>4 DEF RunInvariant, DocOK
<1>6. /\ v \in WorkerStates
      /\ v.run = worker[w].run /\ v.done = worker[w].done
      /\ v.open = worker[w].open /\ v.pre = worker[w].pre
      /\ v.pc \in {"mirror", "yield", "yrelease"} => v.open
      /\ DocOK(v.run, v.doc)
  BY <1>1, <1>3, FreshTypes DEF WorkerStates, WorkerPCs, Executing, DocOK
<1> HIDE DEF e, v
<1> QED
  BY <1>1, <1>2, <1>4, <1>5, <1>6, SafeWrite, SameMemory, Unchanged, Assemble

\* The whole-document write of the gate mirror is safe, however stale.
LEMMA MirrorGateInvariant ==
    ASSUME RunInvariant, NEW w \in Workers, MirrorGate(w)
    PROVE  RunInvariant'
<1> DEFINE r == worker[w].run
           e == [worker[w].doc EXCEPT !.status = "pending_approval", !.gate = Head(w)]
           v == [worker[w] EXCEPT !.pc = "yield", !.doc = NoRun]
<1>1. /\ worker[w] \in WorkerStates /\ worker[w].doc \in RunDocs /\ r \in Runs
      /\ worker[w].pc # "idle"
  BY DEF RunInvariant, TypeOK, WorkerStates, MirrorGate
<1>2. /\ runs' = [runs EXCEPT ![r] = e]
      /\ worker' = [worker EXCEPT ![w] = v]
      /\ UNCHANGED <<request, ghosts>>
      /\ UNCHANGED used \/ Fault
  BY DEF RunInvariant, TypeOK, MirrorGate
<1>3. worker[w].open /\ Head(w) \in 0 .. N
  BY <1>1, NAssumption DEF RunInvariant, MemoryOK, MirrorGate, WorkerStates, Head
<1>4. e \in RunDocs /\ e.es = worker[w].doc.es
  <2>1. {"error", "success", "pending_approval"} \subseteq Statuses
    BY DEF Statuses, NonTerminal, Terminal
  <2> QED
    BY <1>1, <1>3, <2>1 DEF RunDocs
<1>5. DocOK(r, e)
  BY <1>1, <1>4 DEF RunInvariant, DocOK
<1>6. /\ v \in WorkerStates
      /\ v.run = worker[w].run /\ v.done = worker[w].done
      /\ v.open = worker[w].open /\ v.pre = worker[w].pre
      /\ v.pc \in {"mirror", "yield", "yrelease"} => v.open
      /\ DocOK(v.run, v.doc)
  BY <1>1, <1>3, FreshTypes DEF WorkerStates, WorkerPCs, Executing, DocOK
<1> HIDE DEF e, v
<1> QED
  BY <1>1, <1>2, <1>4, <1>5, <1>6, SafeWrite, SameMemory, Unchanged, Assemble

\* The terminal write is safe, however stale: it leaves no checkpoint.
LEMMA PutFinalInvariant ==
    ASSUME RunInvariant, NEW w \in Workers, PutFinal(w)
    PROVE  RunInvariant'
<1> DEFINE r == worker[w].run
           e == [worker[w].doc EXCEPT !.status = IF worker[w].failed THEN "error" ELSE "success",
                             !.es = NoState, !.gate = 0]
           v == [worker[w] EXCEPT !.pc = "release", !.doc = NoRun]
<1>1. /\ worker[w] \in WorkerStates /\ worker[w].doc \in RunDocs /\ r \in Runs
      /\ worker[w].pc # "idle"
  BY DEF RunInvariant, TypeOK, WorkerStates, PutFinal
<1>2. /\ runs' = [runs EXCEPT ![r] = e]
      /\ worker' = [worker EXCEPT ![w] = v]
      /\ UNCHANGED <<request, ghosts>>
      /\ UNCHANGED used \/ Fault
  BY DEF RunInvariant, TypeOK, PutFinal
<1>3. 0 \in 0 .. N
  BY NAssumption
<1>4. e \in RunDocs /\ e.es = NoState
  <2>1. {"error", "success", "pending_approval"} \subseteq Statuses
    BY DEF Statuses, NonTerminal, Terminal
  <2> QED
    BY <1>1, <1>3, <2>1 DEF RunDocs
<1>5. DocOK(r, e)
  BY <1>1, <1>4 DEF RunInvariant, DocOK
<1>6. /\ v \in WorkerStates
      /\ v.run = worker[w].run /\ v.done = worker[w].done
      /\ v.open = worker[w].open /\ v.pre = worker[w].pre
      /\ v.pc \in {"mirror", "yield", "yrelease"} => v.open
      /\ DocOK(v.run, v.doc)
  BY <1>1, <1>3, FreshTypes DEF WorkerStates, WorkerPCs, Executing, DocOK
<1> HIDE DEF e, v
<1> QED
  BY <1>1, <1>2, <1>4, <1>5, <1>6, SafeWrite, SameMemory, Unchanged, Assemble

\* A checkpoint persists the frontier in memory, which is executed.
LEMMA CheckpointInvariant ==
    ASSUME RunInvariant, NEW w \in Workers, Checkpoint(w)
    PROVE  RunInvariant'
<1> DEFINE r == worker[w].run
           es == Snapshot(w, "none")
           e == CheckpointStep(runs[r], es)
           v == [worker[w] EXCEPT !.pc = "bfs"]
<1>1. /\ worker[w] \in WorkerStates /\ runs[r] \in RunDocs /\ r \in Runs
      /\ worker[w].pc # "idle"
      /\ UNCHANGED <<request, ghosts, used>>
  BY DEF RunInvariant, TypeOK, WorkerStates, Checkpoint
<1>2. CASE LeaseHeld(Doc(w), w)
  <2>1. /\ runs' = [runs EXCEPT ![r] = e]
        /\ worker' = [worker EXCEPT ![w] = v]
    BY <1>2 DEF RunInvariant, TypeOK, Checkpoint, Goto
  <2>2. es \in ExecutionStates
    BY <1>1 DEF Snapshot, ExecutionStates, WorkerStates
  <2>3. e \in RunDocs /\ e.es = es
    BY <1>1, <2>2, CheckpointTypes
  <2>4. DocOK(r, e)
    <3>1. es.done = worker[w].done /\ es.open = worker[w].open /\ es.pending = "none"
      BY DEF Snapshot
    <3>2. /\ \A n \in 1 .. worker[w].done : Settled(r, n)
          /\ worker[w].open => worker[w].done < N
      BY <1>1 DEF RunInvariant, MemoryOK
    <3> HIDE DEF r, es, e
    <3> QED
      BY <2>3, <3>1, <3>2 DEF DocOK
  <2>5. /\ v \in WorkerStates
        /\ v.run = worker[w].run /\ v.done = worker[w].done
        /\ v.open = worker[w].open /\ v.pre = worker[w].pre
        /\ v.pc \in {"mirror", "yield", "yrelease"} => v.open
        /\ DocOK(v.run, v.doc)
    BY <1>1
       DEF RunInvariant, MemoryOK, Checkpoint, WorkerStates, WorkerPCs, Executing
  <2> HIDE DEF e, v
  <2> QED
    BY <1>1, <2>1, <2>3, <2>4, <2>5, SafeWrite, SameMemory, Unchanged, Assemble
<1>3. CASE ~LeaseHeld(Doc(w), w)
  BY <1>1, <1>3, PassEnds, Unchanged, Assemble DEF Checkpoint
<1> QED
  BY <1>2, <1>3

\* A yield persists the frontier before the gate.
LEMMA YieldCheckpointInvariant ==
    ASSUME RunInvariant, NEW w \in Workers, YieldCheckpoint(w)
    PROVE  RunInvariant'
<1> DEFINE r == worker[w].run
           es == Snapshot(w, "waiting")
           e == CheckpointYield(runs[r], es)
           v == [worker[w] EXCEPT !.pc = "yrelease"]
<1>1. /\ worker[w] \in WorkerStates /\ runs[r] \in RunDocs /\ r \in Runs
      /\ worker[w].pc # "idle"
      /\ UNCHANGED <<request, ghosts, used>>
  BY DEF RunInvariant, TypeOK, WorkerStates, YieldCheckpoint
<1>2. CASE LeaseHeld(Doc(w), w)
  <2>1. /\ runs' = [runs EXCEPT ![r] = e]
        /\ worker' = [worker EXCEPT ![w] = v]
    BY <1>2 DEF RunInvariant, TypeOK, YieldCheckpoint, Goto
  <2>2. es \in ExecutionStates
    BY <1>1 DEF Snapshot, ExecutionStates, WorkerStates
  <2>3. e \in RunDocs /\ e.es = es
    BY <1>1, <2>2, CheckpointTypes
  <2>4. DocOK(r, e)
    <3>1. es.done = worker[w].done /\ es.open = worker[w].open /\ es.pending = "waiting"
      BY DEF Snapshot
    <3>2. /\ \A n \in 1 .. worker[w].done : Settled(r, n)
          /\ worker[w].open => worker[w].done < N
      BY <1>1 DEF RunInvariant, MemoryOK
    <3> HIDE DEF r, es, e
    <3> QED
      BY <2>3, <3>1, <3>2 DEF DocOK
  <2>5. /\ v \in WorkerStates
        /\ v.run = worker[w].run /\ v.done = worker[w].done
        /\ v.open = worker[w].open /\ v.pre = worker[w].pre
        /\ v.pc \in {"mirror", "yield", "yrelease"} => v.open
        /\ DocOK(v.run, v.doc)
    BY <1>1
       DEF RunInvariant, MemoryOK, YieldCheckpoint, WorkerStates, WorkerPCs, Executing
  <2> HIDE DEF e, v
  <2> QED
    BY <1>1, <2>1, <2>3, <2>4, <2>5, SafeWrite, SameMemory, Unchanged, Assemble
<1>3. CASE ~LeaseHeld(Doc(w), w)
  BY <1>1, <1>3, PassEnds, Unchanged, Assemble DEF YieldCheckpoint
<1> QED
  BY <1>2, <1>3

\* YieldRelease preserves the invariant.
LEMMA YieldReleaseInvariant ==
    ASSUME RunInvariant, NEW w \in Workers, YieldRelease(w)
    PROVE  RunInvariant'
<1> DEFINE r == worker[w].run
           e == ReleaseLease(runs[r], w)
           v == [worker[w] EXCEPT !.pc = "reread"]
<1>1. /\ worker[w] \in WorkerStates /\ runs[r] \in RunDocs /\ r \in Runs
      /\ worker[w].pc # "idle"
      /\ runs' = [runs EXCEPT ![r] = e]
      /\ worker' = [worker EXCEPT ![w] = v]
      /\ UNCHANGED <<request, ghosts, used>>
  BY DEF RunInvariant, TypeOK, WorkerStates, YieldRelease, Goto
<1>2. e \in RunDocs /\ DocOK(r, e)
  BY <1>1, LeaseTypes DEF RunInvariant, DocOK
<1>3. /\ v \in WorkerStates
      /\ v.run = worker[w].run /\ v.done = worker[w].done
      /\ v.open = worker[w].open /\ v.pre = worker[w].pre
      /\ v.pc \in {"mirror", "yield", "yrelease"} => v.open
      /\ DocOK(v.run, v.doc)
  BY <1>1 DEF RunInvariant, WorkerStates, WorkerPCs, Executing
<1> HIDE DEF e, v
<1> QED
  BY <1>1, <1>2, <1>3, SafeWrite, SameMemory, Unchanged, Assemble

\* Release preserves the invariant.
LEMMA ReleaseInvariant ==
    ASSUME RunInvariant, NEW w \in Workers, Release(w)
    PROVE  RunInvariant'
<1> DEFINE r == worker[w].run
           e == ReleaseLease(runs[r], w)
<1>1. /\ runs[r] \in RunDocs /\ r \in Runs
      /\ runs' = [runs EXCEPT ![r] = e]
      /\ worker' = [worker EXCEPT ![w] = IdleWorker]
      /\ UNCHANGED <<request, ghosts, used>>
  BY DEF RunInvariant, TypeOK, WorkerStates, Release
<1>2. e \in RunDocs /\ DocOK(r, e)
  BY <1>1, LeaseTypes DEF RunInvariant, DocOK
<1> HIDE DEF e
<1> QED
  BY <1>1, <1>2, SafeWrite, PassEnds, Unchanged, Assemble

-----------------------------------------------------------------------------
\* Executing a node settles it, and a gated one had its approval.
LEMMA RunNodeInvariant ==
    ASSUME RunInvariant, NEW w \in Workers, RunNode(w)
    PROVE  RunInvariant'
<1> DEFINE r == worker[w].run
           n == Head(w)
           open == n \notin FailNodes /\ n < N
           failed == worker[w].failed \/ n \in FailNodes
           strayed == IF LeaseHeld(runs[r], w) THEN worker[w].strayed
                      ELSE worker[w].strayed + 1
           v == [worker[w] EXCEPT !.pc = "ran", !.done = n, !.pre = "none",
                                  !.open = open, !.failed = failed,
                                  !.strayed = strayed]
<1>1. /\ worker[w] \in WorkerStates /\ r \in Runs
      /\ worker[w].pc = "bfs" /\ worker[w].open
      /\ n \in Gates => worker[w].pre = "approved"
      /\ effects' = [effects EXCEPT ![r][n] = @ + 1]
      /\ UNCHANGED <<runs, request, granted, refused, used>>
  BY DEF RunInvariant, TypeOK, WorkerStates, RunNode, AtNode
<1>2. worker' = [worker EXCEPT ![w] = v]
  BY DEF RunNode
<1>3. /\ worker[w].done \in 0 .. N /\ worker[w].done < N
      /\ n = worker[w].done + 1 /\ n \in Nodes
  BY <1>1, NAssumption DEF RunInvariant, MemoryOK, WorkerStates, Head, Nodes
<1>4. v \in WorkerStates
  <2>1. "ran" \in WorkerPCs /\ n \in 0 .. N
    BY <1>3, NAssumption DEF WorkerPCs, Executing, Nodes
  <2>2. open \in BOOLEAN /\ failed \in BOOLEAN /\ strayed \in Nat
    BY <1>1 DEF WorkerStates
  <2> HIDE DEF open, failed, strayed
  <2> QED
    BY <1>1, <2>1, <2>2 DEF WorkerStates
<1>5. /\ effects' \in [Runs -> [Nodes -> Nat]]
      /\ effects'[r][n] > 0
      /\ \A s \in Runs, m \in Nodes :
           /\ effects'[s][m] >= effects[s][m]
           /\ ~(s = r /\ m = n) => effects'[s][m] = effects[s][m]
  BY <1>1, <1>3 DEF RunInvariant, TypeOK
<1> HIDE DEF v
<1>6. TypeOK'
  BY <1>1, <1>2, <1>4, <1>5 DEF RunInvariant, TypeOK
<1>7. Grows
  BY <1>1, <1>5 DEF RunInvariant, TypeOK, Grows, Settled
<1>8. GateRespected'
  <2>1. n \in Gates => n \in granted[r]
    BY <1>1, <1>3 DEF RunInvariant, MemoryOK
  <2> QED
    BY <1>1, <1>3, <1>5, <2>1, NodeSetsAssumption
       DEF RunInvariant, TypeOK, GateRespected
<1>9. MemoryOK(w)'
  <2>1. worker'[w] = v
    BY <1>2 DEF RunInvariant, TypeOK
  <2>2. v.run = r /\ v.done = n /\ (v.open => n < N) /\ v.pre = "none"
        /\ v.pc = "ran"
    BY <1>1 DEF v, WorkerStates
  <2>3. ASSUME NEW m \in 1 .. n
        PROVE  effects'[r][m] > 0 \/ m \in refused'[r]
    <3>1. CASE m = n
      BY <1>1, <1>5, <3>1
    <3>2. CASE m # n
      <4>1. m \in 1 .. worker[w].done /\ m \in Nodes
        BY <1>3, <3>2, NAssumption DEF Nodes
      <4>2. Settled(r, m)
        BY <1>1, <4>1 DEF RunInvariant, MemoryOK
      <4> QED
        BY <1>1, <1>7, <4>1, <4>2 DEF Grows, Settled
    <3> QED
      BY <3>1, <3>2
  <2> QED
    BY <2>1, <2>2, <2>3 DEF MemoryOK, Settled
<1>10. DocOK(worker[w].run, worker[w].doc)'
  <2>1. worker'[w] = v /\ v.run = r /\ v.doc = worker[w].doc
    BY <1>1, <1>2 DEF RunInvariant, TypeOK, v, WorkerStates
  <2> QED
    BY <1>1, <1>7, <2>1, NAssumption
       DEF RunInvariant, Grows, DocOK, Settled, WorkerStates, RunDocs,
           ExecutionStates, Nodes
<1> QED
  BY <1>1, <1>2, <1>6, <1>7, <1>8, <1>9, <1>10, Frame DEF RunInvariant, TypeOK

\* A node refused on a rejection is settled without being executed.
LEMMA RefuseNodeInvariant ==
    ASSUME RunInvariant, NEW w \in Workers, RefuseNode(w)
    PROVE  RunInvariant'
<1> DEFINE r == worker[w].run
           n == Head(w)
           v == [worker[w] EXCEPT !.pc = "ran", !.done = n, !.open = FALSE,
                     !.pre = "none", !.failed = TRUE]
<1>1. /\ worker[w] \in WorkerStates /\ r \in Runs
      /\ worker[w].pc = "bfs" /\ worker[w].open
      /\ refused' = [refused EXCEPT ![r] = refused[r] \cup {n}]
      /\ UNCHANGED <<runs, request, effects, granted, used>>
  BY DEF RunInvariant, TypeOK, WorkerStates, RefuseNode, AtNode
<1>2. worker' = [worker EXCEPT ![w] = v]
  BY DEF RunInvariant, TypeOK, RefuseNode
<1>3. /\ worker[w].done \in 0 .. N /\ worker[w].done < N
      /\ n = worker[w].done + 1 /\ n \in Nodes
  BY <1>1, NAssumption DEF RunInvariant, MemoryOK, WorkerStates, Head, Nodes
<1>4. v \in WorkerStates
  <2>1. "ran" \in WorkerPCs /\ n \in 0 .. N
    BY <1>3, NAssumption DEF WorkerPCs, Executing, Nodes
  <2> QED
    BY <1>1, <2>1 DEF WorkerStates
<1>5. /\ refused' \in [Runs -> SUBSET Nodes]
      /\ n \in refused'[r]
      /\ \A s \in Runs : refused[s] \subseteq refused'[s]
  BY <1>1, <1>3 DEF RunInvariant, TypeOK
<1> HIDE DEF v
<1>6. TypeOK'
  BY <1>1, <1>2, <1>4, <1>5 DEF RunInvariant, TypeOK
<1>7. Grows
  BY <1>1, <1>5 DEF Grows, Settled
<1>8. GateRespected'
  BY <1>1 DEF RunInvariant, GateRespected
<1>9. MemoryOK(w)'
  <2>1. worker'[w] = v
    BY <1>2 DEF RunInvariant, TypeOK
  <2>2. v.run = r /\ v.done = n /\ ~v.open /\ v.pre = "none" /\ v.pc = "ran"
    BY <1>1 DEF v, WorkerStates
  <2>3. ASSUME NEW m \in 1 .. n
        PROVE  effects'[r][m] > 0 \/ m \in refused'[r]
    <3>1. CASE m = n
      BY <1>1, <1>5, <3>1
    <3>2. CASE m # n
      <4>1. m \in 1 .. worker[w].done /\ m \in Nodes
        BY <1>3, <3>2, NAssumption DEF Nodes
      <4>2. Settled(r, m)
        BY <1>1, <4>1 DEF RunInvariant, MemoryOK
      <4> QED
        BY <1>1, <1>7, <4>1, <4>2 DEF Grows, Settled
    <3> QED
      BY <3>1, <3>2
  <2> QED
    BY <2>1, <2>2, <2>3 DEF MemoryOK, Settled
<1>10. DocOK(worker[w].run, worker[w].doc)'
  <2>1. worker'[w] = v /\ v.run = r /\ v.doc = worker[w].doc
    BY <1>1, <1>2 DEF RunInvariant, TypeOK, v, WorkerStates
  <2> QED
    BY <1>1, <1>7, <2>1, NAssumption
       DEF RunInvariant, Grows, DocOK, Settled, WorkerStates, RunDocs,
           ExecutionStates, Nodes
<1> QED
  BY <1>1, <1>2, <1>6, <1>7, <1>8, <1>9, <1>10, Frame DEF RunInvariant, TypeOK

-----------------------------------------------------------------------------
\* A request that reads a run, or that answers: it holds a safe document.
LEMMA RequestReads ==
    ASSUME RunInvariant, UNCHANGED ghosts, NEW q \in Requests, NEW r \in Runs,
           NEW decision \in Decisions, ReadRun(q, r, decision)
    PROVE  RunInvariant'
<1> DEFINE c == [pc |-> "read", run |-> r, doc |-> runs[r], decision |-> decision]
<1>1. /\ request' = [request EXCEPT ![q] = c]
      /\ UNCHANGED <<runs, worker, used>>
  BY DEF ReadRun
<1>2. c \in RequestStates /\ DocOK(c.run, c.doc)
  BY DEF RunInvariant, TypeOK, RequestStates
<1> HIDE DEF c
<1>3. request' \in [Requests -> RequestStates] /\ request'[q] = c
  BY <1>1, <1>2 DEF RunInvariant, TypeOK
<1>4. DocOK(request[q].run, request[q].doc)'
  BY <1>2, <1>3 DEF DocOK, Settled, ghosts
<1>5. \A p \in Requests : p # q => request'[p] = request[p]
  BY <1>1 DEF RunInvariant, TypeOK
<1>6. \A p \in Requests : DocOK(request[p].run, request[p].doc)'
  BY <1>4, <1>5, HistoryUnchanged, Frame
<1> QED
  BY <1>1, <1>3, <1>6, Unchanged, Assemble

\* A request that answers keeps of the document only the gate it showed.
LEMMA RequestAnswers ==
    ASSUME RunInvariant, NEW q \in Requests, Answers(q)
    PROVE  /\ request' \in [Requests -> RequestStates]
           /\ Grows => \A p \in Requests : DocOK(request[p].run, request[p].doc)'
           /\ request[q].run \in Runs /\ request[q].doc \in RunDocs
           /\ request[q].decision \in Decisions
<1> DEFINE d == [NoRun EXCEPT !.gate = request[q].doc.gate]
           c == [request[q] EXCEPT !.pc = "answered", !.doc = d]
<1>1. request[q] \in RequestStates /\ request[q].doc \in RunDocs
  BY DEF RunInvariant, TypeOK, RequestStates
<1>2. d \in RunDocs /\ d.es = NoState
  BY <1>1, FreshTypes DEF RunDocs
<1> HIDE DEF d
<1>3. c \in RequestStates /\ c.doc = d
  BY <1>1, <1>2 DEF RequestStates
<1>4. request' = [request EXCEPT ![q] = c]
  BY DEF RunInvariant, TypeOK, Answers, d
<1> HIDE DEF c
<1>5. request' \in [Requests -> RequestStates] /\ request'[q] = c
  BY <1>3, <1>4 DEF RunInvariant, TypeOK
<1>6. DocOK(request[q].run, request[q].doc)'
  BY <1>2, <1>3, <1>5 DEF DocOK
<1>7. \A p \in Requests : p # q => request'[p] = request[p]
  BY <1>4 DEF RunInvariant, TypeOK
<1> QED
  BY <1>1, <1>5, <1>6, <1>7, Frame DEF RequestStates

\* A cancel writes back what it read, without its checkpoint.
LEMMA CancelWriteInvariant ==
    ASSUME RunInvariant, NEW q \in Requests, CancelWrite(q)
    PROVE  RunInvariant'
<1> DEFINE r == request[q].run
           e == [request[q].doc EXCEPT !.status = "cancelled", !.gate = 0, !.es = NoState,
                             !.owner = NoWorker, !.lapsed = FALSE]
<1>1. /\ Answers(q)
      /\ runs' = [runs EXCEPT ![r] = e]
      /\ UNCHANGED <<worker, ghosts, used>>
  BY DEF CancelWrite
<1>2. r \in Runs /\ request[q].doc \in RunDocs
  BY <1>1, RequestAnswers
<1>3. e \in RunDocs /\ e.es = NoState
  <2>1. {"cancelled", "error"} \subseteq Statuses /\ 0 \in 0 .. N
    BY NAssumption DEF Statuses, Terminal
  <2> QED
    BY <1>2, <2>1 DEF RunDocs
<1>4. DocOK(r, e)
  BY <1>3 DEF RunInvariant, DocOK
<1> HIDE DEF e
<1> QED
  BY <1>1, <1>2, <1>3, <1>4, RequestAnswers, HistoryUnchanged, SafeWrite,
     Unchanged, Assemble

\* The reaper writes back what it read, checkpoint included.
LEMMA ReapWriteInvariant ==
    ASSUME RunInvariant, NEW q \in Requests, ReapWrite(q)
    PROVE  RunInvariant'
<1> DEFINE r == request[q].run
           e == [request[q].doc EXCEPT !.status = "cancelled", !.gate = 0]
<1>1. /\ Answers(q)
      /\ runs' = [runs EXCEPT ![r] = e]
      /\ UNCHANGED <<worker, ghosts, used>>
  BY DEF ReapWrite
<1>2. r \in Runs /\ request[q].doc \in RunDocs
  BY <1>1, RequestAnswers
<1>3. e \in RunDocs /\ e.es = request[q].doc.es
  <2>1. {"cancelled", "error"} \subseteq Statuses /\ 0 \in 0 .. N
    BY NAssumption DEF Statuses, Terminal
  <2> QED
    BY <1>2, <2>1 DEF RunDocs
<1>4. DocOK(r, e)
  BY <1>3 DEF RunInvariant, DocOK
<1> HIDE DEF e
<1> QED
  BY <1>1, <1>2, <1>3, <1>4, RequestAnswers, HistoryUnchanged, SafeWrite,
     Unchanged, Assemble

\* An approval that finds no waiter writes back what it read.
LEMMA ApprovalOrphansInvariant ==
    ASSUME RunInvariant, NEW q \in Requests, ApprovalOrphans(q)
    PROVE  RunInvariant'
<1> DEFINE r == request[q].run
           e == [request[q].doc EXCEPT !.status = "error", !.gate = 0]
<1>1. /\ Answers(q)
      /\ runs' = [runs EXCEPT ![r] = e]
      /\ UNCHANGED <<worker, ghosts, used>>
  BY DEF ApprovalOrphans
<1>2. r \in Runs /\ request[q].doc \in RunDocs
  BY <1>1, RequestAnswers
<1>3. e \in RunDocs /\ e.es = request[q].doc.es
  <2>1. {"cancelled", "error"} \subseteq Statuses /\ 0 \in 0 .. N
    BY NAssumption DEF Statuses, Terminal
  <2> QED
    BY <1>2, <2>1 DEF RunDocs
<1>4. DocOK(r, e)
  BY <1>3 DEF RunInvariant, DocOK
<1> HIDE DEF e
<1> QED
  BY <1>1, <1>2, <1>3, <1>4, RequestAnswers, HistoryUnchanged, SafeWrite,
     Unchanged, Assemble

\* A decision is recorded at the gate the store holds pending.
LEMMA ApprovalApplyInvariant ==
    ASSUME RunInvariant, NEW q \in Requests, ApprovalApply(q)
    PROVE  RunInvariant'
<1> DEFINE r == request[q].run
           decision == request[q].decision
           e == ApplyDecision(runs[r], decision)
           n == runs[r].es.done + 1
<1>1. Answers(q) /\ UNCHANGED <<worker, effects, refused, used>>
  BY DEF ApprovalApply
<1>2. r \in Runs /\ decision \in Decisions /\ runs[r] \in RunDocs
  BY <1>1, RequestAnswers DEF RunInvariant, TypeOK
<1>3. CASE ~HasPending(runs[r])
  <2>1. UNCHANGED <<runs, ghosts>>
    BY <1>1, <1>3 DEF ApprovalApply, ghosts
  <2> QED
    BY <1>1, <2>1, RequestAnswers, HistoryUnchanged, Unchanged, Assemble
<1>4. CASE HasPending(runs[r])
  <2>1. /\ runs' = [runs EXCEPT ![r] = e]
        /\ granted' = [granted EXCEPT ![r] =
                IF decision = "approved" THEN granted[r] \cup {n} ELSE granted[r]]
    BY <1>4 DEF ApprovalApply
  <2>2. /\ e \in RunDocs
        /\ e.es = [runs[r].es EXCEPT !.pending = decision]
        /\ runs[r].es \in ExecutionStates
        /\ n \in Nat
    BY <1>2, <1>4, DecisionTypes, NAssumption DEF ExecutionStates
  <2> HIDE DEF e
  <2>3. /\ granted' \in [Runs -> SUBSET Nat]
        /\ \A s \in Runs : granted[s] \subseteq granted'[s]
        /\ decision = "approved" => n \in granted'[r]
    BY <1>2, <2>1, <2>2 DEF RunInvariant, TypeOK
  <2>4. Grows
    BY <1>1, <2>3 DEF Grows, Settled
  <2>5. runs' \in [Runs -> RunDocs] /\ runs'[r] = e
    BY <1>2, <2>1, <2>2 DEF RunInvariant, TypeOK
  <2>6. ASSUME NEW s \in Runs PROVE DocOK(s, runs[s])'
    <3>1. CASE s = r
      <4>1. DocOK(r, runs[r]) /\ runs[r].es # NoState
        BY <1>2, <1>4 DEF RunInvariant, HasPending
      <4>2. /\ e.es.done = runs[r].es.done /\ e.es.open = runs[r].es.open
            /\ e.es.pending = decision
        BY <2>2 DEF ExecutionStates
      <4> QED
        BY <1>1, <2>3, <2>5, <3>1, <4>1, <4>2 DEF DocOK, Settled
    <3>2. CASE s # r
      <4>1. runs'[s] = runs[s]
        BY <2>1, <3>2 DEF RunInvariant, TypeOK
      <4> QED
        BY <2>4, <4>1, Frame
    <3> QED
      BY <3>1, <3>2
  <2>7. \A w \in Workers : MemoryOK(w)' /\ DocOK(worker[w].run, worker[w].doc)'
    BY <1>1, <2>4, Frame
  <2>8. request' \in [Requests -> RequestStates]
        /\ \A p \in Requests : DocOK(request[p].run, request[p].doc)'
    BY <1>1, <2>4, RequestAnswers
  <2>9. GateRespected'
    BY <1>1, <2>3 DEF RunInvariant, GateRespected
  <2>10. TypeOK'
    BY <1>1, <2>3, <2>5, <2>8 DEF RunInvariant, TypeOK
  <2> QED
    BY <2>6, <2>7, <2>8, <2>9, <2>10 DEF RunInvariant
<1> QED
  BY <1>3, <1>4

-----------------------------------------------------------------------------
\* Every action preserves the invariant.
LEMMA StepInvariant == RunInvariant /\ [Next]_vars => RunInvariant'
<1> SUFFICES ASSUME RunInvariant, [Next]_vars PROVE RunInvariant'
  OBVIOUS
<1>1. CASE UNCHANGED vars
  BY <1>1, Unchanged, Assemble DEF vars, ghosts
<1>2. ASSUME NEW r \in Runs, Dispatch(r) \/ LeaseLapses(r) \/ OrphanSweep(r)
      PROVE  RunInvariant'
  BY <1>2, DispatchInvariant, LeaseLapsesInvariant, OrphanSweepInvariant
<1>3. ASSUME NEW w \in Workers, NEW r \in Runs, Claim(w, r)
      PROVE  RunInvariant'
  BY <1>3, ClaimInvariant
<1>4. ASSUME NEW w \in Workers, WorkerStep(w)
      PROVE  RunInvariant'
  BY <1>4, LoadWorkflowInvariant, LeaveLoopInvariant, RunNodeInvariant,
     RefuseNodeInvariant, ReadAtGateInvariant, MirrorGateInvariant,
     CheckpointInvariant, YieldCheckpointInvariant, YieldReleaseInvariant,
     RereadInvariant, ReadFinalInvariant, PutFinalInvariant, GiveUpInvariant,
     ReleaseInvariant
     DEF WorkerStep
<1>5. ASSUME NEW w \in Workers, WorkerFault(w)
      PROVE  RunInvariant'
  BY <1>5, WorkflowGoneInvariant, MirrorGateFailsInvariant,
     CheckpointFailsInvariant, YieldCheckpointFailsInvariant,
     RereadFailsInvariant, FinalFailsInvariant
     DEF WorkerFault
<1>6. ASSUME NEW w \in Workers, Heartbeat(w) \/ Crash(w)
      PROVE  RunInvariant'
  BY <1>6, HeartbeatExtendsInvariant, HeartbeatCancelsInvariant, CrashInvariant
     DEF Heartbeat
<1>7. ASSUME NEW q \in Requests, RequestStep(q)
      PROVE  RunInvariant'
  <2>1. ASSUME NEW r \in Runs, NEW decision \in Decisions, ReadRun(q, r, decision)
        PROVE  RunInvariant'
    BY <2>1, RequestReads DEF ReadRun
  <2>2. CASE CancelWrite(q) \/ ReapWrite(q) \/ ApprovalApply(q)
             \/ ApprovalOrphans(q)
    BY <2>2, CancelWriteInvariant, ReapWriteInvariant, ApprovalApplyInvariant,
       ApprovalOrphansInvariant
  <2>3. CASE \E r \in Runs : CancelRead(q, r) \/ ReapRead(q, r)
    BY <2>1, <2>3 DEF CancelRead, ReapRead, Decisions
  <2>4. CASE \E r \in Runs, decision \in Decisions : ApprovalRead(q, r, decision)
    BY <2>1, <2>4 DEF ApprovalRead
  <2> QED
    BY <1>7, <2>2, <2>3, <2>4 DEF RequestStep
<1> QED
  BY <1>1, <1>2, <1>3, <1>4, <1>5, <1>6, <1>7, BootSweepInvariant DEF Next

-----------------------------------------------------------------------------
(***************************************************************************)
(* The theorems.                                                           *)
(***************************************************************************)
\* Every copy of every run document, stored or held in memory, can be resumed
\* from without skipping a node or a gate.
THEOREM RunInvariantHolds == Spec => []RunInvariant
<1>1. Init => RunInvariant
  BY InitInvariant
<1>2. RunInvariant /\ [Next]_vars => RunInvariant'
  BY StepInvariant
<1> QED
  BY <1>1, <1>2, PTL DEF Spec

\* Type correctness, whatever is written back stale.
THEOREM TypeCorrect == Spec => []TypeOK
<1>1. RunInvariant => TypeOK
  BY DEF RunInvariant
<1> QED
  BY <1>1, RunInvariantHolds, PTL

\* A persisted checkpoint never counts a node that was not executed: no crash,
\* lapse or stale write makes a resumed run skip one.
THEOREM CheckpointsAreExecuted == Spec => []CommittedExecuted
<1>1. RunInvariant => CommittedExecuted
  BY DEF RunInvariant, CommittedExecuted, DocOK
<1> QED
  BY <1>1, RunInvariantHolds, PTL

\* No gated node is ever executed without an approval recorded at that gate.
THEOREM GatesAreRespected == Spec => []GateRespected
<1>1. RunInvariant => GateRespected
  BY DEF RunInvariant
<1> QED
  BY <1>1, RunInvariantHolds, PTL

=============================================================================
