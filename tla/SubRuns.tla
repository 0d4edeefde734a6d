------------------------------ MODULE SubRuns ------------------------------
(***************************************************************************)
(* A leased run whose agents call other workflows as tools.  A sub-run is  *)
(* a call inside the caller's pass: it has a queue and a visited set of    *)
(* its own, and the context of the pass, with its chain of callers and the *)
(* checkpoint bundle of the run.                                           *)
(*                                                                         *)
(* Each workflow here is a chain of nodes, and node ids are not shared.    *)
(***************************************************************************)
EXTENDS Integers, Sequences, FiniteSets

CONSTANTS
  Workflows,        \* those an agent may name
  Root,             \* the workflow of the run
  NodesOf,          \* workflow -> sequence of its nodes, the trigger first
  AgentNodes,       \* nodes that may call a workflow as a tool
  TenantOf,         \* workflow -> tenant
  MaxDepth,         \* maxSubWorkflowDepth
  MaxToolCalls,     \* bound: calls an agent makes
  MaxPasses,        \* bound: passes over the run
  NoFrontier

ASSUME NestingAssumption == MaxDepth \in Nat /\ Root \in Workflows

VARIABLES
  frames,           \* the calls of the pass: the run, its sub-run, ...
  priorState,       \* the frontier the pass was started from
  executionState,   \* the frontier the run record holds
  passes,
  runDone,
  ran               \* history: nodes that ran to their end

subVars == <<frames, priorState, executionState, passes, runDone, ran>>

SubInit ==
    /\ frames = <<>> /\ priorState = NoFrontier /\ executionState = NoFrontier
    /\ passes = 0 /\ runDone = FALSE /\ ran = {}

Elems(s) == {s[i] : i \in DOMAIN s}
Ids(wf) == Elems(NodesOf[wf])
Trigger(wf) == NodesOf[wf][1]

(***************************************************************************)
(* RunWithEvents: the trigger's queue, or the frontier of the bundle.      *)
(***************************************************************************)
Hydrates(prior) == prior # NoFrontier
Frame(wf, chain, prior) ==
    [wf |-> wf, ancestors |-> chain, calls |-> 0, at |-> "walk",
     queue |-> IF Hydrates(prior) THEN prior.queue ELSE <<Trigger(wf)>>,
     visited |-> IF Hydrates(prior) THEN prior.visited ELSE {}]

Depth == Len(frames)
This == frames[Depth]
Becomes(f) == frames' = [frames EXCEPT ![Depth] = f]
Walking == Depth > 0 /\ This.at = "walk"

RunFromCheckpoint ==
    /\ frames = <<>> /\ ~runDone /\ passes < MaxPasses
    /\ passes' = passes + 1 /\ priorState' = executionState
    /\ frames' = <<Frame(Root, <<>>, executionState)>>
    /\ UNCHANGED <<executionState, runDone, ran>>

SkipNode ==
    /\ Walking /\ This.queue # <<>>
    /\ LET n == Head(This.queue)
       IN /\ n \in This.visited \/ n \notin Ids(This.wf)
          /\ Becomes([This EXCEPT !.queue = Tail(@), !.visited = @ \cup {n}])
    /\ UNCHANGED <<priorState, executionState, passes, runDone, ran>>

StartNode ==
    /\ Walking /\ This.queue # <<>>
    /\ LET n == Head(This.queue)
       IN /\ n \in Ids(This.wf) \ This.visited
          /\ Becomes([This EXCEPT !.at = "node", !.calls = 0, !.visited = @ \cup {n}])
    /\ UNCHANGED <<priorState, executionState, passes, runDone, ran>>

(***************************************************************************)
(* The end of a node: its successor is queued, and the frontier of this    *)
(* call is checkpointed.                                                   *)
(***************************************************************************)
After(wf, n) == SelectSeq(NodesOf[wf], LAMBDA m :
                  \E i \in 2..Len(NodesOf[wf]) : NodesOf[wf][i] = m /\ NodesOf[wf][i - 1] = n)

FinishNode ==
    /\ Depth > 0 /\ This.at = "node"
    /\ LET n == Head(This.queue)
           rest == Tail(This.queue) \o After(This.wf, n)
       IN /\ Becomes([This EXCEPT !.at = "walk", !.queue = rest])
          /\ executionState' = [queue |-> rest, visited |-> This.visited]
          /\ ran' = ran \cup {n}
    /\ UNCHANGED <<priorState, passes, runDone>>

(***************************************************************************)
(* dispatchSubWorkflow: refused for a caller up the chain, beyond the      *)
(* depth, and across tenants; the chain grows by the caller.               *)
(***************************************************************************)
ChainForgotten(f) == <<f.wf>>
WithAncestor(f) == Append(f.ancestors, f.wf)

MayDispatch(f, target) ==
    /\ target \notin Elems(f.ancestors)
    /\ Len(f.ancestors) < MaxDepth
    /\ TenantOf[target] = TenantOf[f.wf]

CallsTool == /\ Depth > 0 /\ This.at = "node" /\ Head(This.queue) \in AgentNodes
             /\ This.calls < MaxToolCalls

DispatchSubWorkflow(target) ==
    /\ CallsTool
    /\ LET caller == [This EXCEPT !.calls = @ + 1]
       IN frames' = IF MayDispatch(This, target)
                    THEN [frames EXCEPT ![Depth] = caller]
                           \o <<Frame(target, WithAncestor(This), priorState)>>
                    ELSE [frames EXCEPT ![Depth] = caller]
    /\ UNCHANGED <<priorState, executionState, passes, runDone, ran>>

SubRunReturns ==
    /\ Walking /\ This.queue = <<>> /\ Depth > 1
    /\ frames' = SubSeq(frames, 1, Depth - 1)
    /\ UNCHANGED <<priorState, executionState, passes, runDone, ran>>

RunReturns ==
    /\ Walking /\ This.queue = <<>> /\ Depth = 1
    /\ frames' = <<>> /\ runDone' = TRUE /\ executionState' = NoFrontier
    /\ UNCHANGED <<priorState, passes, ran>>

PassLost ==      \* the worker dies, or its lease does
    /\ frames # <<>>
    /\ frames' = <<>>
    /\ UNCHANGED <<priorState, executionState, passes, runDone, ran>>

SubNext ==
    \/ RunFromCheckpoint \/ SkipNode \/ StartNode \/ FinishNode
    \/ \E w \in Workflows : DispatchSubWorkflow(w)
    \/ SubRunReturns \/ RunReturns \/ PassLost

SubSpec == SubInit /\ [][SubNext]_subVars

----------------------------------------------------------------------------
(***************************************************************************)
(* Calls nest at most MaxDepth deep and never cross a tenant; a workflow   *)
(* returns to the chain only by calling itself, and then once: no cycle of *)
(* two or more is ever entered, whatever was resumed.                      *)
(***************************************************************************)
NestingBounded ==
    /\ Depth <= MaxDepth + 1
    /\ \A i, j \in DOMAIN frames : frames[i].wf = frames[j].wf => i - j \in {-1, 0, 1}
    /\ \A i \in DOMAIN frames : TenantOf[frames[i].wf] = TenantOf[Root]

(***************************************************************************)
(* What the comment of ExecutionState says: the snapshot of every step     *)
(* boundary resumes the run cleanly, so a run that is done has run every   *)
(* node of its workflow, whichever pass it was.                            *)
(***************************************************************************)
ResumesCleanly == runDone => Ids(Root) \subseteq ran
============================================================================
