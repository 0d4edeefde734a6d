------------------------------ MODULE Executor ------------------------------
(***************************************************************************)
(* The breadth-first walk of RunWithEvents (internal/workflow/executor.go) *)
(* over an arbitrary graph of nodes, by the worker that holds the lease of *)
(* the run: routing by outcome, for_each bodies, breakpoints and node      *)
(* approval gates released from the canvas, a checkpoint after every node, *)
(* and the resumption of the walk from the last checkpoint by the next     *)
(* worker when this one dies or loses its lease.                           *)
(*                                                                         *)
(* Abstractions.  Inputs, outputs and the run context are left out: a node *)
(* succeeds or fails.  Edges leave a node in any order (the code keeps the *)
(* order of the workflow's edge list).  A for_each runs its body in its    *)
(* own step: to the walk it is a node that succeeds or fails.              *)
(***************************************************************************)
EXTENDS Naturals, Sequences, FiniteSets, Functions

CONSTANTS
    Nodes,        \* ids of the workflow's nodes
    Dangling,     \* ids that edges point to and no node has
    Triggers,     \* nodes of type trigger
    ForEach,      \* nodes of type for_each
    Edges,        \* records [from, handle, to]
    Continues,    \* nodes with on_error: continue
    Breakpoints,  \* nodes the user may hold a breakpoint at
    Gated,        \* nodes with require_node_approval
    Agents,       \* agents with a tool that needs an approval
    NoNode, NoState,
    MaxCrashes, MaxFaults, MaxClicks, MaxYields     \* bounds

Ids == Nodes \cup Dangling
\* "any": an edge without a handle, or with the handle "start" of a trigger.
Handles == {"success", "error", "any", "item"}
Outcomes == {"success", "error"}

ASSUME GraphAssumption ==
    /\ Edges \subseteq [from: Nodes, handle: Handles, to: Ids]
    /\ Nodes \cap Dangling = {}
    /\ Triggers \subseteq Nodes
    /\ ForEach \subseteq Nodes
    /\ NoNode \notin Ids
ASSUME FiniteAssumption == IsFiniteSet(Edges) /\ IsFiniteSet(Triggers)
ASSUME WalkBoundsAssumption ==
    MaxCrashes \in Nat /\ MaxFaults \in Nat /\ MaxClicks \in Nat /\ MaxYields \in Nat

(***************************************************************************)
(* The frontier of a walk, as kept in memory and in execution_state.       *)
(* fired is history: the edges followed so far.                            *)
(***************************************************************************)
Frontiers == [visited: SUBSET Ids, queue: Seq(Ids), fired: SUBSET Edges]
ASSUME NoFrontierAssumption == NoState \notin Frontiers

EmptyFrontier == [visited |-> {}, queue |-> <<>>, fired |-> {}]

Queued(f) == Range(f.queue)

\* The elements of S one after the other, in any order.
Orders(S) ==
    {s \in [1 .. Cardinality(S) -> S] : \A x \in S : \E i \in DOMAIN s : s[i] = x}

(***************************************************************************)
(* The graph.                                                              *)
(***************************************************************************)
\* Everything reachable over the edges E from the ids in S: the least set that
\* holds S and is closed under E.
ClosedUnder(X, S, E) == S \subseteq X /\ \A e \in E : e.from \in X => e.to \in X
Reachable(S, E) == {x \in Ids : \A X \in SUBSET Ids : ClosedUnder(X, S, E) => x \in X}

\* Nodes behind the item edges of a for_each, run by it and not by the walk.
Bodies ==
    Reachable({e.to : e \in {d \in Edges : d.from \in ForEach /\ d.handle = "item"}},
              Edges)

\* The handles an outcome of node n fires.
Fires(n, outcome) ==
    {"any", outcome} \cup
    (IF outcome = "error" /\ n \in Continues THEN {"success"} ELSE {})

Routed(n, outcome) ==
    {e \in Edges : e.from = n /\ e.handle \in Fires(n, outcome)}

-----------------------------------------------------------------------------
VARIABLES
    pc,         \* where the run is (below)
    item,       \* the node taken from the queue
    mem,        \* the frontier in the memory of the worker
    saved,      \* execution_state, NoState if missing
    failed,     \* a step of this pass has an error that is not suppressed
    status,     \* what the run document shows
    clicks,     \* continueCh: buffered clicks, each with the wait it answers
    executed,   \* history: how often each node ran
    stray,      \* history: a wait was ended by a click made elsewhere
    used        \* how much of each bound is spent

vars == <<pc, item, mem, saved, failed, status, clicks, executed, stray, used>>

(***************************************************************************)
(*   queued   before the first claim       held   at a breakpoint          *)
(*   loop     head of the node loop        gate   at an approval gate      *)
(*   break    about to save the frontier   run    the node may run         *)
(*            of a breakpoint              ran    about to checkpoint      *)
(*   lost     no worker holds the run      ended  terminal                 *)
(*   yielded  pending_approval, the lease is released                      *)
(***************************************************************************)
OnItem == {"break", "held", "gate", "run"}
Walking == OnItem \cup {"loop", "ran"}
PCs == {"queued", "lost", "yielded", "ended"} \cup Walking

BufferSize == 4

Init ==
    /\ pc = "queued"
    /\ item = NoNode
    /\ mem = EmptyFrontier
    /\ saved = NoState
    /\ failed = FALSE
    /\ status = "running"
    /\ clicks = <<>>
    /\ executed = [n \in Nodes |-> 0]
    /\ stray = FALSE
    /\ used = [crashes |-> 0, faults |-> 0, clicks |-> 0, yields |-> 0]

Fault == used.faults < MaxFaults /\ used' = [used EXCEPT !.faults = @ + 1]

\* The pass ends with its terminal status; execution_state is dropped.
End(s) ==
    /\ pc' = "ended"
    /\ status' = s
    /\ saved' = NoState
    /\ item' = NoNode
    /\ clicks' = <<>>
    /\ UNCHANGED <<mem, failed, executed, stray>>

-----------------------------------------------------------------------------
\* The first pass starts from the triggers ...
Start ==
    /\ pc = "queued"
    /\ pc' = "loop"
    /\ \E order \in Orders(Triggers) : mem' = [EmptyFrontier EXCEPT !.queue = order]
    /\ UNCHANGED <<item, saved, failed, status, clicks, executed, stray, used>>

\* Mistakes: the walk starts over; the queue is rebuilt from the triggers; a
\* checkpoint with an empty queue is taken for a finished run.
ResumeAfresh ==
    /\ pc = "lost"
    /\ saved # NoState
    /\ pc' = "loop"
    /\ \E order \in Orders(Triggers) : mem' = [EmptyFrontier EXCEPT !.queue = order]
    /\ failed' = FALSE
    /\ UNCHANGED <<item, saved, status, clicks, executed, stray, used>>

ResumeFromTriggers ==
    /\ pc = "lost"
    /\ saved # NoState
    /\ pc' = "loop"
    /\ \E order \in Orders(Triggers) : mem' = [saved EXCEPT !.queue = order]
    /\ failed' = FALSE
    /\ UNCHANGED <<item, saved, status, clicks, executed, stray, used>>

ResumeUnfinished ==
    /\ pc = "lost"
    /\ saved # NoState
    /\ saved.queue # <<>>
    /\ pc' = "loop"
    /\ mem' = saved
    /\ failed' = FALSE
    /\ UNCHANGED <<item, saved, status, clicks, executed, stray, used>>

\* ... and a later one from the checkpoint; the steps of the first are gone.
Resume ==
    /\ pc = "lost"
    /\ saved # NoState
    /\ pc' = "loop"
    /\ mem' = saved
    /\ failed' = FALSE
    /\ UNCHANGED <<item, saved, status, clicks, executed, stray, used>>

\* A run without a checkpoint cannot be claimed again: the orphan sweep.
Abandon ==
    /\ pc = "lost"
    /\ saved = NoState
    /\ End("error")
    /\ UNCHANGED used

-----------------------------------------------------------------------------
AtHead == pc = "loop" /\ mem.queue # <<>>
Popped == [mem EXCEPT !.queue = Tail(@)]

\* Mistake: a node that is queued twice runs twice.
SkipsBodiesOnly(n) == n \in Bodies

Skips(n) == n \in mem.visited \cup Bodies

Skip ==
    /\ AtHead
    /\ Skips(Head(mem.queue))
    /\ mem' = Popped
    /\ UNCHANGED <<pc, item, saved, failed, status, clicks, executed, stray, used>>

Visiting == [Popped EXCEPT !.visited = @ \cup {Head(mem.queue)}]

\* No node has this id: it counts as visited.
SkipDangling ==
    /\ AtHead
    /\ ~Skips(Head(mem.queue))
    /\ Head(mem.queue) \notin Nodes
    /\ mem' = Visiting
    /\ UNCHANGED <<pc, item, saved, failed, status, clicks, executed, stray, used>>

PastBreakpoint(n) == IF n \in Gated THEN "gate" ELSE "run"

\* The next node is taken; a breakpoint may be set there by now, or not.
Take ==
    /\ AtHead
    /\ ~Skips(Head(mem.queue))
    /\ Head(mem.queue) \in Nodes
    /\ item' = Head(mem.queue)
    /\ mem' = Visiting
    /\ \/ pc' = PastBreakpoint(item')
       \/ item' \in Breakpoints /\ pc' = "break"
    /\ UNCHANGED <<saved, failed, status, clicks, executed, stray, used>>

\* Mistake: the frontier is saved as it is in memory.
RollbackKeepingItem == mem

\* A worker that dies at a breakpoint must find the node again.
Rollback ==
    [mem EXCEPT !.visited = @ \ {item}, !.queue = <<item>> \o @]

Break ==
    /\ pc = "break"
    /\ pc' = "held"
    /\ saved' = Rollback
    /\ UNCHANGED <<item, mem, failed, status, clicks, executed, stray, used>>

\* A failed write there, or of the yield below, ends the pass with that error.
RollbackFails ==
    /\ pc = "break" \/ (pc = "run" /\ item \in Agents)
    /\ Fault
    /\ End("error")

-----------------------------------------------------------------------------
(***************************************************************************)
(* Clicks (POST continue, through the control bridge of this pass) and     *)
(* approvals that arrive out of band.                                      *)
(***************************************************************************)
Waiting == pc \in {"held", "gate"}

\* A click on what the canvas shows: the node waiting now, if any.  A full
\* buffer drops it.
Click ==
    /\ pc \in Walking
    /\ used.clicks < MaxClicks
    /\ used' = [used EXCEPT !.clicks = @ + 1]
    /\ clicks' = IF Len(clicks) < BufferSize
                 THEN Append(clicks, IF Waiting THEN item ELSE NoNode)
                 ELSE clicks
    /\ UNCHANGED <<pc, item, mem, saved, failed, status, executed, stray>>

\* waitAtBreakpoint: one token ends the wait, the others are drained.
Continue ==
    /\ Waiting
    /\ clicks # <<>>
    /\ clicks' = <<>>
    /\ stray' = (stray \/ Head(clicks) # item)
    /\ pc' = IF pc = "held" THEN PastBreakpoint(item) ELSE "run"
    /\ UNCHANGED <<item, mem, saved, failed, status, executed, used>>

\* Rejected out of band: the pass ends with that error.
Reject ==
    /\ pc = "gate"
    /\ End("error")
    /\ UNCHANGED used

-----------------------------------------------------------------------------
\* The routed edges are followed; the targets of those in the list are queued.
Followed(f, routed, order) ==
    [f EXCEPT !.fired = @ \cup routed,
              !.queue = @ \o [i \in DOMAIN order |-> order[i].to]]

\* The node runs, and the edges of its outcome queue their targets.
RunNode(outcome) ==
    LET routed == Routed(item, outcome)
        open == {e \in routed : e.to \notin mem.visited}
    IN  /\ pc = "run"
        /\ pc' = "ran"
        /\ \E order \in Orders(open) : mem' = Followed(mem, routed, order)
        /\ failed' = (failed \/ (outcome = "error" /\ item \notin Continues))
        /\ executed' = [executed EXCEPT ![item] = @ + 1]
        /\ item' = NoNode
        /\ UNCHANGED <<saved, status, clicks, stray, used>>

\* An agent meets a tool call without a decision: the pass ends, the agent's
\* node is queued again.
Yield ==
    /\ pc = "run"
    /\ item \in Agents
    /\ used.yields < MaxYields
    /\ used' = [used EXCEPT !.yields = @ + 1]
    /\ saved' = Rollback
    /\ pc' = "yielded"
    /\ item' = NoNode
    /\ mem' = EmptyFrontier
    /\ failed' = FALSE
    /\ clicks' = <<>>
    /\ UNCHANGED <<status, executed, stray>>

\* The decision is recorded; the run can be claimed again.
Decide ==
    /\ pc = "yielded"
    /\ pc' = "lost"
    /\ UNCHANGED <<item, mem, saved, failed, status, clicks, executed, stray, used>>

Checkpoint ==
    /\ pc = "ran"
    /\ pc' = "loop"
    /\ saved' = mem
    /\ UNCHANGED <<item, mem, failed, status, clicks, executed, stray, used>>

\* A checkpoint that fails, the lease still held, is only logged.
CheckpointFails ==
    /\ pc = "ran"
    /\ Fault
    /\ pc' = "loop"
    /\ UNCHANGED <<item, mem, saved, failed, status, clicks, executed, stray>>

\* The queue is empty: RunFromCheckpoint writes the terminal status.
Finish ==
    /\ pc = "loop"
    /\ mem.queue = <<>>
    /\ End(IF failed THEN "error" ELSE "success")
    /\ UNCHANGED used

\* The worker dies, or its lease is lost and its context cancelled.
Crash ==
    /\ pc \in Walking
    /\ used.crashes < MaxCrashes
    /\ used' = [used EXCEPT !.crashes = @ + 1]
    /\ pc' = "lost"
    /\ item' = NoNode
    /\ mem' = EmptyFrontier
    /\ failed' = FALSE
    /\ clicks' = <<>>
    /\ UNCHANGED <<saved, status, executed, stray>>

-----------------------------------------------------------------------------
Step ==
    \/ Start
    \/ Resume
    \/ Abandon
    \/ Skip
    \/ SkipDangling
    \/ Take
    \/ Break
    \/ \E outcome \in Outcomes : RunNode(outcome)
    \/ Checkpoint
    \/ Finish

Next ==
    \/ Step
    \/ RollbackFails
    \/ Yield
    \/ Decide
    \/ CheckpointFails
    \/ Click
    \/ Continue
    \/ Reject
    \/ Crash

Spec == Init /\ [][Next]_vars

\* Claims are attempted at every tick and a pass keeps going, the worker takes
\* a click that is there; users and faults get no fairness.
FairSpec == Spec /\ WF_vars(Step) /\ WF_vars(Continue)

-----------------------------------------------------------------------------
(***************************************************************************)
(* Properties.                                                             *)
(***************************************************************************)
\* Every variable stays in its domain; a worker on a node has one, and no
\* checkpoint outlives the run.
TypeOK ==
    /\ pc \in PCs
    /\ item \in Nodes \cup {NoNode}
    /\ (item = NoNode) <=> (pc \notin OnItem)
    /\ mem \in Frontiers
    /\ saved \in Frontiers \cup {NoState}
    /\ failed \in BOOLEAN
    /\ status \in {"running", "success", "error"}
    /\ clicks \in Seq(Ids \cup {NoNode})
    /\ executed \in [Nodes -> Nat]
    /\ stray \in BOOLEAN
    /\ used \in [crashes: Nat, faults: Nat, clicks: Nat, yields: Nat]

\* A frontier is that of a walk: the triggers and the targets of every edge
\* followed are visited, queued, or a for_each's own ...
Covered(f) ==
    /\ Triggers \subseteq f.visited \cup Queued(f) \cup Bodies
    /\ \A e \in f.fired : e.to \in f.visited \cup Queued(f) \cup Bodies

\* ... nothing else is, whatever cycles the graph has ...
Founded(f) == f.visited \cup Queued(f) \subseteq Reachable(Triggers, f.fired)

\* ... and each node visited, but for one still waiting to run, had the edges
\* of exactly one outcome followed, never some of two.
Decided(f, pending) ==
    /\ \A e \in f.fired : e.from \in f.visited \ {pending}
    /\ \A n \in (f.visited \cap Nodes) \ {pending} :
          \E outcome \in Outcomes : {e \in f.fired : e.from = n} = Routed(n, outcome)

FrontierOK(f, pending) ==
    /\ f.visited \cap Bodies = {}
    /\ Covered(f)
    /\ Founded(f)
    /\ Decided(f, pending)

\* Every node the frontier counts as visited was executed.
Performed(f, pending) ==
    \A n \in (f.visited \cap Nodes) \ {pending} : executed[n] > 0

\* The frontier f comes after g in one walk.
Extends(f, g) == g.visited \subseteq f.visited /\ g.fired \subseteq f.fired

\* What the walk holds in memory and what a checkpoint holds can both be walked
\* on from, and the memory is never behind the checkpoint.
FrontierInvariant ==
    /\ TypeOK
    /\ saved # NoState => FrontierOK(saved, NoNode) /\ Performed(saved, NoNode)
    /\ pc \in Walking => FrontierOK(mem, item) /\ Performed(mem, item)
    /\ pc \in Walking /\ saved # NoState =>
          Extends(mem, saved) /\ item \notin saved.visited
    /\ pc \in OnItem => item \in mem.visited
    /\ pc \in {"queued", "ended"} => saved = NoState

\* A run that succeeded visited exactly what the outcomes of its nodes reach
\* from the triggers, for_each bodies apart, over however many passes.
WalkComplete ==
    status = "success" =>
        mem.visited = Reachable(Triggers, mem.fired) \ Bodies

\* A node runs once in a pass, so again only after a crash, however many edges
\* or cycles lead to it.
ExecutedOncePerPass ==
    \A n \in Nodes : executed[n] <= 1 + used.crashes

\* A checkpoint never takes back what an earlier one recorded: no visited node
\* is forgotten and no outcome changes by a crash and a resumption.
CheckpointsGrow ==
    [][saved # NoState /\ saved' # NoState => Extends(saved', saved)]_vars

\* Every walk ends or waits for the user, cycles in the graph or not.
WalkEnds ==
    pc \in {"queued", "lost"} ~> (pc \in {"yielded", "ended"} \/ Waiting)

\* executor.go: extra clicks are drained "so a fast double-click doesn't
\* release the next breakpoint as well".
ClickReleasesItsOwn == ~stray
=============================================================================
