------------------------------ MODULE LoopBody ------------------------------
(***************************************************************************)
(* One execution of a for_each node: the loop over its items, sequential   *)
(* or with a bounded number of iterations at a time, and in each iteration *)
(* the body chains, walked from every "item" target.                       *)
(***************************************************************************)
EXTENDS Integers, Sequences, FiniteSets

CONSTANTS
  NItems,           \* items to iterate
  Targets,          \* sequence of "item" targets: the chains of an iteration
  BodyEdges,        \* records [from, handle, to]
  ContinueNodes,    \* body nodes with on_error = continue
  BodyBreakpoints,  \* body nodes with a breakpoint
  Asked,            \* values of data.parallelism to try
  MaxParallelism    \* maxForEachParallelism

ASSUME ItemsAreNumbered == NItems \in Nat

VARIABLES
  abortOnErr,       \* on_error of the for_each node is stop
  parallelism,
  loopAt,           \* the loop: "head", "acquire", "inline", "wait", "returned"
  idx,              \* the item it looks at
  iteration,        \* item -> its iteration
  firstErr,         \* an iteration has ended with an unsuppressed error
  loopCancelled,    \* ctx.Err()
  abortErr,
  failedNodes,      \* history: <<item, node>> whose error was not suppressed
  startedAfter      \* history: iterations started after firstErr was set

loopVars == <<abortOnErr, parallelism, loopAt, idx, iteration, firstErr, loopCancelled,
              abortErr, failedNodes, startedAfter>>

Items == 1..NItems
NotStarted == [at |-> "none"]
Chain(k) == [queue |-> <<Targets[k]>>, visited |-> {}, results |-> <<>>]
Started == [at |-> "run", k |-> 1, chain |-> Chain(1), fatal |-> FALSE, outputs |-> 0]

(***************************************************************************)
(* forEachParallelism clamps what the node asks for.                       *)
(***************************************************************************)
ForEachParallelism(asked) ==
    IF asked < 1 THEN 1 ELSE IF asked > MaxParallelism THEN MaxParallelism ELSE asked

LoopInit ==
    /\ abortOnErr \in BOOLEAN
    /\ \E asked \in Asked : parallelism = ForEachParallelism(asked)
    /\ loopAt = "head" /\ idx = 1
    /\ iteration = [i \in Items |-> NotStarted]
    /\ firstErr = FALSE /\ loopCancelled = FALSE /\ abortErr = "none"
    /\ failedNodes = {} /\ startedAfter = 0

Parallel == parallelism > 1
InFlight == {i \in Items : iteration[i].at = "run"}
Ended == {i \in Items : iteration[i].at = "end"}
AnyFatal == \E i \in Ended : iteration[i].fatal

StartsIteration(i) ==
    /\ iteration' = [iteration EXCEPT ![i] = Started]
    /\ startedAfter' = startedAfter + IF AnyFatal THEN 1 ELSE 0

----------------------------------------------------------------------------
(***************************************************************************)
(* The head of the loop.  The parallel one looks at ctx and at firstErr,   *)
(* and only then waits for a free slot.                                    *)
(***************************************************************************)
HaltsNever == FALSE
Halts == abortOnErr /\ firstErr

AtItem == loopAt = "head" /\ idx <= NItems
LeavesLoop(err) ==
    /\ loopAt' = "wait" /\ abortErr' = err
    /\ UNCHANGED <<abortOnErr, parallelism, idx, iteration, firstErr, loopCancelled, failedNodes,
                   startedAfter>>

ItemsExhausted == loopAt = "head" /\ idx > NItems /\ LeavesLoop(abortErr)
SeesCancel == AtItem /\ loopCancelled /\ LeavesLoop(IF Parallel THEN abortErr ELSE "cancelled")
HaltsDispatch == AtItem /\ Parallel /\ ~loopCancelled /\ Halts /\ LeavesLoop(abortErr)

WaitsForSlot ==
    /\ AtItem /\ Parallel /\ ~loopCancelled /\ ~Halts
    /\ loopAt' = "acquire"
    /\ UNCHANGED <<abortOnErr, parallelism, idx, iteration, firstErr, loopCancelled, abortErr,
                   failedNodes, startedAfter>>

RunsInline ==
    /\ AtItem /\ ~Parallel /\ ~loopCancelled
    /\ loopAt' = "inline" /\ StartsIteration(idx)
    /\ UNCHANGED <<abortOnErr, parallelism, idx, firstErr, loopCancelled, abortErr, failedNodes>>

Dispatch ==
    /\ loopAt = "acquire" /\ Cardinality(InFlight) < parallelism
    /\ StartsIteration(idx) /\ idx' = idx + 1 /\ loopAt' = "head"
    /\ UNCHANGED <<abortOnErr, parallelism, firstErr, loopCancelled, abortErr, failedNodes>>

(***************************************************************************)
(* runBodyChain: the next node of the queue runs; its error is suppressed  *)
(* under on_error = continue, and then fires both the error edge and the   *)
(* success edge.  A breakpoint ends the chain after the node, a cancelled  *)
(* context before the next one.                                            *)
(***************************************************************************)
Matches(e, node, ok, continued) ==
    /\ e.from = node /\ e.handle # "item"
    /\ \/ e.handle = ""
       \/ e.handle = IF ok THEN "success" ELSE "error"
       \/ continued /\ e.handle = "success"

Successors(node, ok, continued, visited) ==
    LET Follows(e) == Matches(e, node, ok, continued) /\ e.to \notin visited
        followed == SelectSeq(BodyEdges, Follows)
    IN [j \in DOMAIN followed |-> followed[j].to]

BodyStep(i, node) ==
    LET c == iteration[i].chain
        continued(ok) == ~ok /\ node \in ContinueNodes
    IN \E ok \in BOOLEAN :
          /\ iteration' = [iteration EXCEPT ![i].chain =
                [queue |-> IF node \in BodyBreakpoints THEN <<>>
                           ELSE Tail(c.queue) \o Successors(node, ok, continued(ok), c.visited \cup {node}),
                 visited |-> c.visited \cup {node},
                 results |-> Append(c.results, [failed |-> ~ok, continued |-> continued(ok)])]]
          /\ failedNodes' = IF ok \/ continued(ok) THEN failedNodes ELSE failedNodes \cup {<<i, node>>}

RunBodyNode(i) ==
    /\ iteration[i].at = "run" /\ iteration[i].chain.queue # <<>> /\ ~loopCancelled
    /\ LET node == Head(iteration[i].chain.queue)
       IN IF node \in iteration[i].chain.visited
          THEN iteration' = [iteration EXCEPT ![i].chain.queue = Tail(@)] /\ UNCHANGED failedNodes
          ELSE BodyStep(i, node)
    /\ UNCHANGED <<abortOnErr, parallelism, loopAt, idx, firstErr, loopCancelled, abortErr,
                   startedAfter>>

(***************************************************************************)
(* A chain has ended: it counts as an output when its last step did not    *)
(* fail, and as fatal when any of its steps failed unsuppressed.           *)
(***************************************************************************)
ChainEnded(i) == iteration[i].at = "run" /\ (iteration[i].chain.queue = <<>> \/ loopCancelled)

ChainFatal(results) == \E j \in DOMAIN results : results[j].failed /\ ~results[j].continued
HasOutput(results) == results # <<>> /\ ~results[Len(results)].failed

Tally(i) ==
    LET r == iteration[i].chain.results
    IN [iteration[i] EXCEPT !.fatal = @ \/ ChainFatal(r),
                            !.outputs = @ + IF HasOutput(r) THEN 1 ELSE 0]

NextChain(i) ==
    /\ ChainEnded(i) /\ iteration[i].k < Len(Targets)
    /\ iteration' = [iteration EXCEPT ![i] =
                       [Tally(i) EXCEPT !.k = @ + 1, !.chain = Chain(iteration[i].k + 1)]]
    /\ UNCHANGED <<abortOnErr, parallelism, loopAt, idx, firstErr, loopCancelled, abortErr,
                   failedNodes, startedAfter>>

IterationEnds(i) ==
    /\ ChainEnded(i) /\ iteration[i].k = Len(Targets)
    /\ LET t == Tally(i)
       IN /\ iteration' = [iteration EXCEPT ![i] =
                             [at |-> "end", fatal |-> t.fatal, outputs |-> t.outputs]]
          /\ firstErr' = (firstErr \/ (Parallel /\ t.fatal))
          /\ IF Parallel THEN UNCHANGED <<loopAt, idx, abortErr>>
             ELSE IF abortOnErr /\ t.fatal
             THEN loopAt' = "wait" /\ abortErr' = "aborted" /\ UNCHANGED idx
             ELSE loopAt' = "head" /\ idx' = idx + 1 /\ UNCHANGED abortErr
    /\ UNCHANGED <<abortOnErr, parallelism, loopCancelled, failedNodes, startedAfter>>

(***************************************************************************)
(* wg.Wait, then the results in the order of the items; a fatal iteration  *)
(* makes the node fail.  The parallel loop says nothing of a cancelled     *)
(* context.                                                                *)
(***************************************************************************)
LoopReturns ==
    /\ loopAt = "wait" /\ InFlight = {}
    /\ loopAt' = "returned"
    /\ abortErr' = IF abortErr = "none" /\ AnyFatal
                   THEN IF abortOnErr THEN "aborted" ELSE "completed with errors"
                   ELSE abortErr
    /\ UNCHANGED <<abortOnErr, parallelism, idx, iteration, firstErr, loopCancelled, failedNodes,
                   startedAfter>>

CancelLoop ==
    /\ loopAt # "returned" /\ ~loopCancelled
    /\ loopCancelled' = TRUE
    /\ UNCHANGED <<abortOnErr, parallelism, loopAt, idx, iteration, firstErr, abortErr, failedNodes,
                   startedAfter>>

LoopNext ==
    \/ ItemsExhausted \/ SeesCancel \/ HaltsDispatch \/ WaitsForSlot \/ RunsInline \/ Dispatch
    \/ LoopReturns \/ CancelLoop
    \/ \E i \in Items : RunBodyNode(i) \/ NextChain(i) \/ IterationEnds(i)

LoopSpec == LoopInit /\ [][LoopNext]_loopVars

----------------------------------------------------------------------------
(***************************************************************************)
(* Under on_error = stop, once an iteration has failed no other starts:    *)
(* none in a sequential loop, and in a parallel one only the one that was  *)
(* already waiting for a slot.                                             *)
(***************************************************************************)
StopsStarting == abortOnErr => startedAfter <= IF Parallel THEN 1 ELSE 0

(***************************************************************************)
(* A loop that returns without an error has run every item, and no error   *)
(* of its body, not even one an error edge handled, went by unsuppressed.  *)
(* A parallel loop whose context was cancelled may have left items out.    *)
(***************************************************************************)
LoopReports ==
    loopAt = "returned" /\ abortErr = "none" =>
        /\ failedNodes = {}
        /\ Ended = Items \/ (Parallel /\ loopCancelled)

\* A loop stops when it has to, and says so when something was left or failed.
LoopAccounted == StopsStarting /\ LoopReports
============================================================================
