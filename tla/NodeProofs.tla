----------------------------- MODULE NodeProofs -----------------------------
(***************************************************************************)
(* What holds inside one visit of a node, for every value of the           *)
(* constants: a for_each and its body stop when they have to and hide no   *)
(* failure (LoopBody), the workflows an agent calls nest no deeper than    *)
(* allowed (SubRuns), a node whose gate was released by the rejection made *)
(* at it never runs (LiveGate), an agent's overlapping tool calls are each *)
(* answered, checked and counted (ToolFan), and the chat memory its agent  *)
(* uses stays within its limit (ChatMemory).  The five share nothing; each *)
(* has its inductive invariant and its argument below.                     *)
(***************************************************************************)
EXTENDS LoopBody, SubRuns, LiveGate, ToolFan, ChatMemory, FiniteSetTheorems, TLAPS

(***************************************************************************)
(* A for_each stops when it has to and says so when something was left or  *)
(* failed (LoopBody), for every number of items, every body and every      *)
(* parallelism.                                                            *)
(*                                                                         *)
(* The argument: an unsuppressed error is kept by its iteration, first in  *)
(* the results of the chain, then in its fatal flag, until the loop looks  *)
(* at all the flags; and the items before idx have all been started.       *)
(***************************************************************************)
StepResults == [failed : BOOLEAN, continued : BOOLEAN]

ChainShape(c) ==
    /\ DOMAIN c = {"queue", "visited", "results"}
    /\ c.results \in Seq(StepResults)

IterationShape(r) ==
    \/ r = NotStarted
    \/ /\ r.at = "run"
       /\ DOMAIN r = {"at", "k", "chain", "fatal", "outputs"}
       /\ ChainShape(r.chain) /\ r.fatal \in BOOLEAN
    \/ r.at = "end" /\ r.fatal \in BOOLEAN

LoopTypes ==
    /\ abortOnErr \in BOOLEAN /\ firstErr \in BOOLEAN /\ loopCancelled \in BOOLEAN
    /\ loopAt \in {"head", "acquire", "inline", "wait", "returned"}
    /\ idx \in 1 .. NItems + 1 /\ startedAfter \in Nat
    /\ iteration = [i \in Items |-> iteration[i]]
    /\ \A i \in Items : IterationShape(iteration[i])

(***************************************************************************)
(* An iteration that failed unsuppressed remembers it.                     *)
(***************************************************************************)
Remembers(r) == \/ r.at = "end" /\ r.fatal
                \/ r.at = "run" /\ (r.fatal \/ ChainFatal(r.chain.results))

FailuresRemembered ==
    \A p \in failedNodes : p[1] \in Items /\ Remembers(iteration[p[1]])

(***************************************************************************)
(* Where the loop is, and which items have been started.                   *)
(***************************************************************************)
Position ==
    /\ loopAt = "acquire" => Parallel /\ idx <= NItems
    /\ loopAt = "inline" => ~Parallel /\ idx <= NItems /\ iteration[idx].at # "none"
    /\ loopAt \in {"head", "acquire", "inline"} => abortErr = "none"
    /\ \A i \in Items :
          /\ i < idx => iteration[i].at # "none"
          /\ i > idx \/ (i = idx /\ loopAt \in {"head", "acquire"}) => iteration[i].at = "none"
          /\ iteration[i].at = "run" /\ ~Parallel => loopAt = "inline" /\ i = idx

(***************************************************************************)
(* A failure stops the loop: at once, or after the item that waits.        *)
(***************************************************************************)
Stopping ==
    /\ Parallel => (firstErr <=> AnyFatal)
    /\ abortOnErr /\ ~Parallel =>
          startedAfter = 0 /\ (AnyFatal => loopAt \in {"wait", "returned"})
    /\ abortOnErr /\ Parallel =>
          startedAfter = 0 \/ (startedAfter = 1 /\ firstErr /\ loopAt # "acquire")

Complete == idx > NItems \/ (Parallel /\ loopCancelled)

Leaving ==
    /\ loopAt = "wait" /\ abortErr = "none" => Complete \/ AnyFatal
    /\ loopAt = "returned" =>
          /\ InFlight = {}
          /\ abortErr = "none" => ~AnyFatal /\ Complete

LoopInvariant == LoopTypes /\ FailuresRemembered /\ Position /\ Stopping /\ Leaving

-----------------------------------------------------------------------------
LEMMA InvariantSuffices == LoopInvariant => LoopAccounted
<1> SUFFICES ASSUME LoopInvariant PROVE LoopAccounted
  OBVIOUS
<1>1. StopsStarting
  BY DEF LoopInvariant, Stopping, StopsStarting
<1>2. LoopReports
  <2> SUFFICES ASSUME loopAt = "returned", abortErr = "none"
               PROVE  failedNodes = {} /\ (Ended = Items \/ (Parallel /\ loopCancelled))
    BY DEF LoopReports
  <2>1. ~AnyFatal /\ InFlight = {} /\ Complete
    BY DEF LoopInvariant, Leaving
  <2>2. \A i \in Items : iteration[i].at \in {"none", "end"}
    BY <2>1 DEF LoopInvariant, LoopTypes, IterationShape, NotStarted, InFlight
  <2>3. failedNodes = {}
    BY <2>1, <2>2 DEF LoopInvariant, FailuresRemembered, Remembers, AnyFatal, Ended
  <2>4. ASSUME idx > NItems PROVE Ended = Items
    BY <2>2, <2>4, ItemsAreNumbered DEF LoopInvariant, Position, Ended, Items, LoopTypes
  <2> QED
    BY <2>1, <2>3, <2>4 DEF Complete
<1> QED
  BY <1>1, <1>2 DEF LoopAccounted

LEMMA InitiallyAccounted == LoopInit => LoopInvariant
<1> SUFFICES ASSUME LoopInit PROVE LoopInvariant
  OBVIOUS
<1>1. iteration = [i \in Items |-> NotStarted]
  BY DEF LoopInit
<1>2. \A i \in Items : iteration[i] = NotStarted /\ iteration[i].at = "none"
  BY <1>1 DEF NotStarted
<1>3. LoopTypes
  <2>1. iteration = [i \in Items |-> iteration[i]]
    BY <1>1
  <2>2. \A i \in Items : IterationShape(iteration[i])
    BY <1>2 DEF IterationShape
  <2>3. idx \in 1 .. NItems + 1 /\ startedAfter \in Nat
    BY ItemsAreNumbered DEF LoopInit
  <2>4. /\ abortOnErr \in BOOLEAN /\ firstErr \in BOOLEAN /\ loopCancelled \in BOOLEAN
        /\ loopAt \in {"head", "acquire", "inline", "wait", "returned"}
    BY DEF LoopInit
  <2> QED
    BY <2>1, <2>2, <2>3, <2>4 DEF LoopTypes
<1>4. ~AnyFatal
  BY <1>2 DEF AnyFatal, Ended
<1> QED
  BY <1>2, <1>3, <1>4, ItemsAreNumbered
  DEF LoopInit, LoopInvariant, FailuresRemembered, Position, Stopping, Leaving, Items

-----------------------------------------------------------------------------
(***************************************************************************)
(* The steps that start and end nothing: the iterations stay as they are.  *)
(***************************************************************************)
LEMMA IterationsKept ==
  LoopInvariant /\ iteration' = iteration /\ parallelism' = parallelism =>
    /\ AnyFatal' <=> AnyFatal
    /\ InFlight' = InFlight
    /\ Parallel' <=> Parallel
  BY DEF AnyFatal, Ended, InFlight, Parallel

LEMMA LeavesWell ==
  ASSUME LoopInvariant, NEW err, LeavesLoop(err), loopAt = "head",
         err = "none" => Complete \/ AnyFatal
  PROVE  LoopInvariant'
<1>1. (AnyFatal' <=> AnyFatal) /\ InFlight' = InFlight /\ (Parallel' <=> Parallel)
  BY IterationsKept DEF LeavesLoop
<1>2. LoopTypes' /\ FailuresRemembered'
  BY DEF LeavesLoop, LoopInvariant, LoopTypes, FailuresRemembered
<1>3. Position'
  BY <1>1 DEF LeavesLoop, LoopInvariant, Position
<1>4. Stopping'
  BY <1>1 DEF LeavesLoop, LoopInvariant, Stopping
<1>5. Leaving'
  BY <1>1 DEF LeavesLoop, LoopInvariant, Leaving, Complete
<1> QED
  BY <1>2, <1>3, <1>4, <1>5 DEF LoopInvariant

LEMMA HeadSteps ==
  LoopInvariant /\ (ItemsExhausted \/ SeesCancel \/ HaltsDispatch) => LoopInvariant'
<1> SUFFICES ASSUME LoopInvariant, ItemsExhausted \/ SeesCancel \/ HaltsDispatch
             PROVE  LoopInvariant'
  OBVIOUS
<1>1. CASE ItemsExhausted
  BY <1>1, LeavesWell DEF ItemsExhausted, Complete
<1>2. CASE SeesCancel
  <2> DEFINE err == IF Parallel THEN abortErr ELSE "cancelled"
  <2>1. LeavesLoop(err) /\ loopAt = "head"
    BY <1>2 DEF SeesCancel, AtItem
  <2>2. err = "none" => Complete \/ AnyFatal
    BY <1>2 DEF SeesCancel, Complete
  <2> QED
    BY <2>1, <2>2, LeavesWell
<1>3. CASE HaltsDispatch
  <2>1. AnyFatal
    BY <1>3 DEF HaltsDispatch, Halts, LoopInvariant, Stopping
  <2> QED
    BY <1>3, <2>1, LeavesWell DEF HaltsDispatch, AtItem
<1> QED
  BY <1>1, <1>2, <1>3

LEMMA WaitingSteps ==
  LoopInvariant /\ (WaitsForSlot \/ LoopReturns \/ CancelLoop \/ UNCHANGED loopVars)
    => LoopInvariant'
<1> SUFFICES ASSUME LoopInvariant,
                    WaitsForSlot \/ LoopReturns \/ CancelLoop \/ UNCHANGED loopVars
             PROVE  LoopInvariant'
  OBVIOUS
<1>1. /\ iteration' = iteration /\ parallelism' = parallelism /\ idx' = idx
      /\ abortOnErr' = abortOnErr /\ firstErr' = firstErr
      /\ failedNodes' = failedNodes /\ startedAfter' = startedAfter
  BY DEF WaitsForSlot, LoopReturns, CancelLoop, loopVars
<1>2. (AnyFatal' <=> AnyFatal) /\ InFlight' = InFlight /\ (Parallel' <=> Parallel)
  BY <1>1, IterationsKept
<1>3. LoopTypes' /\ FailuresRemembered'
  BY <1>1 DEF LoopInvariant, LoopTypes, FailuresRemembered, WaitsForSlot, LoopReturns,
      CancelLoop, loopVars
<1>4. CASE WaitsForSlot
  <2>1. Position'
    BY <1>4, <1>1, <1>2 DEF WaitsForSlot, AtItem, LoopInvariant, Position
  <2>2. Stopping'
    BY <1>4, <1>1, <1>2 DEF WaitsForSlot, AtItem, Halts, LoopInvariant, Stopping
  <2>3. Leaving'
    BY <1>4, <1>1, <1>2 DEF WaitsForSlot, AtItem, LoopInvariant, Leaving
  <2> QED
    BY <1>3, <2>1, <2>2, <2>3 DEF LoopInvariant
<1>5. CASE LoopReturns
  <2>1. Position'
    BY <1>5, <1>1, <1>2 DEF LoopReturns, LoopInvariant, Position
  <2>2. Stopping'
    <3>1. loopAt' = "returned"
      BY <1>5 DEF LoopReturns
    <3> QED
      BY <3>1, <1>1, <1>2 DEF LoopInvariant, Stopping
  <2>3. Leaving'
    BY <1>5, <1>1, <1>2 DEF LoopReturns, LoopInvariant, Leaving, Complete
  <2> QED
    BY <1>3, <2>1, <2>2, <2>3 DEF LoopInvariant
<1>6. CASE CancelLoop
  <2>1. Position' /\ Stopping'
    BY <1>6, <1>1, <1>2 DEF CancelLoop, LoopInvariant, Position, Stopping
  <2>2. Leaving'
    BY <1>6, <1>1, <1>2 DEF CancelLoop, LoopInvariant, Leaving, Complete
  <2> QED
    BY <1>3, <2>1, <2>2 DEF LoopInvariant
<1>7. CASE UNCHANGED loopVars
  <2>1. Position' /\ Stopping'
    BY <1>7, <1>1, <1>2 DEF loopVars, LoopInvariant, Position, Stopping
  <2>2. Leaving'
    BY <1>7, <1>1, <1>2 DEF loopVars, LoopInvariant, Leaving, Complete
  <2> QED
    BY <1>3, <2>1, <2>2 DEF LoopInvariant
<1> QED
  BY <1>4, <1>5, <1>6, <1>7

-----------------------------------------------------------------------------
(***************************************************************************)
(* The steps that change one iteration.                                    *)
(***************************************************************************)
LEMMA OneIteration ==
  ASSUME LoopInvariant, NEW i \in Items, NEW r, IterationShape(r),
         iteration' = [iteration EXCEPT ![i] = r]
  PROVE  /\ iteration' = [j \in Items |-> iteration'[j]]
         /\ iteration'[i] = r
         /\ \A j \in Items \ {i} : iteration'[j] = iteration[j]
         /\ \A j \in Items : IterationShape(iteration'[j])
<1>1. iteration = [j \in Items |-> iteration[j]]
  BY DEF LoopInvariant, LoopTypes
<1>2. /\ iteration' = [j \in Items |-> iteration'[j]]
      /\ iteration'[i] = r
      /\ \A j \in Items \ {i} : iteration'[j] = iteration[j]
  BY <1>1
<1>3. \A j \in Items : IterationShape(iteration[j])
  BY DEF LoopInvariant, LoopTypes
<1> QED
  BY <1>2, <1>3

LEMMA Fresh == IterationShape(NotStarted) /\ IterationShape(Started)
<1>1. <<>> \in Seq(StepResults)
  OBVIOUS
<1>2. ChainShape(Chain(1))
  BY <1>1 DEF ChainShape, Chain
<1> QED
  BY <1>2 DEF IterationShape, Started, NotStarted

\* An iteration starts, and no flag has been raised or lowered by it.
LEMMA StartKeeps ==
  ASSUME LoopInvariant, NEW i \in Items, iteration[i].at = "none", StartsIteration(i)
  PROVE  /\ iteration' = [j \in Items |-> iteration'[j]]
         /\ \A j \in Items : IterationShape(iteration'[j])
         /\ iteration'[i].at = "run"
         /\ \A j \in Items \ {i} : iteration'[j] = iteration[j]
         /\ AnyFatal' <=> AnyFatal
         /\ startedAfter' \in Nat
         /\ failedNodes' = failedNodes => FailuresRemembered'
<1>1. iteration' = [iteration EXCEPT ![i] = Started]
  BY DEF StartsIteration
<1>2. /\ iteration' = [j \in Items |-> iteration'[j]]
      /\ iteration'[i] = Started
      /\ \A j \in Items \ {i} : iteration'[j] = iteration[j]
      /\ \A j \in Items : IterationShape(iteration'[j])
  BY <1>1, OneIteration, Fresh
<1>3. iteration'[i].at = "run"
  BY <1>2 DEF Started
<1>4. AnyFatal' <=> AnyFatal
  BY <1>2, <1>3 DEF AnyFatal, Ended
<1>5. startedAfter' \in Nat
  BY DEF StartsIteration, LoopInvariant, LoopTypes
<1>6. ASSUME failedNodes' = failedNodes PROVE FailuresRemembered'
  <2>1. ~Remembers(iteration[i])
    BY DEF Remembers
  <2>2. \A p \in failedNodes : p[1] \in Items \ {i} /\ Remembers(iteration[p[1]])
    BY <2>1 DEF LoopInvariant, FailuresRemembered
  <2>3. \A p \in failedNodes : p[1] \in Items /\ Remembers(iteration'[p[1]])
    BY <2>2, <1>2
  <2> QED
    BY <2>3, <1>6 DEF FailuresRemembered, Remembers
<1> QED
  BY <1>2, <1>3, <1>4, <1>5, <1>6

LEMMA StartSteps == LoopInvariant /\ (RunsInline \/ Dispatch) => LoopInvariant'
<1> SUFFICES ASSUME LoopInvariant, RunsInline \/ Dispatch
             PROVE  LoopInvariant'
  OBVIOUS
<1>1. idx \in Items /\ iteration[idx].at = "none" /\ StartsIteration(idx) /\ abortErr = "none"
  BY ItemsAreNumbered
  DEF RunsInline, Dispatch, AtItem, Items, LoopInvariant, LoopTypes, Position
<1>2. /\ iteration' = [j \in Items |-> iteration'[j]]
      /\ \A j \in Items : IterationShape(iteration'[j])
      /\ iteration'[idx].at = "run"
      /\ \A j \in Items \ {idx} : iteration'[j] = iteration[j]
      /\ AnyFatal' <=> AnyFatal
      /\ startedAfter' \in Nat
      /\ failedNodes' = failedNodes => FailuresRemembered'
  BY <1>1, StartKeeps
<1>3. /\ abortOnErr' = abortOnErr /\ firstErr' = firstErr /\ loopCancelled' = loopCancelled
      /\ abortErr' = abortErr /\ failedNodes' = failedNodes /\ parallelism' = parallelism
      /\ Parallel' <=> Parallel
      /\ startedAfter' = startedAfter + IF AnyFatal THEN 1 ELSE 0
  BY DEF RunsInline, Dispatch, StartsIteration, Parallel
<1>4. \/ ~Parallel /\ loopAt = "head" /\ loopAt' = "inline" /\ idx' = idx
      \/ Parallel /\ loopAt = "acquire" /\ loopAt' = "head" /\ idx' = idx + 1
  BY DEF RunsInline, Dispatch, AtItem, LoopInvariant, Position
<1>5. LoopTypes'
  <2>1. idx' \in 1 .. NItems + 1
    BY <1>1, <1>4, ItemsAreNumbered DEF Items
  <2> QED
    BY <1>2, <1>3, <1>4, <2>1 DEF LoopInvariant, LoopTypes
<1>6. Position'
  <2>1. \A j \in Items : j # idx => iteration'[j] = iteration[j]
    BY <1>2
  <2>2. CASE ~Parallel
    BY <1>1, <1>2, <1>3, <1>4, <2>1, <2>2, ItemsAreNumbered
    DEF LoopInvariant, LoopTypes, Position, Items
  <2>3. CASE Parallel
    BY <1>1, <1>2, <1>3, <1>4, <2>1, <2>3, ItemsAreNumbered
    DEF LoopInvariant, LoopTypes, Position, Items
  <2> QED
    BY <2>2, <2>3
<1>7. Stopping'
  BY <1>2, <1>3, <1>4 DEF LoopInvariant, Stopping
<1>8. Leaving'
  BY <1>4 DEF Leaving
<1> QED
  BY <1>2, <1>3, <1>5, <1>6, <1>7, <1>8 DEF LoopInvariant

-----------------------------------------------------------------------------
(***************************************************************************)
(* The steps within an iteration that runs on: what it has to remember, it *)
(* remembers after them.                                                   *)
(***************************************************************************)
LEMMA RunsOn ==
  ASSUME LoopInvariant, NEW i \in Items, NEW r,
         iteration[i].at = "run", r.at = "run", IterationShape(r),
         iteration' = [iteration EXCEPT ![i] = r],
         Remembers(iteration[i]) => Remembers(r),
         \A p \in failedNodes' : p \in failedNodes \/ (p[1] = i /\ Remembers(r)),
         UNCHANGED <<abortOnErr, parallelism, loopAt, idx, firstErr, loopCancelled, abortErr,
                     startedAfter>>
  PROVE  LoopInvariant'
<1>1. /\ iteration' = [j \in Items |-> iteration'[j]]
      /\ iteration'[i] = r
      /\ \A j \in Items \ {i} : iteration'[j] = iteration[j]
      /\ \A j \in Items : IterationShape(iteration'[j])
  BY OneIteration
<1>2. \A j \in Items : iteration'[j].at = iteration[j].at
  BY <1>1
<1>3. /\ AnyFatal' <=> AnyFatal
      /\ Parallel' <=> Parallel
      /\ InFlight' = InFlight
  <2>1. Ended' = Ended /\ i \notin Ended
    BY <1>2 DEF Ended
  <2>2. AnyFatal' <=> AnyFatal
    BY <2>1, <1>1 DEF AnyFatal, Ended
  <2> QED
    BY <1>2, <2>2 DEF InFlight, Parallel
<1>4. LoopTypes'
  BY <1>1 DEF LoopInvariant, LoopTypes
<1>5. FailuresRemembered'
  <2>1. \A p \in failedNodes : p[1] \in Items /\ Remembers(iteration'[p[1]])
    BY <1>1 DEF LoopInvariant, FailuresRemembered
  <2>2. \A p \in failedNodes' : p[1] \in Items /\ Remembers(iteration'[p[1]])
    BY <2>1, <1>1
  <2> QED
    BY <2>2 DEF FailuresRemembered, Remembers
<1>6. Position'
  BY <1>2, <1>3, ItemsAreNumbered DEF LoopInvariant, LoopTypes, Position, Items
<1>7. Stopping'
  BY <1>3 DEF LoopInvariant, Stopping
<1>8. Leaving'
  BY <1>3 DEF LoopInvariant, Leaving, Complete
<1> QED
  BY <1>4, <1>5, <1>6, <1>7, <1>8 DEF LoopInvariant

\* A step added to a chain loses no failure, and an unsuppressed one is one.
LEMMA ChainGrows ==
  ASSUME NEW q \in Seq(StepResults), NEW s \in StepResults
  PROVE  /\ Append(q, s) \in Seq(StepResults)
         /\ ChainFatal(q) => ChainFatal(Append(q, s))
         /\ s.failed /\ ~s.continued => ChainFatal(Append(q, s))
<1>1. /\ Append(q, s) \in Seq(StepResults)
      /\ DOMAIN q = 1 .. Len(q) /\ DOMAIN Append(q, s) = 1 .. Len(q) + 1 /\ Len(q) \in Nat
      /\ \A j \in 1 .. Len(q) : Append(q, s)[j] = q[j]
      /\ Append(q, s)[Len(q) + 1] = s
  OBVIOUS
<1>2. 1 .. Len(q) \subseteq 1 .. Len(q) + 1 /\ Len(q) + 1 \in 1 .. Len(q) + 1
  BY <1>1
<1> QED
  BY <1>1, <1>2 DEF ChainFatal

LEMMA Shapes ==
  ASSUME LoopInvariant, NEW i \in Items, iteration[i].at = "run"
  PROVE  LET t == iteration[i]
         IN /\ DOMAIN t = {"at", "k", "chain", "fatal", "outputs"} /\ t.fatal \in BOOLEAN
            /\ DOMAIN t.chain = {"queue", "visited", "results"}
            /\ t.chain.results \in Seq(StepResults)
  BY DEF LoopInvariant, LoopTypes, IterationShape, ChainShape, NotStarted

\* The running iteration whose chain is another.
LEMMA OtherChain ==
  ASSUME NEW t, NEW d, DOMAIN t = {"at", "k", "chain", "fatal", "outputs"}, t.at = "run",
         t.fatal \in BOOLEAN, DOMAIN d = {"queue", "visited", "results"},
         d.results \in Seq(StepResults), NEW r, r = [t EXCEPT !.chain = d]
  PROVE  r.at = "run" /\ r.fatal = t.fatal /\ r.chain = d /\ IterationShape(r)
<1>1. /\ DOMAIN r = {"at", "k", "chain", "fatal", "outputs"}
      /\ r.at = "run" /\ r.fatal = t.fatal /\ r.chain = d
  OBVIOUS
<1>2. ChainShape(r.chain)
  BY <1>1 DEF ChainShape
<1> QED
  BY <1>1, <1>2 DEF IterationShape

LEMMA BodySteps ==
  ASSUME LoopInvariant, NEW i \in Items, RunBodyNode(i)
  PROVE  LoopInvariant'
<1> DEFINE t == iteration[i]
           c == t.chain
           node == Head(c.queue)
<1>1. /\ t.at = "run"
      /\ UNCHANGED <<abortOnErr, parallelism, loopAt, idx, firstErr, loopCancelled, abortErr,
                     startedAfter>>
  BY DEF RunBodyNode
<1>2. /\ DOMAIN t = {"at", "k", "chain", "fatal", "outputs"} /\ t.fatal \in BOOLEAN
      /\ DOMAIN c = {"queue", "visited", "results"}
      /\ c.results \in Seq(StepResults)
  BY <1>1, Shapes
<1>3. CASE node \in c.visited
  <2> DEFINE d == [c EXCEPT !.queue = Tail(c.queue)]
             r == [t EXCEPT !.chain = d]
  <2>1. iteration' = [iteration EXCEPT ![i].chain.queue = Tail(@)] /\ failedNodes' = failedNodes
    BY <1>3 DEF RunBodyNode
  <2>2. iteration' = [iteration EXCEPT ![i] = r]
    BY <2>1
  <2>3. DOMAIN d = {"queue", "visited", "results"} /\ d.results = c.results
    BY <1>2
  <2> HIDE DEF d
  <2>4. r.at = "run" /\ r.fatal = t.fatal /\ r.chain = d /\ IterationShape(r)
    BY <1>1, <1>2, <2>3, OtherChain
  <2>5. Remembers(t) => Remembers(r)
    BY <2>3, <2>4, <1>1 DEF Remembers
  <2> QED
    BY <1>1, <2>1, <2>2, <2>4, <2>5, RunsOn
<1>4. CASE node \notin c.visited
  <2>1. PICK ok \in BOOLEAN :
          /\ iteration' = [iteration EXCEPT ![i].chain =
                [queue |-> IF node \in BodyBreakpoints THEN <<>>
                           ELSE Tail(c.queue) \o
                                Successors(node, ok, ~ok /\ node \in ContinueNodes,
                                           c.visited \cup {node}),
                 visited |-> c.visited \cup {node},
                 results |-> Append(c.results, [failed |-> ~ok,
                                                continued |-> ~ok /\ node \in ContinueNodes])]]
          /\ failedNodes' = IF ok \/ (~ok /\ node \in ContinueNodes) THEN failedNodes
                            ELSE failedNodes \cup {<<i, node>>}
    BY <1>4 DEF RunBodyNode, BodyStep
  <2> DEFINE s == [failed |-> ~ok, continued |-> ~ok /\ node \in ContinueNodes]
             q == IF node \in BodyBreakpoints THEN <<>>
                  ELSE Tail(c.queue) \o
                       Successors(node, ok, ~ok /\ node \in ContinueNodes, c.visited \cup {node})
             d == [queue |-> q, visited |-> c.visited \cup {node}, results |-> Append(c.results, s)]
             r == [t EXCEPT !.chain = d]
  <2>2. s \in StepResults
    BY DEF StepResults
  <2>3. /\ Append(c.results, s) \in Seq(StepResults)
        /\ ChainFatal(c.results) => ChainFatal(Append(c.results, s))
        /\ s.failed /\ ~s.continued => ChainFatal(Append(c.results, s))
    BY <1>2, <2>2, ChainGrows
  <2> HIDE DEF q
  <2>4. iteration' = [iteration EXCEPT ![i] = r]
    BY <2>1 DEF q
  <2>5. DOMAIN d = {"queue", "visited", "results"} /\ d.results = Append(c.results, s)
    OBVIOUS
  <2> HIDE DEF d
  <2>6. r.at = "run" /\ r.fatal = t.fatal /\ r.chain = d /\ IterationShape(r)
    <3>1. DOMAIN t = {"at", "k", "chain", "fatal", "outputs"} /\ t.at = "run" /\ t.fatal \in BOOLEAN
      BY <1>1, <1>2
    <3>2. d.results \in Seq(StepResults)
      BY <2>3, <2>5
    <3> HIDE DEF t
    <3> QED
      BY <2>5, <3>1, <3>2, OtherChain
  <2>7. Remembers(t) => Remembers(r)
    BY <2>3, <2>5, <2>6, <1>1 DEF Remembers
  <2>8. \A p \in failedNodes' : p \in failedNodes \/ (p[1] = i /\ Remembers(r))
    <3>1. CASE ok \/ node \in ContinueNodes
      BY <2>1, <3>1
    <3>2. CASE ~ok /\ node \notin ContinueNodes
      <4>1. s.failed /\ ~s.continued
        BY <3>2
      <4>2. Remembers(r)
        BY <4>1, <2>3, <2>5, <2>6 DEF Remembers
      <4>3. failedNodes' = failedNodes \cup {<<i, node>>}
        BY <2>1, <3>2
      <4> HIDE DEF r
      <4> QED
        BY <4>2, <4>3
    <3> QED
      BY <3>1, <3>2
  <2> QED
    BY <1>1, <2>4, <2>6, <2>7, <2>8, RunsOn
<1> QED
  BY <1>3, <1>4

\* The end of a chain leaves in the fatal flag what its results said.
LEMMA TallyKeeps ==
  ASSUME LoopInvariant, NEW i \in Items, iteration[i].at = "run"
  PROVE  /\ DOMAIN Tally(i) = {"at", "k", "chain", "fatal", "outputs"}
         /\ Tally(i).at = "run"
         /\ Tally(i).fatal \in BOOLEAN
         /\ Tally(i).fatal <=> iteration[i].fatal \/ ChainFatal(iteration[i].chain.results)
<1> DEFINE t == iteration[i]
           f == t.fatal \/ ChainFatal(t.chain.results)
           o == t.outputs + IF HasOutput(t.chain.results) THEN 1 ELSE 0
<1>1. Tally(i) = [t EXCEPT !.fatal = f, !.outputs = o]
  BY DEF Tally
<1>2. f \in BOOLEAN /\ (f <=> t.fatal \/ ChainFatal(t.chain.results))
  BY Shapes DEF ChainFatal
<1>3. DOMAIN t = {"at", "k", "chain", "fatal", "outputs"} /\ t.at = "run"
  BY Shapes
<1> HIDE DEF f, o
<1>4. /\ DOMAIN Tally(i) = {"at", "k", "chain", "fatal", "outputs"}
      /\ Tally(i).at = "run" /\ Tally(i).fatal = f
  BY <1>1, <1>3
<1> QED
  BY <1>2, <1>4 DEF f

LEMMA ChainSteps ==
  ASSUME LoopInvariant, NEW i \in Items, NextChain(i)
  PROVE  LoopInvariant'
<1> DEFINE t == iteration[i]
           d == Chain(t.k + 1)
           r == [Tally(i) EXCEPT !.k = @ + 1, !.chain = d]
<1>1. /\ t.at = "run" /\ failedNodes' = failedNodes
      /\ iteration' = [iteration EXCEPT ![i] = r]
      /\ UNCHANGED <<abortOnErr, parallelism, loopAt, idx, firstErr, loopCancelled, abortErr,
                     startedAfter>>
  BY DEF NextChain, ChainEnded
<1>2. /\ DOMAIN Tally(i) = {"at", "k", "chain", "fatal", "outputs"} /\ Tally(i).at = "run"
      /\ Tally(i).fatal \in BOOLEAN
      /\ Tally(i).fatal <=> t.fatal \/ ChainFatal(t.chain.results)
  BY <1>1, TallyKeeps
<1>3. ChainShape(d)
  BY DEF ChainShape, Chain
<1> HIDE DEF d
<1>4. /\ DOMAIN r = {"at", "k", "chain", "fatal", "outputs"}
      /\ r.at = "run" /\ r.fatal = Tally(i).fatal /\ r.chain = d
  BY <1>2
<1>5. IterationShape(r)
  BY <1>2, <1>3, <1>4 DEF IterationShape
<1>6. Remembers(t) => Remembers(r)
  BY <1>1, <1>2, <1>4 DEF Remembers
<1> QED
  BY <1>1, <1>4, <1>5, <1>6, RunsOn

(***************************************************************************)
(* An iteration ends: the loop goes on, or leaves because of it.           *)
(***************************************************************************)
LEMMA EndSteps ==
  ASSUME LoopInvariant, NEW i \in Items, IterationEnds(i)
  PROVE  LoopInvariant'
<1> DEFINE t == Tally(i)
           r == [at |-> "end", fatal |-> t.fatal, outputs |-> t.outputs]
<1>1. /\ iteration[i].at = "run"
      /\ iteration' = [iteration EXCEPT ![i] = r]
      /\ firstErr' = (firstErr \/ (Parallel /\ t.fatal))
      /\ UNCHANGED <<abortOnErr, parallelism, loopCancelled, failedNodes, startedAfter>>
      /\ Parallel' <=> Parallel
  BY DEF IterationEnds, ChainEnded, Parallel
<1>2. \/ Parallel /\ UNCHANGED <<loopAt, idx, abortErr>>
      \/ /\ ~Parallel /\ abortOnErr /\ t.fatal
         /\ loopAt' = "wait" /\ abortErr' = "aborted" /\ idx' = idx
      \/ /\ ~Parallel /\ ~(abortOnErr /\ t.fatal)
         /\ loopAt' = "head" /\ idx' = idx + 1 /\ abortErr' = abortErr
  BY DEF IterationEnds
<1>3. /\ t.fatal \in BOOLEAN
      /\ t.fatal <=> iteration[i].fatal \/ ChainFatal(iteration[i].chain.results)
  BY <1>1, TallyKeeps
<1>4. r.at = "end" /\ r.fatal = t.fatal /\ IterationShape(r)
  BY <1>3 DEF IterationShape
<1>5. Remembers(iteration[i]) => Remembers(r)
  BY <1>1, <1>3, <1>4 DEF Remembers
<1> HIDE DEF r
<1>6. /\ iteration' = [j \in Items |-> iteration'[j]]
      /\ iteration'[i] = r
      /\ \A j \in Items \ {i} : iteration'[j] = iteration[j]
      /\ \A j \in Items : IterationShape(iteration'[j])
  BY <1>1, <1>4, OneIteration
<1>7. AnyFatal' <=> AnyFatal \/ t.fatal
  BY <1>1, <1>4, <1>6 DEF AnyFatal, Ended
<1>8. ~Parallel => loopAt = "inline" /\ i = idx /\ abortErr = "none"
  BY <1>1 DEF LoopInvariant, Position
<1>9. LoopTypes'
  <2>1. idx' \in 1 .. NItems + 1
    BY <1>2, <1>8, ItemsAreNumbered DEF LoopInvariant, LoopTypes, Items
  <2>2. loopAt' \in {"head", "acquire", "inline", "wait", "returned"}
    BY <1>2 DEF LoopInvariant, LoopTypes
  <2>3. firstErr' \in BOOLEAN
    BY <1>1, <1>3 DEF LoopInvariant, LoopTypes
  <2> QED
    BY <1>1, <1>6, <2>1, <2>2, <2>3 DEF LoopInvariant, LoopTypes
<1>10. FailuresRemembered'
  <2>1. \A p \in failedNodes : p[1] \in Items /\ Remembers(iteration'[p[1]])
    BY <1>5, <1>6 DEF LoopInvariant, FailuresRemembered
  <2> QED
    BY <1>1, <2>1 DEF FailuresRemembered, Remembers
<1>11. Position'
  <2>1. CASE Parallel
    BY <1>1, <1>2, <1>4, <1>6, <2>1, ItemsAreNumbered DEF LoopInvariant, LoopTypes, Position, Items
  <2>2. CASE ~Parallel
    BY <1>1, <1>2, <1>4, <1>6, <1>8, <2>2, ItemsAreNumbered
    DEF LoopInvariant, LoopTypes, Position, Items
  <2> QED
    BY <2>1, <2>2
<1>12. Stopping'
  BY <1>1, <1>2, <1>3, <1>7, <1>8 DEF LoopInvariant, Stopping
<1>13. Leaving'
  BY <1>1, <1>2, <1>7, <1>8 DEF LoopInvariant, Leaving, Complete, InFlight
<1> QED
  BY <1>9, <1>10, <1>11, <1>12, <1>13 DEF LoopInvariant

-----------------------------------------------------------------------------
LEMMA StepIsAccounted == LoopInvariant /\ [LoopNext]_loopVars => LoopInvariant'
  BY HeadSteps, WaitingSteps, StartSteps, BodySteps, ChainSteps, EndSteps DEF LoopNext

(***************************************************************************)
(* Under on_error = stop no iteration starts after a failure, save in a    *)
(* parallel loop the one that already waited for a slot; and a loop that   *)
(* returns no error ran every item and had no unsuppressed failure, unless *)
(* it is parallel and its context was cancelled.  For every number of      *)
(* items, every body and every parallelism.                                *)
(***************************************************************************)
THEOREM LoopIsAccounted == LoopSpec => []LoopAccounted
<1>1. LoopInit => LoopInvariant
  BY InitiallyAccounted
<1>2. LoopInvariant /\ [LoopNext]_loopVars => LoopInvariant'
  BY StepIsAccounted
<1>3. LoopInvariant => LoopAccounted
  BY InvariantSuffices
<1> QED
  BY <1>1, <1>2, <1>3, PTL DEF LoopSpec

-----------------------------------------------------------------------------
(***************************************************************************)
(* The calls of sub-workflows nest at most MaxDepth deep, stay in the      *)
(* tenant of the run, and enter no cycle but a workflow's call of itself   *)
(* (SubRuns), for every set of workflows, every graph of their nodes and   *)
(* every number of calls.                                                  *)
(*                                                                         *)
(* The argument: the chain of callers that the context carries is exactly  *)
(* the calls below a frame, whatever frontier the frame was started from.  *)
(* A target that is not on the chain can only be the caller itself, and    *)
(* from then on the caller is on the chain.                                *)
(***************************************************************************)
IsFrame(f) ==
    /\ DOMAIN f = {"wf", "ancestors", "calls", "at", "queue", "visited"}
    /\ f.wf \in Workflows /\ f.ancestors \in Seq(Workflows)

Stacked ==
    /\ \E S : frames \in Seq(S)
    /\ \A d \in 1 .. Depth : IsFrame(frames[d])

(***************************************************************************)
(* The chain of a frame is the workflows of the frames below it.           *)
(***************************************************************************)
ChainIsTheStack ==
    \A d \in 1 .. Depth :
        /\ Len(frames[d].ancestors) = d - 1
        /\ \A i \in 1 .. d - 1 : frames[d].ancestors[i] = frames[i].wf

NestingInvariant == Stacked /\ ChainIsTheStack /\ NestingBounded

-----------------------------------------------------------------------------
LEMMA InitiallyNested == SubInit => NestingInvariant
<1> SUFFICES ASSUME SubInit PROVE NestingInvariant
  OBVIOUS
<1>1. frames = <<>>
  BY DEF SubInit
<1>2. frames \in Seq({}) /\ Depth = 0 /\ DOMAIN frames = {}
  BY <1>1 DEF Depth
<1>3. Stacked /\ ChainIsTheStack
  BY <1>2 DEF Stacked, ChainIsTheStack
<1> QED
  BY <1>2, <1>3, NestingAssumption DEF NestingInvariant, NestingBounded

LEMMA StackDomain ==
  ASSUME Stacked
  PROVE  Depth \in Nat /\ DOMAIN frames = 1 .. Depth
  BY DEF Stacked, Depth

\* The steps that end the pass.
LEMMA Emptied == ASSUME frames' = <<>> PROVE NestingInvariant'
<1>1. frames' \in Seq({}) /\ Depth' = 0 /\ DOMAIN frames' = {}
  BY DEF Depth
<1>2. Stacked' /\ ChainIsTheStack'
  BY <1>1 DEF Stacked, ChainIsTheStack
<1> QED
  BY <1>1, <1>2, NestingAssumption DEF NestingInvariant, NestingBounded

\* The steps of the call on top: it keeps its workflow and its chain.
LEMMA TopMoves ==
  ASSUME NestingInvariant, Depth > 0, NEW f, Becomes(f), IsFrame(f),
         f.wf = This.wf, f.ancestors = This.ancestors
  PROVE  NestingInvariant'
<1>1. Depth \in Nat /\ DOMAIN frames = 1 .. Depth
  BY StackDomain DEF NestingInvariant
<1>2. PICK S : frames \in Seq(S)
  BY DEF NestingInvariant, Stacked
<1>3. frames' \in Seq(S \cup {f}) /\ Len(frames') = Len(frames)
  BY <1>1, <1>2 DEF Becomes, Depth
<1>4. Depth' = Depth /\ DOMAIN frames' = 1 .. Depth
  BY <1>3 DEF Depth
<1>5. /\ frames'[Depth] = f
      /\ \A i \in 1 .. Depth : i # Depth => frames'[i] = frames[i]
  BY <1>1 DEF Becomes
<1>6. \A i \in 1 .. Depth : /\ frames'[i].wf = frames[i].wf
                            /\ frames'[i].ancestors = frames[i].ancestors
                            /\ IsFrame(frames'[i])
  BY <1>5 DEF This, NestingInvariant, Stacked
<1>7. Stacked'
  <2>1. \E T : frames' \in Seq(T)
    BY <1>3
  <2>2. \A d \in 1 .. Depth' : IsFrame(frames'[d])
    BY <1>4, <1>6
  <2> QED
    BY <2>1, <2>2 DEF Stacked
<1>8. ChainIsTheStack'
  <2>1. \A d \in 1 .. Depth :
           /\ Len(frames'[d].ancestors) = d - 1
           /\ \A i \in 1 .. d - 1 : frames'[d].ancestors[i] = frames'[i].wf
    <3> TAKE d \in 1 .. Depth
    <3>1. /\ Len(frames[d].ancestors) = d - 1
          /\ \A i \in 1 .. d - 1 : frames[d].ancestors[i] = frames[i].wf
      BY DEF NestingInvariant, ChainIsTheStack
    <3>2. frames'[d].ancestors = frames[d].ancestors
      BY <1>6
    <3>3. \A i \in 1 .. d - 1 : i \in 1 .. Depth
      BY <1>1
    <3>4. \A i \in 1 .. d - 1 : frames'[i].wf = frames[i].wf
      BY <1>6, <3>3
    <3> QED
      BY <3>1, <3>2, <3>4
  <2> QED
    BY <1>4, <2>1 DEF ChainIsTheStack
<1>9. NestingBounded'
  BY <1>1, <1>4, <1>6 DEF NestingInvariant, NestingBounded
<1> QED
  BY <1>7, <1>8, <1>9 DEF NestingInvariant

LEMMA WalkSteps ==
  NestingInvariant /\ (SkipNode \/ StartNode \/ FinishNode) => NestingInvariant'
<1> SUFFICES ASSUME NestingInvariant, SkipNode \/ StartNode \/ FinishNode
             PROVE  NestingInvariant'
  OBVIOUS
<1>1. Depth > 0
  BY DEF SkipNode, StartNode, FinishNode, Walking
<1>2. IsFrame(This)
  BY <1>1, StackDomain DEF NestingInvariant, Stacked, This
<1> DEFINE Keeps(f) == IsFrame(f) /\ f.wf = This.wf /\ f.ancestors = This.ancestors
<1>3. CASE SkipNode
  <2> DEFINE n == Head(This.queue)
             f == [This EXCEPT !.queue = Tail(@), !.visited = @ \cup {n}]
  <2>1. Becomes(f)
    BY <1>3 DEF SkipNode
  <2>2. Keeps(f)
    BY <1>2 DEF IsFrame
  <2> QED
    BY <1>1, <2>1, <2>2, TopMoves
<1>4. CASE StartNode
  <2> DEFINE n == Head(This.queue)
             f == [This EXCEPT !.at = "node", !.calls = 0, !.visited = @ \cup {n}]
  <2>1. Becomes(f)
    BY <1>4 DEF StartNode
  <2>2. Keeps(f)
    BY <1>2 DEF IsFrame
  <2> QED
    BY <1>1, <2>1, <2>2, TopMoves
<1>5. CASE FinishNode
  <2> DEFINE rest == Tail(This.queue) \o After(This.wf, Head(This.queue))
             f == [This EXCEPT !.at = "walk", !.queue = rest]
  <2>1. Becomes(f)
    BY <1>5 DEF FinishNode
  <2> HIDE DEF rest
  <2>2. Keeps(f)
    BY <1>2 DEF IsFrame
  <2> QED
    BY <1>1, <2>1, <2>2, TopMoves
<1> QED
  BY <1>3, <1>4, <1>5

LEMMA PassStarts == NestingInvariant /\ RunFromCheckpoint => NestingInvariant'
<1> SUFFICES ASSUME RunFromCheckpoint PROVE NestingInvariant'
  OBVIOUS
<1> DEFINE f == Frame(Root, <<>>, executionState)
<1>1. frames' = <<f>>
  BY DEF RunFromCheckpoint
<1>2. IsFrame(f) /\ f.wf = Root /\ f.ancestors = <<>>
  BY NestingAssumption DEF Frame, IsFrame
<1> HIDE DEF f
<1>3. /\ frames' \in Seq({f}) /\ Depth' = 1 /\ DOMAIN frames' = 1 .. 1
      /\ frames'[1] = f
  BY <1>1 DEF Depth
<1>4. Stacked'
  BY <1>2, <1>3 DEF Stacked
<1>5. ChainIsTheStack'
  BY <1>2, <1>3 DEF ChainIsTheStack
<1>6. NestingBounded'
  BY <1>2, <1>3, NestingAssumption DEF NestingBounded
<1> QED
  BY <1>4, <1>5, <1>6 DEF NestingInvariant

\* The innermost call returns: the stack below it is as it was.
LEMMA CallReturns == NestingInvariant /\ SubRunReturns => NestingInvariant'
<1> SUFFICES ASSUME NestingInvariant, SubRunReturns PROVE NestingInvariant'
  OBVIOUS
<1>1. Depth \in Nat /\ DOMAIN frames = 1 .. Depth
  BY StackDomain DEF NestingInvariant
<1>2. PICK S : frames \in Seq(S)
  BY DEF NestingInvariant, Stacked
<1>3. /\ frames' \in Seq(S) /\ Depth' = Depth - 1 /\ Depth > 1
      /\ DOMAIN frames' = 1 .. Depth - 1
      /\ \A i \in 1 .. Depth - 1 : frames'[i] = frames[i]
  BY <1>1, <1>2 DEF SubRunReturns, Depth
<1>4. Stacked'
  BY <1>1, <1>3 DEF NestingInvariant, Stacked, IsFrame
<1>5. ChainIsTheStack'
  BY <1>1, <1>3 DEF NestingInvariant, ChainIsTheStack
<1>6. NestingBounded'
  BY <1>1, <1>3, NestingAssumption DEF NestingInvariant, NestingBounded
<1> QED
  BY <1>4, <1>5, <1>6 DEF NestingInvariant

(***************************************************************************)
(* A call of a workflow as a tool.                                         *)
(***************************************************************************)
LEMMA CallNests ==
  ASSUME NestingInvariant, Depth > 0, NEW target, MayDispatch(This, target),
         NEW caller, IsFrame(caller), caller.wf = This.wf, caller.ancestors = This.ancestors,
         NEW g, IsFrame(g), g.wf = target, g.ancestors = WithAncestor(This),
         frames' = [frames EXCEPT ![Depth] = caller] \o <<g>>
  PROVE  NestingInvariant'
<1> DEFINE base == [frames EXCEPT ![Depth] = caller]
<1>1. Depth \in Nat /\ DOMAIN frames = 1 .. Depth
  BY StackDomain DEF NestingInvariant
<1>2. PICK S : frames \in Seq(S)
  BY DEF NestingInvariant, Stacked
<1>3. base \in Seq(S \cup {caller, g}) /\ Len(base) = Depth
  <2>1. frames \in Seq(S \cup {caller, g}) /\ caller \in S \cup {caller, g}
    BY <1>2
  <2>2. Depth = Len(frames)
    BY DEF Depth
  <2>3. Depth \in 1 .. Depth
    BY <1>1
  <2>4. [frames EXCEPT ![Depth] = caller] \in Seq(S \cup {caller, g})
    BY <2>1, <2>2, <2>3
  <2>5. Len([frames EXCEPT ![Depth] = caller]) = Len(frames)
    BY <2>1, <2>2, <2>3
  <2> QED
    BY <2>2, <2>4, <2>5
<1>4. /\ base[Depth] = caller
      /\ \A i \in 1 .. Depth : i # Depth => base[i] = frames[i]
  BY <1>1
<1> HIDE DEF base
<1>5. frames' = base \o <<g>>
  BY DEF base
<1>6. /\ frames' \in Seq(S \cup {caller, g}) /\ Len(frames') = Depth + 1
      /\ frames'[Depth + 1] = g
      /\ \A i \in 1 .. Depth : frames'[i] = base[i]
  <2>1. <<g>> \in Seq(S \cup {caller, g}) /\ Len(<<g>>) = 1 /\ <<g>>[1] = g
    OBVIOUS
  <2>2. frames' \in Seq(S \cup {caller, g}) /\ Len(frames') = Depth + 1
    <3>1. base \o <<g>> \in Seq(S \cup {caller, g})
      BY <1>3, <2>1
    <3>2. Len(base \o <<g>>) = Len(base) + Len(<<g>>)
      BY <1>3, <2>1
    <3> QED
      BY <1>3, <1>5, <2>1, <3>1, <3>2
  <2>3. \A i \in 1 .. Depth : frames'[i] = base[i]
    BY <1>1, <1>3, <1>5, <2>1
  <2>4. frames'[Depth + 1] = g
    BY <1>1, <1>3, <1>5, <2>1
  <2> QED
    BY <2>2, <2>3, <2>4
<1>7. Depth' = Depth + 1 /\ DOMAIN frames' = 1 .. Depth + 1
  BY <1>6 DEF Depth
<1>8. \A i \in 1 .. Depth : /\ frames'[i].wf = frames[i].wf
                            /\ frames'[i].ancestors = frames[i].ancestors
                            /\ IsFrame(frames'[i])
  BY <1>4, <1>6 DEF This, NestingInvariant, Stacked
<1>9. \A d \in 1 .. Depth + 1 : d \in 1 .. Depth \/ d = Depth + 1
  BY <1>1
<1>10. Stacked'
  BY <1>6, <1>7, <1>8, <1>9 DEF Stacked, IsFrame
<1>11. /\ Len(This.ancestors) = Depth - 1 /\ This.ancestors \in Seq(Workflows)
       /\ This.wf \in Workflows
       /\ \A i \in 1 .. Depth - 1 : This.ancestors[i] = frames[i].wf
  <2>1. Depth \in 1 .. Depth
    BY <1>1
  <2> QED
    BY <2>1 DEF NestingInvariant, Stacked, IsFrame, ChainIsTheStack, This
<1>12. ChainIsTheStack'
  <2>1. \A d \in 1 .. Depth :
           /\ Len(frames'[d].ancestors) = d - 1
           /\ \A i \in 1 .. d - 1 : frames'[d].ancestors[i] = frames'[i].wf
    <3>1. \A d \in 1 .. Depth :
             /\ Len(frames[d].ancestors) = d - 1
             /\ \A i \in 1 .. d - 1 : frames[d].ancestors[i] = frames[i].wf
      BY DEF NestingInvariant, ChainIsTheStack
    <3>2. \A d \in 1 .. Depth : \A i \in 1 .. d - 1 : i \in 1 .. Depth
      BY <1>1
    <3> QED
      BY <1>8, <3>1, <3>2
  <2>2. /\ Len(g.ancestors) = Depth
        /\ \A i \in 1 .. Depth - 1 : g.ancestors[i] = frames[i].wf
        /\ g.ancestors[Depth] = This.wf
    BY <1>1, <1>11 DEF WithAncestor
  <2>3. \A i \in 1 .. Depth : g.ancestors[i] = frames'[i].wf
    BY <1>1, <1>8, <2>2 DEF This
  <2>4. /\ Len(frames'[Depth + 1].ancestors) = (Depth + 1) - 1
        /\ \A i \in 1 .. (Depth + 1) - 1 : frames'[Depth + 1].ancestors[i] = frames'[i].wf
    <3>1. (Depth + 1) - 1 = Depth
      BY <1>1
    <3> QED
      BY <3>1, <1>6, <2>2, <2>3
  <2> QED
    BY <1>7, <1>9, <2>1, <2>4 DEF ChainIsTheStack
<1>13. NestingBounded'
  <2>1. Depth + 1 <= MaxDepth + 1
    BY <1>1, <1>11, NestingAssumption DEF MayDispatch
  <2>2. \A i \in 1 .. Depth : frames[i].wf = target => i = Depth
    <3>1. \A i \in 1 .. Depth : i # Depth => i \in 1 .. Depth - 1
      BY <1>1
    <3>2. \A i \in 1 .. Depth - 1 : This.ancestors[i] # target
      BY <1>1, <1>11 DEF MayDispatch, Elems
    <3> QED
      BY <1>11, <3>1, <3>2
  <2>3. frames'[Depth + 1].wf = target
    BY <1>6
  <2>4. \A i, j \in 1 .. Depth + 1 : frames'[i].wf = frames'[j].wf => i - j \in {-1, 0, 1}
    <3>1. \A i, j \in 1 .. Depth : frames'[i].wf = frames'[j].wf => i - j \in {-1, 0, 1}
      BY <1>1, <1>8 DEF NestingInvariant, NestingBounded
    <3>2. \A i \in 1 .. Depth : frames'[i].wf = frames'[Depth + 1].wf =>
              i - (Depth + 1) \in {-1, 0, 1} /\ (Depth + 1) - i \in {-1, 0, 1}
      BY <1>1, <1>8, <2>2, <2>3
    <3>3. (Depth + 1) - (Depth + 1) \in {-1, 0, 1}
      BY <1>1
    <3> QED
      BY <1>9, <3>1, <3>2, <3>3
  <2>5. \A i \in 1 .. Depth + 1 : TenantOf[frames'[i].wf] = TenantOf[Root]
    <3>1. \A i \in 1 .. Depth : TenantOf[frames'[i].wf] = TenantOf[Root]
      BY <1>1, <1>8 DEF NestingInvariant, NestingBounded
    <3>2. TenantOf[target] = TenantOf[Root]
      BY <1>1 DEF MayDispatch, This, NestingInvariant, NestingBounded
    <3> QED
      BY <1>9, <2>3, <3>1, <3>2
  <2> QED
    BY <1>7, <2>1, <2>4, <2>5 DEF NestingBounded
<1> QED
  BY <1>10, <1>12, <1>13 DEF NestingInvariant

LEMMA Dispatches ==
  ASSUME NestingInvariant, NEW target \in Workflows, DispatchSubWorkflow(target)
  PROVE  NestingInvariant'
<1> DEFINE caller == [This EXCEPT !.calls = @ + 1]
           g == Frame(target, WithAncestor(This), priorState)
<1>1. Depth > 0
  BY DEF DispatchSubWorkflow, CallsTool
<1>2. IsFrame(This)
  BY <1>1, StackDomain DEF NestingInvariant, Stacked, This
<1>3. IsFrame(caller) /\ caller.wf = This.wf /\ caller.ancestors = This.ancestors
  BY <1>2 DEF IsFrame
<1>4. IsFrame(g) /\ g.wf = target /\ g.ancestors = WithAncestor(This)
  <2>1. WithAncestor(This) \in Seq(Workflows)
    BY <1>2 DEF WithAncestor, IsFrame
  <2> QED
    BY <2>1 DEF Frame, IsFrame
<1>5. frames' = IF MayDispatch(This, target)
                THEN [frames EXCEPT ![Depth] = caller] \o <<g>>
                ELSE [frames EXCEPT ![Depth] = caller]
  BY DEF DispatchSubWorkflow
<1> HIDE DEF caller, g
<1>6. CASE MayDispatch(This, target)
  <2>1. frames' = [frames EXCEPT ![Depth] = caller] \o <<g>>
    BY <1>5, <1>6
  <2> QED
    BY <1>1, <1>3, <1>4, <1>6, <2>1, CallNests
<1>7. CASE ~MayDispatch(This, target)
  <2>1. Becomes(caller)
    BY <1>5, <1>7 DEF Becomes
  <2> QED
    BY <1>1, <1>3, <2>1, TopMoves
<1> QED
  BY <1>6, <1>7

-----------------------------------------------------------------------------
LEMMA StepNests == NestingInvariant /\ [SubNext]_subVars => NestingInvariant'
<1> SUFFICES ASSUME NestingInvariant, [SubNext]_subVars PROVE NestingInvariant'
  OBVIOUS
<1>1. CASE SubNext
  <2>1. CASE RunReturns \/ PassLost
    BY <2>1, Emptied DEF RunReturns, PassLost
  <2>2. CASE RunFromCheckpoint \/ SkipNode \/ StartNode \/ FinishNode \/ SubRunReturns
    BY <2>2, PassStarts, WalkSteps, CallReturns
  <2>3. CASE \E w \in Workflows : DispatchSubWorkflow(w)
    BY <2>3, Dispatches
  <2> QED
    BY <1>1, <2>1, <2>2, <2>3 DEF SubNext
<1>2. CASE UNCHANGED subVars
  <2>1. frames' = frames
    BY <1>2 DEF subVars
  <2>2. Depth' = Depth
    BY <2>1 DEF Depth
  <2>3. Stacked'
    BY <2>1, <2>2 DEF NestingInvariant, Stacked
  <2>4. ChainIsTheStack'
    BY <2>1, <2>2 DEF NestingInvariant, ChainIsTheStack
  <2>5. NestingBounded'
    BY <2>1, <2>2 DEF NestingInvariant, NestingBounded
  <2> QED
    BY <2>3, <2>4, <2>5 DEF NestingInvariant
<1> QED
  BY <1>1, <1>2

(***************************************************************************)
(* Calls of sub-workflows (dispatchSubWorkflow) nest at most MaxDepth deep *)
(* below the run, never leave its tenant, and enter no cycle except that a *)
(* workflow may call itself once; whatever the workflows, and whichever    *)
(* frontier the passes were resumed from.                                  *)
(***************************************************************************)
THEOREM NestingIsBounded == SubSpec => []NestingBounded
<1>1. SubInit => NestingInvariant
  BY InitiallyNested
<1>2. NestingInvariant /\ [SubNext]_subVars => NestingInvariant'
  BY StepNests
<1>3. NestingInvariant => NestingBounded
  BY DEF NestingInvariant
<1> QED
  BY <1>1, <1>2, <1>3, PTL DEF SubSpec

-----------------------------------------------------------------------------
(***************************************************************************)
(* LiveGate.  A rejection token of a gate is on its way only after the     *)
(* flag oobRejected has been set, and nothing resets the flag before that  *)
(* gate has let the pass go; a token left over from an earlier gate does   *)
(* not pass for one of the current gate.                                   *)
(***************************************************************************)
Early == {"visit", "paused", "gate", "mirror", "register"}
Listening == {"wait", "approved", "rejected", "clear", "clearRejected"}
Stages == Early \cup Listening \cup {"run", "left"}

PassShape ==
    /\ DOMAIN pass = {"node", "at", "rec"} /\ pass.node \in Nat /\ pass.at \in Stages
    /\ oobRejected \in BOOLEAN
    /\ \E S : continueCh \in Seq(S)

(***************************************************************************)
(* The tee lives while a gate listens, and sends that gate's decisions.    *)
(***************************************************************************)
TeeAtGate ==
    /\ tee.at \in {"none", "reading", "sending"}
    /\ tee.at # "none" => pass.at \in Listening
    /\ tee.at = "sending" => tee.token \in {<<"approve", pass.node>>, <<"reject", pass.node>>}

Rejections == {n \in Nat : \E k \in DOMAIN continueCh : continueCh[k] = <<"reject", n>>}

TokensOfPast ==
    \A n \in Rejections : n <= pass.node /\ (n = pass.node => pass.at \notin Early)

RejectionRecorded ==
    /\ pass.at \in Listening /\ pass.node \in Rejections => oobRejected
    /\ tee.at = "sending" /\ tee.token = OwnRejection => oobRejected

RejectedStay ==
    \A n \in rejectedGates :
        /\ n \in Nat /\ n <= pass.node /\ n \notin nodesRun
        /\ n = pass.node => pass.at \in {"rejected", "clearRejected", "left"}

RunsBehind ==
    \A n \in nodesRun : n \in Nat /\ (n < pass.node \/ (n = pass.node /\ pass.at = "left"))

GateInvariant ==
    /\ PassShape /\ TeeAtGate /\ TokensOfPast /\ RejectionRecorded /\ RejectedStay /\ RunsBehind

-----------------------------------------------------------------------------
LEMMA RejectionsHold == GateInvariant => RejectionHolds
  BY DEF GateInvariant, RejectedStay, RejectionHolds

LEMMA InitiallyQuiet == GateInit => GateInvariant
<1> SUFFICES ASSUME GateInit PROVE GateInvariant
  OBVIOUS
<1>1. /\ DOMAIN pass = {"node", "at", "rec"} /\ pass.node = 1 /\ pass.at = "visit"
      /\ oobRejected = FALSE /\ tee.at = "none"
  BY DEF GateInit, TeeStopped
<1>2. continueCh \in Seq({}) /\ DOMAIN continueCh = {}
  BY DEF GateInit
<1>3. PassShape
  <2>1. \E S : continueCh \in Seq(S)
    BY <1>2
  <2>2. pass.at \in Stages /\ pass.node \in Nat
    BY <1>1 DEF Stages, Early
  <2> QED
    BY <1>1, <2>1, <2>2 DEF PassShape
<1>4. Rejections = {}
  BY <1>2 DEF Rejections
<1>5. TeeAtGate /\ TokensOfPast /\ RejectionRecorded
  BY <1>1, <1>4 DEF TeeAtGate, TokensOfPast, RejectionRecorded
<1>6. RejectedStay /\ RunsBehind
  BY DEF GateInit, RejectedStay, RunsBehind
<1> QED
  BY <1>3, <1>5, <1>6 DEF GateInvariant

(***************************************************************************)
(* What the steps of everybody else leave alone.                           *)
(***************************************************************************)
LEMMA Undisturbed ==
  ASSUME GateInvariant,
         UNCHANGED <<pass, continueCh, tee, oobRejected, rejectedGates, nodesRun>>
  PROVE  GateInvariant'
<1>1. Rejections' = Rejections
  BY DEF Rejections
<1>2. PassShape' /\ TeeAtGate'
  BY DEF GateInvariant, PassShape, TeeAtGate
<1>3. TokensOfPast' /\ RejectionRecorded'
  BY <1>1 DEF GateInvariant, TokensOfPast, RejectionRecorded, OwnRejection
<1>4. RejectedStay' /\ RunsBehind'
  BY DEF GateInvariant, RejectedStay, RunsBehind
<1> QED
  BY <1>2, <1>3, <1>4 DEF GateInvariant

LEMMA OtherSteps ==
  ASSUME GateInvariant,
         \/ HeartbeatLost \/ ContinueRun
         \/ \E ids \in Edits : SetBreakpoints(ids)
         \/ \E c \in ApiCalls : Api(c)
         \/ UNCHANGED gateVars
  PROVE  GateInvariant'
<1>1. CASE HeartbeatLost
  BY <1>1, Undisturbed DEF HeartbeatLost, gateChannels, gateHistory
<1>2. CASE ContinueRun
  BY <1>2, Undisturbed DEF ContinueRun, gateDoc
<1>3. CASE \E ids \in Edits : SetBreakpoints(ids)
  BY <1>3, Undisturbed DEF SetBreakpoints, gateChannels
<1>4. CASE \E c \in ApiCalls : Api(c)
  <2>1. PICK c \in ApiCalls : Api(c)
    BY <1>4
  <2>2. CASE \E verdict \in BOOLEAN : SubmitRunApproval(c, verdict)
    BY <2>2, Undisturbed DEF SubmitRunApproval, gateDoc, gateChannels, gateHistory
  <2>3. CASE ApplyDecisionAcrossPaths(c)
    BY <2>3, Undisturbed DEF ApplyDecisionAcrossPaths, gateDoc, gateHistory
  <2>4. CASE CancelOrphanedApproval(c)
    BY <2>4, Undisturbed DEF CancelOrphanedApproval, gateChannels, gateHistory
  <2>5. CASE CancelRun(c)
    BY <2>5, Undisturbed DEF CancelRun, gateDoc, gateHistory
  <2>6. CASE CancelRunWrites(c)
    BY <2>6, Undisturbed DEF CancelRunWrites, gateChannels, gateHistory
  <2> QED
    BY <2>1, <2>2, <2>3, <2>4, <2>5, <2>6 DEF Api
<1>5. CASE UNCHANGED gateVars
  BY <1>5, Undisturbed DEF gateVars, gateDoc, gateChannels, gateHistory
<1> QED
  BY <1>1, <1>2, <1>3, <1>4, <1>5

(***************************************************************************)
(* The pass up to a gate: no rejection of the current gate exists yet.     *)
(***************************************************************************)
LEMMA MovesWell ==
  ASSUME GateInvariant, NEW s \in Stages, NEW r, pass' = [pass EXCEPT !.at = s, !.rec = r]
  PROVE  DOMAIN pass' = {"node", "at", "rec"} /\ pass'.node = pass.node /\ pass'.at = s
  BY DEF GateInvariant, PassShape

LEMMA BeforeTheGate ==
  ASSUME GateInvariant, pass.at \in Early,
         NEW s \in Early \cup {"run", "left"}, NEW r, pass' = [pass EXCEPT !.at = s, !.rec = r],
         continueCh' = continueCh \/ continueCh' = <<>>,
         UNCHANGED <<tee, oobRejected, rejectedGates, nodesRun>>
  PROVE  GateInvariant'
<1>1. DOMAIN pass' = {"node", "at", "rec"} /\ pass'.node = pass.node /\ pass'.at = s
  BY MovesWell DEF Stages
<1>2. /\ \E S : continueCh' \in Seq(S)
      /\ Rejections' \subseteq Rejections
  <2>1. CASE continueCh' = continueCh
    BY <2>1 DEF GateInvariant, PassShape, Rejections
  <2>2. CASE continueCh' = <<>>
    <3>1. continueCh' \in Seq({}) /\ DOMAIN continueCh' = {}
      BY <2>2
    <3> QED
      BY <3>1 DEF Rejections
  <2> QED
    BY <2>1, <2>2
<1>3. PassShape'
  BY <1>1, <1>2 DEF GateInvariant, PassShape, Stages
<1>4. pass.at \notin Listening /\ s \notin Listening
  BY DEF Early, Listening
<1>5. TeeAtGate'
  BY <1>1, <1>4 DEF GateInvariant, TeeAtGate
<1>6. TokensOfPast'
  BY <1>1, <1>2 DEF GateInvariant, TokensOfPast
<1>7. RejectionRecorded'
  BY <1>1, <1>4, <1>5 DEF GateInvariant, TeeAtGate, RejectionRecorded
<1>8. pass.node \notin rejectedGates /\ pass.node \notin nodesRun
  BY DEF Early, GateInvariant, RejectedStay, RunsBehind, PassShape
<1>9. RejectedStay' /\ RunsBehind'
  BY <1>1, <1>8 DEF GateInvariant, RejectedStay, RunsBehind
<1> QED
  BY <1>3, <1>5, <1>6, <1>7, <1>9 DEF GateInvariant

LEMMA EarlySteps ==
  ASSUME GateInvariant,
         Visit \/ WaitAtBreakpoint \/ RequireNodeApproval \/ PersistPendingApprovalMirror
  PROVE  GateInvariant'
<1> DEFINE Kept == UNCHANGED <<tee, oobRejected, rejectedGates, nodesRun>>
           Channel == continueCh' = continueCh \/ continueCh' = <<>>
           MovesTo(s, r) == pass' = [pass EXCEPT !.at = s, !.rec = r]
<1>1. pass.at \in Early
  BY DEF Visit, WaitAtBreakpoint, RequireNodeApproval, PersistPendingApprovalMirror, Stage, Early
<1>2. Kept /\ Channel
  BY DEF Visit, WaitAtBreakpoint, RequireNodeApproval, PersistPendingApprovalMirror,
         gateChannels, gateHistory, TakesToken, Drained
<1>3. \E s \in Early \cup {"run", "left"}, r \in {NotRead, runDoc} : MovesTo(s, r)
  <2>1. CASE Visit
    BY <2>1 DEF Visit, Moves, Early
  <2>2. CASE WaitAtBreakpoint
    BY <2>2 DEF WaitAtBreakpoint, Moves, Early
  <2>3. CASE RequireNodeApproval
    BY <2>3 DEF RequireNodeApproval, Moves, Reads, Early
  <2>4. CASE PersistPendingApprovalMirror
    BY <2>4 DEF PersistPendingApprovalMirror, Moves, Early
  <2> QED
    BY <2>1, <2>2, <2>3, <2>4
<1> QED
  BY <1>1, <1>2, <1>3, BeforeTheGate

LEMMA SubscribeSteps == GateInvariant /\ SubscribeGate => GateInvariant'
<1> SUFFICES ASSUME GateInvariant, SubscribeGate PROVE GateInvariant'
  OBVIOUS
<1>1. /\ pass.at = "register" /\ oobRejected' = FALSE /\ tee' = [at |-> "reading"]
      /\ UNCHANGED <<continueCh, rejectedGates, nodesRun>>
  BY DEF SubscribeGate, Stage, gateHistory
<1>2. DOMAIN pass' = {"node", "at", "rec"} /\ pass'.node = pass.node /\ pass'.at = "wait"
  BY MovesWell DEF SubscribeGate, Moves, Stages, Listening
<1>3. Rejections' = Rejections
  BY <1>1 DEF Rejections
<1>4. pass.node \notin Rejections
  BY <1>1 DEF GateInvariant, TokensOfPast, Early
<1>5. PassShape' /\ TeeAtGate'
  BY <1>1, <1>2 DEF GateInvariant, PassShape, TeeAtGate, Stages, Listening
<1>6. TokensOfPast'
  BY <1>2, <1>3, <1>4 DEF GateInvariant, TokensOfPast
<1>7. RejectionRecorded'
  BY <1>1, <1>2, <1>3, <1>4 DEF RejectionRecorded
<1>8. RejectedStay' /\ RunsBehind'
  BY <1>1, <1>2 DEF GateInvariant, PassShape, RejectedStay, RunsBehind
<1> QED
  BY <1>5, <1>6, <1>7, <1>8 DEF GateInvariant

(***************************************************************************)
(* The wait, and the way from it.                                          *)
(***************************************************************************)
LEMMA GateWaits == GateInvariant /\ WaitAtGate => GateInvariant'
<1> SUFFICES ASSUME GateInvariant, WaitAtGate PROVE GateInvariant'
  OBVIOUS
<1>1. pass.at = "wait" /\ UNCHANGED <<tee, oobRejected, nodesRun>>
  BY DEF WaitAtGate, Stage
<1>2. continueCh' = <<>> \/ continueCh' = continueCh
  BY DEF WaitAtGate, TakesToken, Drained
<1>3. /\ DOMAIN pass' = {"node", "at", "rec"} /\ pass'.node = pass.node
      /\ pass'.at \in {"approved", "rejected"}
      /\ \/ rejectedGates' = rejectedGates
         \/ rejectedGates' = rejectedGates \cup {pass.node} /\ pass'.at = "rejected"
  <2>1. \A s \in {"approved", "rejected"} : Moves(s) =>
           DOMAIN pass' = {"node", "at", "rec"} /\ pass'.node = pass.node /\ pass'.at = s
    BY MovesWell DEF Moves, Stages, Listening
  <2>2. CASE continueCh # <<>> /\ \E k \in DOMAIN continueCh : continueCh[k] = OwnRejection
    <3>1. pass.node \in Rejections
      BY <2>2 DEF Rejections, OwnRejection, GateInvariant, PassShape
    <3>2. oobRejected
      BY <1>1, <3>1 DEF GateInvariant, RejectionRecorded, Listening
    <3>3. CASE TakesToken
      BY <2>1, <2>2, <3>2, <3>3 DEF WaitAtGate
    <3>4. CASE ~TakesToken
      BY <2>1, <2>2, <3>4 DEF WaitAtGate
    <3> QED
      BY <3>3, <3>4
  <2>3. CASE ~(continueCh # <<>> /\ \E k \in DOMAIN continueCh : continueCh[k] = OwnRejection)
    BY <2>1, <2>3 DEF WaitAtGate, TakesToken
  <2> QED
    BY <2>2, <2>3
<1>4. /\ \E S : continueCh' \in Seq(S)
      /\ Rejections' \subseteq Rejections
  <2>1. CASE continueCh' = continueCh
    BY <2>1 DEF GateInvariant, PassShape, Rejections
  <2>2. CASE continueCh' = <<>>
    <3>1. continueCh' \in Seq({}) /\ DOMAIN continueCh' = {}
      BY <2>2
    <3> QED
      BY <3>1 DEF Rejections
  <2> QED
    BY <1>2, <2>1, <2>2
<1>5. PassShape'
  BY <1>1, <1>3, <1>4 DEF GateInvariant, PassShape, Stages, Listening
<1>6. TeeAtGate'
  BY <1>1, <1>3 DEF GateInvariant, TeeAtGate, Listening
<1>7. TokensOfPast'
  BY <1>3, <1>4 DEF GateInvariant, TokensOfPast, Early
<1>8. RejectionRecorded'
  BY <1>1, <1>3, <1>4 DEF GateInvariant, RejectionRecorded, OwnRejection, Listening
<1>9. pass.node \in Nat /\ pass.node \notin nodesRun /\ pass.node \notin rejectedGates
  BY <1>1 DEF GateInvariant, PassShape, RunsBehind, RejectedStay
<1>10. RejectedStay' /\ RunsBehind'
  BY <1>1, <1>3, <1>9 DEF GateInvariant, RejectedStay, RunsBehind
<1> QED
  BY <1>5, <1>6, <1>7, <1>8, <1>10 DEF GateInvariant

LEMMA ClearReads == GateInvariant /\ ReadsToClear => GateInvariant'
<1> SUFFICES ASSUME GateInvariant, ReadsToClear PROVE GateInvariant'
  OBVIOUS
<1>1. /\ pass.at \in {"approved", "rejected"}
      /\ UNCHANGED <<continueCh, tee, oobRejected, rejectedGates, nodesRun>>
  BY DEF ReadsToClear, gateChannels, gateHistory
<1>2. /\ DOMAIN pass' = {"node", "at", "rec"} /\ pass'.node = pass.node
      /\ pass'.at = IF pass.at = "approved" THEN "clear" ELSE "clearRejected"
  BY DEF ReadsToClear, GateInvariant, PassShape
<1>3. Rejections' = Rejections
  BY <1>1 DEF Rejections
<1>4. PassShape' /\ TeeAtGate'
  BY <1>1, <1>2 DEF GateInvariant, PassShape, TeeAtGate, Stages, Listening
<1>5. TokensOfPast' /\ RejectionRecorded'
  BY <1>1, <1>2, <1>3
  DEF GateInvariant, TokensOfPast, RejectionRecorded, OwnRejection, Early, Listening
<1>6. RejectedStay' /\ RunsBehind'
  BY <1>1, <1>2 DEF GateInvariant, RejectedStay, RunsBehind
<1> QED
  BY <1>4, <1>5, <1>6 DEF GateInvariant

LEMMA Clears == GateInvariant /\ ClearPending => GateInvariant'
<1> SUFFICES ASSUME GateInvariant, ClearPending PROVE GateInvariant'
  OBVIOUS
<1>1. /\ pass.at \in {"clear", "clearRejected"} /\ tee' = [at |-> "none"]
      /\ UNCHANGED <<continueCh, oobRejected, rejectedGates, nodesRun>>
  BY DEF ClearPending, Unregister, TeeStopped, gateHistory
<1>2. /\ DOMAIN pass' = {"node", "at", "rec"} /\ pass'.node = pass.node
      /\ pass'.at = IF pass.at = "clear" THEN "run" ELSE "left"
  BY DEF ClearPending, Moves, Stage, GateInvariant, PassShape
<1>3. Rejections' = Rejections
  BY <1>1 DEF Rejections
<1>4. PassShape' /\ TeeAtGate'
  BY <1>1, <1>2 DEF GateInvariant, PassShape, TeeAtGate, Stages
<1>5. TokensOfPast' /\ RejectionRecorded'
  BY <1>1, <1>2, <1>3 DEF GateInvariant, TokensOfPast, RejectionRecorded, Early, Listening
<1>6. RejectedStay' /\ RunsBehind'
  BY <1>1, <1>2 DEF GateInvariant, RejectedStay, RunsBehind
<1> QED
  BY <1>4, <1>5, <1>6 DEF GateInvariant

\* A node that runs was not rejected, and the pass leaves it behind.
LEMMA NodeRuns == GateInvariant /\ RunNode => GateInvariant'
<1> SUFFICES ASSUME GateInvariant, RunNode PROVE GateInvariant'
  OBVIOUS
<1>1. /\ pass.at = "run" /\ nodesRun' = nodesRun \cup {pass.node}
      /\ UNCHANGED <<continueCh, tee, oobRejected, rejectedGates>>
  BY DEF RunNode, Stage, gateChannels
<1>2. /\ DOMAIN pass' = {"node", "at", "rec"} /\ pass.node \in Nat
      /\ \/ pass'.node = pass.node + 1 /\ pass'.at = "visit"
         \/ pass'.node = pass.node /\ pass'.at = "left"
  BY DEF RunNode, Moves, GateInvariant, PassShape
<1>3. Rejections' = Rejections
  BY <1>1 DEF Rejections
<1>4. tee.at = "none"
  BY <1>1 DEF GateInvariant, TeeAtGate, Listening
<1>5. PassShape' /\ TeeAtGate'
  BY <1>1, <1>2, <1>4 DEF GateInvariant, PassShape, TeeAtGate, Stages, Early
<1>6. TokensOfPast'
  <2>1. \A n \in Rejections : n \in Nat /\ n <= pass.node
    BY DEF GateInvariant, TokensOfPast, Rejections
  <2> QED
    BY <1>2, <1>3, <2>1 DEF TokensOfPast, Early
<1>7. RejectionRecorded'
  BY <1>1, <1>2, <1>4 DEF RejectionRecorded, Listening
<1>8. pass.node \notin rejectedGates
  BY <1>1 DEF GateInvariant, RejectedStay
<1>9. RejectedStay'
  BY <1>1, <1>2, <1>8 DEF GateInvariant, RejectedStay
<1>10. RunsBehind'
  BY <1>1, <1>2 DEF GateInvariant, RunsBehind
<1> QED
  BY <1>5, <1>6, <1>7, <1>9, <1>10 DEF GateInvariant

(***************************************************************************)
(* The tee and the bridge.                                                 *)
(***************************************************************************)
LEMMA TeeReadsWell == GateInvariant /\ TeeReads => GateInvariant'
<1> SUFFICES ASSUME GateInvariant, TeeReads PROVE GateInvariant'
  OBVIOUS
<1> DEFINE d == Head(decisions)
<1>1. /\ tee.at = "reading" /\ tee' = Sending(d)
      /\ oobRejected' = (oobRejected \/ ~d)
      /\ UNCHANGED <<pass, continueCh, rejectedGates, nodesRun>>
  BY DEF TeeReads, Records, gateDoc, gateHistory
<1> HIDE DEF d
<1>2. /\ tee'.at = "sending"
      /\ tee'.token = IF d THEN <<"approve", pass.node>> ELSE <<"reject", pass.node>>
  BY <1>1 DEF Sending
<1>3. Rejections' = Rejections
  BY <1>1 DEF Rejections
<1>4. oobRejected' \in BOOLEAN /\ (oobRejected => oobRejected') /\ (~d => oobRejected')
  BY <1>1
<1>5. PassShape' /\ TeeAtGate'
  BY <1>1, <1>2, <1>4 DEF GateInvariant, PassShape, TeeAtGate
<1>6. RejectionRecorded'
  <2>1. tee'.token = <<"reject", pass.node>> => ~d
    BY <1>2
  <2> QED
    BY <1>1, <1>3, <1>4, <2>1 DEF GateInvariant, RejectionRecorded, OwnRejection
<1>7. TokensOfPast' /\ RejectedStay' /\ RunsBehind'
  BY <1>1, <1>3 DEF GateInvariant, TokensOfPast, RejectedStay, RunsBehind
<1> QED
  BY <1>5, <1>6, <1>7 DEF GateInvariant

\* What a token more on continueCh adds to the rejections there.
LEMMA TokenArrives ==
  ASSUME NEW S, continueCh \in Seq(S), NEW token, continueCh' = Append(continueCh, token)
  PROVE  /\ \E T : continueCh' \in Seq(T)
         /\ \A n \in Rejections' : n \in Rejections \/ token = <<"reject", n>>
<1>1. continueCh \in Seq(S \cup {token}) /\ token \in S \cup {token}
  OBVIOUS
<1>2. /\ continueCh' \in Seq(S \cup {token})
      /\ DOMAIN continueCh = 1 .. Len(continueCh) /\ Len(continueCh) \in Nat
      /\ DOMAIN continueCh' = 1 .. Len(continueCh) + 1
      /\ \A j \in 1 .. Len(continueCh) : continueCh'[j] = continueCh[j]
      /\ continueCh'[Len(continueCh) + 1] = token
  BY <1>1
<1>3. \A j \in 1 .. Len(continueCh) + 1 : j \in 1 .. Len(continueCh) \/ j = Len(continueCh) + 1
  BY <1>2
<1> QED
  BY <1>2, <1>3 DEF Rejections

LEMMA TeeSendsWell == GateInvariant /\ TeeSends => GateInvariant'
<1> SUFFICES ASSUME GateInvariant, TeeSends PROVE GateInvariant'
  OBVIOUS
<1>1. /\ tee.at = "sending" /\ tee'.at = "reading"
      /\ continueCh' = Append(continueCh, tee.token)
      /\ UNCHANGED <<pass, oobRejected, rejectedGates, nodesRun>>
  BY DEF TeeSends, gateDoc, gateHistory
<1>2. pass.at \in Listening /\ tee.token \in {<<"approve", pass.node>>, <<"reject", pass.node>>}
  BY <1>1 DEF GateInvariant, TeeAtGate
<1>3. /\ \E T : continueCh' \in Seq(T)
      /\ \A n \in Rejections' : n \in Rejections \/ tee.token = <<"reject", n>>
  <2>1. PICK S : continueCh \in Seq(S)
    BY DEF GateInvariant, PassShape
  <2> QED
    BY <1>1, <2>1, TokenArrives
<1>4. \A n \in Rejections' : n \in Rejections \/ (n = pass.node /\ tee.token = OwnRejection)
  BY <1>2, <1>3 DEF OwnRejection
<1>5. PassShape' /\ TeeAtGate'
  BY <1>1, <1>2, <1>3 DEF GateInvariant, PassShape, TeeAtGate
<1>6. TokensOfPast'
  BY <1>1, <1>2, <1>4 DEF GateInvariant, PassShape, TokensOfPast, Early, Listening
<1>7. RejectionRecorded'
  BY <1>1, <1>2, <1>4 DEF GateInvariant, RejectionRecorded
<1>8. RejectedStay' /\ RunsBehind'
  BY <1>1 DEF GateInvariant, RejectedStay, RunsBehind
<1> QED
  BY <1>5, <1>6, <1>7, <1>8 DEF GateInvariant

LEMMA BridgeDelivers == GateInvariant /\ StartRunControlBridge => GateInvariant'
<1> SUFFICES ASSUME GateInvariant, StartRunControlBridge PROVE GateInvariant'
  OBVIOUS
<1>1. /\ continueCh' = continueCh \/ continueCh' = Append(continueCh, <<"click">>)
      /\ UNCHANGED <<pass, tee, oobRejected, rejectedGates, nodesRun>>
  BY DEF StartRunControlBridge, gateDoc, gateHistory
<1>2. CASE continueCh' = continueCh
  BY <1>1, <1>2, Undisturbed
<1>3. CASE continueCh' = Append(continueCh, <<"click">>)
  <2>1. PICK S : continueCh \in Seq(S)
    BY DEF GateInvariant, PassShape
  <2>2. /\ \E T : continueCh' \in Seq(T)
        /\ \A n \in Rejections' : n \in Rejections \/ <<"click">> = <<"reject", n>>
    BY <1>3, <2>1, TokenArrives
  <2>3. \A n : <<"click">> # <<"reject", n>>
    OBVIOUS
  <2>4. Rejections' \subseteq Rejections
    BY <2>2, <2>3
  <2>5. PassShape' /\ TeeAtGate'
    BY <1>1, <2>2 DEF GateInvariant, PassShape, TeeAtGate
  <2>6. TokensOfPast' /\ RejectionRecorded'
    BY <1>1, <2>4 DEF GateInvariant, TokensOfPast, RejectionRecorded, OwnRejection
  <2>7. RejectedStay' /\ RunsBehind'
    BY <1>1 DEF GateInvariant, RejectedStay, RunsBehind
  <2> QED
    BY <2>5, <2>6, <2>7 DEF GateInvariant
<1> QED
  BY <1>1, <1>2, <1>3

-----------------------------------------------------------------------------
LEMMA StepKeepsGates == GateInvariant /\ [GateNext]_gateVars => GateInvariant'
  BY OtherSteps, EarlySteps, SubscribeSteps, GateWaits, ClearReads, Clears, NodeRuns,
     TeeReadsWell, TeeSendsWell, BridgeDelivers
  DEF GateNext, Worker

(***************************************************************************)
(* The live gate (preExecApproval, waitAtBreakpoint, the tee goroutine):   *)
(* whatever clicks, approvals, cancels and lost leases come with it, a     *)
(* node whose gate its own rejection released never runs.                  *)
(***************************************************************************)
THEOREM RejectionsAreKept == GateSpec => []RejectionHolds
<1>1. GateInit => GateInvariant
  BY InitiallyQuiet
<1>2. GateInvariant /\ [GateNext]_gateVars => GateInvariant'
  BY StepKeepsGates
<1>3. GateInvariant => RejectionHolds
  BY RejectionsHold
<1> QED
  BY <1>1, <1>2, <1>3, PTL DEF GateSpec

-----------------------------------------------------------------------------
(***************************************************************************)
(* ToolFan.  A call past the checks of Execute is of a tool the agent may  *)
(* use, with arguments that fit; and a node has one step_start more than   *)
(* step_dones for each of its tools that is running.                       *)
(***************************************************************************)
Admitted == {"mirror", "register", "paused", "start", "running"}
FanStages == {"waiting", "execute", "returned"} \cup Admitted

FanTypes ==
    /\ DOMAIN fan = {"agent", "calls", "parallelism", "mode", "next", "returned"}
    /\ fan.parallelism \in Nat \ {0} /\ fan.next \in Nat /\ fan.returned \in BOOLEAN
    /\ Len(fan.calls) \in Nat /\ FanCalls = 1 .. Len(fan.calls)
    /\ callAt \in [FanCalls -> FanStages] /\ DOMAIN result = FanCalls
    /\ trail \in [FanNodes -> [starts : Nat, dones : Nat]]

InTool(n) == {i \in FanCalls : callAt[i] = "running" /\ Node(i) = n}
Balanced == \A n \in FanNodes : trail[n].starts = trail[n].dones + Cardinality(InTool(n))

CallsAccounted ==
    /\ \A i \in FanCalls : callAt[i] = "waiting" <=> i >= fan.next
    /\ \A i \in FanCalls : callAt[i] = "returned" => result[i] # "none"
    /\ fan.returned => Executing = {} /\ fan.next \notin FanCalls /\ fan.next > 0
    /\ fan.next > 0

ChecksPassed ==
    /\ \A i \in FanCalls : callAt[i] \in Admitted => Known(i) /\ Valid(i)
    /\ \A i \in toolsRun : i \in FanCalls /\ Known(i) /\ Valid(i)

FanInvariant ==
    /\ FanTypes /\ CallsAccounted /\ ChecksPassed /\ Balanced
    /\ Cardinality(Executing) <= fan.parallelism

LEMMA FanSetsFinite ==
    ASSUME FanTypes
    PROVE  /\ IsFiniteSet(FanCalls) /\ IsFiniteSet(Executing)
           /\ \A n : IsFiniteSet(InTool(n)) /\ Cardinality(InTool(n)) \in Nat
           /\ Cardinality(Executing) \in Nat
<1>1. IsFiniteSet(FanCalls)
  BY FS_Interval DEF FanTypes
<1>2. Executing \subseteq FanCalls /\ \A n : InTool(n) \subseteq FanCalls
  BY DEF Executing, InTool
<1> QED
  BY <1>1, <1>2, FS_Subset, FS_CardinalityType

LEMMA FanBegins == FanInit => FanInvariant
<1> SUFFICES ASSUME FanInit PROVE FanInvariant
  OBVIOUS
<1>1. PICK agent \in FanAgents, calls \in FanRequests, asked \in AskedInFlight, mode \in FanModes :
         fan = [agent |-> agent, calls |-> calls, parallelism |-> Parallelism(asked),
                mode |-> mode, next |-> 1, returned |-> FALSE]
  BY DEF FanInit
<1>2. Parallelism(asked) \in Nat \ {0}
  BY FanInputs DEF Parallelism
<1>3. Len(calls) \in Nat /\ DOMAIN calls = 1 .. Len(calls)
  BY FanInputs
<1>4. \A i \in FanCalls : callAt[i] = "waiting"
  BY DEF FanInit
<1>5. FanTypes
  <2>1. trail \in [FanNodes -> [starts : Nat, dones : Nat]]
    BY DEF FanInit
  <2>2. callAt \in [FanCalls -> FanStages] /\ DOMAIN result = FanCalls
    BY DEF FanInit, FanStages
  <2> QED
    BY <1>1, <1>2, <1>3, <2>1, <2>2 DEF FanTypes, FanCalls
<1>6. CallsAccounted
  BY <1>1, <1>3, <1>4 DEF CallsAccounted, FanCalls
<1>7. ChecksPassed
  BY <1>4 DEF ChecksPassed, Admitted, FanInit
<1>8. Balanced
  <2>1. \A n \in FanNodes : InTool(n) = {} /\ trail[n].starts = 0 /\ trail[n].dones = 0
    BY <1>4 DEF InTool, FanInit
  <2> QED
    BY <2>1, FS_EmptySet DEF Balanced
<1>9. Cardinality(Executing) <= fan.parallelism
  <2>1. Executing = {}
    BY <1>4 DEF Executing
  <2> QED
    BY <1>1, <1>2, <2>1, FS_EmptySet
<1> QED
  BY <1>5, <1>6, <1>7, <1>8, <1>9 DEF FanInvariant

\* What depends on the call of fan_out alone does not change.
LEMMA FanConstants ==
    ASSUME fan'.agent = fan.agent, fan'.calls = fan.calls
    PROVE  /\ FanCalls' = FanCalls
           /\ \A i : /\ Node(i)' = Node(i) /\ Known(i)' = Known(i) /\ Valid(i)' = Valid(i)
                     /\ ToolOf(i)' = ToolOf(i)
BY DEF FanCalls, Node, NodeOf, Known, Catalog, Added, Offered, FilterAllowed, Valid, ToolOf

\* A step by which one call moves on, and what such a step owes.
StepKept(n, i, stage) ==
    /\ trail'[n] \in [starts : Nat, dones : Nat]
    /\ trail'[n].starts - trail'[n].dones =
          (trail[n].starts - trail[n].dones)
          + (IF Node(i) = n /\ stage = "running" THEN 1 ELSE 0)
          - (IF Node(i) = n /\ callAt[i] = "running" THEN 1 ELSE 0)

CallMoves(i, stage) ==
    /\ callAt[i] \notin {"waiting", "returned"} /\ stage \in FanStages \ {"waiting"}
    /\ callAt[i] = "running" => stage # "running"
    /\ callAt' = [callAt EXCEPT ![i] = stage] /\ UNCHANGED fan
    /\ DOMAIN result' = FanCalls
    /\ \A j \in FanCalls : j # i => result'[j] = result[j]
    /\ stage = "returned" => result'[i] # "none"
    /\ stage \in Admitted => Known(i) /\ Valid(i)
    /\ toolsRun' = toolsRun \/ (toolsRun' = toolsRun \cup {i} /\ Known(i) /\ Valid(i))
    /\ trail' = [m \in FanNodes |-> trail'[m]] /\ \A n \in FanNodes : StepKept(n, i, stage)

LEMMA CallsMove ==
    ASSUME FanInvariant, NEW i \in FanCalls, NEW stage, CallMoves(i, stage)
    PROVE  FanInvariant'
<1> USE DEF CallMoves
<1>1. FanTypes /\ CallsAccounted /\ ChecksPassed /\ Balanced
      /\ Cardinality(Executing) <= fan.parallelism
  BY DEF FanInvariant
<1>2. /\ FanCalls' = FanCalls
      /\ \A j : Node(j)' = Node(j) /\ Known(j)' = Known(j) /\ Valid(j)' = Valid(j)
  BY FanConstants
<1>3. callAt'[i] = stage /\ \A j \in FanCalls : j # i => callAt'[j] = callAt[j]
  BY <1>1 DEF FanTypes
<1>4. FanTypes'
  <2>1. trail' \in [FanNodes -> [starts : Nat, dones : Nat]]
    <3>1. \A n \in FanNodes : trail'[n] \in [starts : Nat, dones : Nat]
      BY DEF StepKept
    <3> QED
      BY <3>1
  <2>2. callAt' \in [FanCalls -> FanStages]
    BY <1>1 DEF FanTypes
  <2> QED
    BY <1>1, <1>2, <2>1, <2>2 DEF FanTypes
<1>5. CallsAccounted'
  <2>1. ~fan.returned
    BY <1>1 DEF CallsAccounted, Executing
  <2>2. \A j \in FanCalls : callAt'[j] = "waiting" <=> j >= fan.next
    BY <1>1, <1>3 DEF CallsAccounted
  <2>3. \A j \in FanCalls : callAt'[j] = "returned" => result'[j] # "none"
    BY <1>1, <1>3 DEF CallsAccounted
  <2> QED
    BY <1>1, <1>2, <2>1, <2>2, <2>3 DEF CallsAccounted
<1>6. ChecksPassed'
  <2>1. \A j \in FanCalls : callAt'[j] \in Admitted => Known(j) /\ Valid(j)
    BY <1>1, <1>3 DEF ChecksPassed
  <2>2. \A j \in toolsRun' : j \in FanCalls /\ Known(j) /\ Valid(j)
    BY <1>1 DEF ChecksPassed
  <2> QED
    BY <1>2, <2>1, <2>2 DEF ChecksPassed
<1>7. Balanced'
  <2>1. ASSUME NEW n \in FanNodes
        PROVE  trail'[n].starts = trail'[n].dones + Cardinality(InTool(n)')
    <3>1. InTool(n)' = {j \in FanCalls : callAt'[j] = "running" /\ Node(j) = n}
      BY <1>2 DEF InTool
    <3>2. /\ IsFiniteSet(InTool(n)) /\ Cardinality(InTool(n)) \in Nat
          /\ trail[n].starts = trail[n].dones + Cardinality(InTool(n))
          /\ trail[n].starts \in Nat /\ trail[n].dones \in Nat
      BY <1>1, FanSetsFinite DEF Balanced, FanTypes
    <3>3. trail'[n].starts \in Nat /\ trail'[n].dones \in Nat
      BY DEF StepKept
    <3>4. CASE Node(i) = n /\ callAt[i] = "running"
      <4>1. InTool(n)' = InTool(n) \ {i} /\ i \in InTool(n)
        BY <1>3, <3>1, <3>4 DEF InTool
      <4>2. Cardinality(InTool(n)') = Cardinality(InTool(n)) - 1
        BY <3>2, <4>1, FS_RemoveElement
      <4>3. trail'[n].starts - trail'[n].dones = (trail[n].starts - trail[n].dones) + 0 - 1
        BY <3>4 DEF StepKept
      <4> QED
        BY <3>2, <3>3, <4>2, <4>3
    <3>5. CASE Node(i) = n /\ stage = "running"
      <4>1. InTool(n)' = InTool(n) \cup {i} /\ i \notin InTool(n)
        BY <1>3, <3>1, <3>5 DEF InTool
      <4>2. Cardinality(InTool(n)') = Cardinality(InTool(n)) + 1
        <5>1. IsFiniteSet(InTool(n)) /\ i \notin InTool(n)
          BY <3>2, <4>1
        <5>2. Cardinality(InTool(n) \cup {i}) = Cardinality(InTool(n)) + 1
          BY <5>1, FS_AddElement
        <5> QED
          BY <4>1, <5>2
      <4>3. trail'[n].starts - trail'[n].dones = (trail[n].starts - trail[n].dones) + 1 - 0
        BY <3>5 DEF StepKept
      <4> QED
        BY <3>2, <3>3, <4>2, <4>3
    <3>6. CASE ~(Node(i) = n /\ (callAt[i] = "running" \/ stage = "running"))
      <4>1. InTool(n)' = InTool(n)
        BY <1>3, <3>1, <3>6 DEF InTool
      <4>2. trail'[n].starts - trail'[n].dones = (trail[n].starts - trail[n].dones) + 0 - 0
        BY <3>6 DEF StepKept
      <4> QED
        BY <3>2, <3>3, <4>1, <4>2
    <3> QED
      BY <3>4, <3>5, <3>6
  <2> QED
    BY <2>1 DEF Balanced
<1>8. Cardinality(Executing') <= fan.parallelism
  <2>1. Executing' \subseteq Executing
    BY <1>2, <1>3 DEF Executing
  <2>2. Cardinality(Executing') <= Cardinality(Executing) /\ Cardinality(Executing') \in Nat
    BY <1>1, <2>1, FanSetsFinite, FS_Subset, FS_CardinalityType
  <2> QED
    BY <1>1, <2>2, FanSetsFinite DEF FanTypes
<1> QED
  BY <1>4, <1>5, <1>6, <1>7, <1>8 DEF FanInvariant

\* The steps of a node that a call leaves.
LEMMA StepsRecorded ==
    ASSUME FanTypes, NEW i \in FanCalls, NEW step \in [starts : {0, 1}, dones : {0, 1}],
           Recorded(Node(i), step)
    PROVE  /\ trail' = [m \in FanNodes |-> trail'[m]]
           /\ \A n \in FanNodes :
                /\ trail'[n] \in [starts : Nat, dones : Nat]
                /\ Node(i) # n => trail'[n] = trail[n]
                /\ Node(i) = n => /\ trail'[n].starts = trail[n].starts + step.starts
                                  /\ trail'[n].dones = trail[n].dones + step.dones
<1>1. CASE Node(i) \notin FanNodes
  BY <1>1 DEF Recorded, FanTypes
<1>2. CASE Node(i) \in FanNodes
  <2> DEFINE m == Node(i)
  <2> DEFINE after == [starts |-> trail[m].starts + step.starts,
                       dones  |-> trail[m].dones + step.dones]
  <2>1. trail' = [trail EXCEPT ![m] = after]
    BY <1>2 DEF Recorded
  <2>2. after \in [starts : Nat, dones : Nat]
    BY <1>2 DEF FanTypes
  <2>3. after.starts = trail[m].starts + step.starts /\ after.dones = trail[m].dones + step.dones
    OBVIOUS
  <2>4. DOMAIN trail = FanNodes /\ \A n \in FanNodes : trail[n] \in [starts : Nat, dones : Nat]
    BY DEF FanTypes
  <2> HIDE DEF after
  <2>5. trail'[m] = after /\ \A n \in FanNodes : m # n => trail'[n] = trail[n]
    BY <1>2, <2>1, <2>4
  <2> QED
    BY <2>1, <2>2, <2>3, <2>4, <2>5
<1> QED
  BY <1>1, <1>2

LEMMA SilentStep ==
    ASSUME FanTypes, NEW i \in FanCalls, NEW stage, stage # "running", callAt[i] # "running",
           trail' = trail \/ Recorded(Node(i), Synthetic)
    PROVE  trail' = [m \in FanNodes |-> trail'[m]] /\ \A n \in FanNodes : StepKept(n, i, stage)
<1>1. \A n \in FanNodes : trail[n].starts \in Nat /\ trail[n].dones \in Nat
                          /\ trail[n] \in [starts : Nat, dones : Nat]
  BY DEF FanTypes
<1>2. CASE trail' = trail
  BY <1>1, <1>2 DEF StepKept, FanTypes
<1>3. CASE Recorded(Node(i), Synthetic)
  <2>1. /\ trail' = [m \in FanNodes |-> trail'[m]]
        /\ \A n \in FanNodes :
             /\ trail'[n] \in [starts : Nat, dones : Nat]
             /\ Node(i) # n => trail'[n] = trail[n]
             /\ Node(i) = n => /\ trail'[n].starts = trail[n].starts + 1
                               /\ trail'[n].dones = trail[n].dones + 1
    BY <1>3, StepsRecorded DEF Synthetic
  <2>2. ASSUME NEW n \in FanNodes
        PROVE  trail'[n].starts - trail'[n].dones = trail[n].starts - trail[n].dones
    BY <1>1, <2>1
  <2>3. \A n \in FanNodes : trail[n].starts - trail[n].dones \in Int
    BY <1>1
  <2> QED
    BY <2>1, <2>2, <2>3 DEF StepKept
<1> QED
  BY <1>2, <1>3

LEMMA FanStep == FanInvariant /\ [FanNext]_fanVars => FanInvariant'
<1> SUFFICES ASSUME FanInvariant, [FanNext]_fanVars PROVE FanInvariant'
  OBVIOUS
<1>1. FanTypes /\ CallsAccounted /\ ChecksPassed /\ Balanced
      /\ Cardinality(Executing) <= fan.parallelism
  BY DEF FanInvariant
<1>2. ASSUME UNCHANGED <<fan, callAt, result, trail, toolsRun>> PROVE FanInvariant'
  <2>1. /\ FanCalls' = FanCalls
        /\ \A j : Node(j)' = Node(j) /\ Known(j)' = Known(j) /\ Valid(j)' = Valid(j)
    BY <1>2, FanConstants
  <2>2. Executing' = Executing /\ \A n : InTool(n)' = InTool(n)
    BY <1>2, <2>1 DEF Executing, InTool
  <2>3. FanTypes' /\ CallsAccounted'
    BY <1>1, <1>2, <2>1, <2>2 DEF FanTypes, CallsAccounted
  <2>4. ChecksPassed' /\ Balanced'
    BY <1>1, <1>2, <2>1, <2>2 DEF ChecksPassed, Balanced
  <2> QED
    BY <1>1, <1>2, <2>2, <2>3, <2>4 DEF FanInvariant
<1>3. CASE Launch
  <2>1. /\ fan.next \in FanCalls /\ Cardinality(Executing) < fan.parallelism
        /\ fan' = [fan EXCEPT !.next = @ + 1] /\ callAt' = [callAt EXCEPT ![fan.next] = "execute"]
        /\ UNCHANGED <<result, trail, toolsRun>>
    BY <1>3 DEF Launch, CallGoes
  <2>2. /\ fan'.next = fan.next + 1 /\ fan'.agent = fan.agent /\ fan'.calls = fan.calls
        /\ fan'.parallelism = fan.parallelism /\ fan'.returned = fan.returned
        /\ DOMAIN fan' = DOMAIN fan
    BY <1>1, <2>1 DEF FanTypes
  <2>3. /\ FanCalls' = FanCalls
        /\ \A j : Node(j)' = Node(j) /\ Known(j)' = Known(j) /\ Valid(j)' = Valid(j)
    BY <2>2, FanConstants
  <2>4. callAt'[fan.next] = "execute" /\ \A j \in FanCalls : j # fan.next => callAt'[j] = callAt[j]
    BY <1>1, <2>1 DEF FanTypes
  <2>5. FanTypes'
    <3>1. callAt' \in [FanCalls -> FanStages]
      BY <1>1, <2>1 DEF FanTypes, FanStages
    <3>2. fan'.next \in Nat /\ Len(fan'.calls) \in Nat /\ FanCalls' = 1 .. Len(fan'.calls)
      BY <1>1, <2>2, <2>3 DEF FanTypes
    <3> QED
      BY <1>1, <2>1, <2>2, <2>3, <3>1, <3>2 DEF FanTypes
  <2>6. CallsAccounted'
    <3>1. \A j \in FanCalls : callAt'[j] = "waiting" <=> j >= fan.next + 1
      BY <1>1, <2>1, <2>4 DEF CallsAccounted, FanTypes
    <3>2. \A j \in FanCalls : callAt'[j] = "returned" => result'[j] # "none"
      BY <1>1, <2>1, <2>4 DEF CallsAccounted
    <3> QED
      BY <1>1, <2>1, <2>2, <2>3, <3>1, <3>2 DEF CallsAccounted, FanTypes
  <2>7. ChecksPassed'
    BY <1>1, <2>1, <2>3, <2>4 DEF ChecksPassed, Admitted
  <2>8. callAt[fan.next] = "waiting"
    BY <1>1, <2>1 DEF CallsAccounted, FanTypes
  <2>9. Balanced'
    <3>1. \A n : InTool(n)' = InTool(n)
      BY <2>3, <2>4, <2>8 DEF InTool
    <3> QED
      BY <1>1, <2>1, <3>1 DEF Balanced
  <2>10. Executing' = Executing \cup {fan.next} /\ fan.next \notin Executing
    BY <2>1, <2>3, <2>4, <2>8 DEF Executing
  <2>11. Cardinality(Executing') = Cardinality(Executing) + 1
    BY <1>1, <2>10, FanSetsFinite, FS_AddElement
  <2>12. Cardinality(Executing') <= fan'.parallelism
    BY <1>1, <2>1, <2>2, <2>11, FanSetsFinite DEF FanTypes
  <2> QED
    BY <2>5, <2>6, <2>7, <2>9, <2>12 DEF FanInvariant
<1>4. CASE ReturnFan
  <2>1. /\ ~fan.returned /\ fan.next \notin FanCalls /\ Executing = {}
        /\ fan' = [fan EXCEPT !.returned = TRUE]
        /\ UNCHANGED <<callAt, result, trail, toolsRun>>
    BY <1>4 DEF ReturnFan
  <2>2. /\ fan'.next = fan.next /\ fan'.agent = fan.agent /\ fan'.calls = fan.calls
        /\ fan'.parallelism = fan.parallelism /\ fan'.returned /\ fan'.returned \in BOOLEAN
        /\ DOMAIN fan' = DOMAIN fan
    BY <1>1, <2>1 DEF FanTypes
  <2>3. /\ FanCalls' = FanCalls
        /\ \A j : Node(j)' = Node(j) /\ Known(j)' = Known(j) /\ Valid(j)' = Valid(j)
    BY <2>2, FanConstants
  <2>4. Executing' = Executing /\ \A n : InTool(n)' = InTool(n)
    BY <2>1, <2>3 DEF Executing, InTool
  <2>5. FanTypes'
    BY <1>1, <2>1, <2>2, <2>3 DEF FanTypes
  <2>6. CallsAccounted' /\ ChecksPassed' /\ Balanced'
    BY <1>1, <2>1, <2>2, <2>3, <2>4 DEF CallsAccounted, ChecksPassed, Balanced
  <2> QED
    BY <1>1, <2>2, <2>4, <2>5, <2>6 DEF FanInvariant
<1>5. ASSUME NEW i \in FanCalls,
             \/ Refuse(i) \/ Misfit(i) \/ Admit(i) \/ PersistMirror(i) \/ SubscribeFor(i)
             \/ WaitAtGateOf(i) \/ StartTool(i) \/ EndTool(i)
      PROVE  FanInvariant'
  <2>1. callAt[i] \in Admitted => Known(i) /\ Valid(i)
    BY <1>1 DEF ChecksPassed
  <2>2. DOMAIN result = FanCalls /\ DOMAIN callAt = FanCalls
    BY <1>1 DEF FanTypes
  <2>3. SUFFICES \E stage : CallMoves(i, stage)
    BY CallsMove
  <2>4. ASSUME NEW stage, NEW outcome,
               callAt[i] \in {"execute", "mirror", "register", "paused"},
               \/ stage \in {"start", "register", "mirror", "paused"} /\ CallGoes(i, stage)
                  /\ UNCHANGED result /\ Known(i) /\ Valid(i)
               \/ stage = "returned" /\ Reports(i, outcome) /\ outcome # "none",
               UNCHANGED <<fan, toolsRun>>, trail' = trail \/ Recorded(Node(i), Synthetic)
        PROVE  CallMoves(i, stage)
    <3>1. trail' = [m \in FanNodes |-> trail'[m]] /\ \A n \in FanNodes : StepKept(n, i, stage)
      BY <1>1, <2>4, SilentStep
    <3>2. callAt' = [callAt EXCEPT ![i] = stage]
      BY <2>4 DEF CallGoes, Reports
    <3>3. /\ DOMAIN result' = FanCalls /\ \A j \in FanCalls : j # i => result'[j] = result[j]
          /\ stage = "returned" => result'[i] # "none"
      BY <2>2, <2>4 DEF Reports
    <3> QED
      BY <2>4, <3>1, <3>2, <3>3 DEF CallMoves, FanStages, Admitted
  <2>5. CASE Refuse(i)
    BY <2>4, <2>5 DEF Refuse
  <2>6. CASE Misfit(i)
    BY <2>4, <2>6 DEF Misfit
  <2>7. CASE Admit(i)
    BY <2>4, <2>7 DEF Admit
  <2>8. CASE PersistMirror(i)
    BY <2>1, <2>4, <2>8 DEF PersistMirror, Admitted
  <2>9. CASE SubscribeFor(i)
    BY <2>1, <2>4, <2>9 DEF SubscribeFor, Admitted
  <2>10. CASE WaitAtGateOf(i)
    <3>1. /\ callAt[i] = "paused" /\ Known(i) /\ Valid(i) /\ UNCHANGED <<fan, toolsRun>>
          /\ \/ CallGoes(i, "start") /\ UNCHANGED result
             \/ Reports(i, "error")
          /\ trail' = trail \/ Recorded(Node(i), Synthetic)
      BY <2>1, <2>10 DEF WaitAtGateOf, Admitted
    <3> QED
      BY <2>4, <3>1
  <2>11. CASE StartTool(i)
    <3>1. /\ callAt[i] = "start" /\ callAt' = [callAt EXCEPT ![i] = "running"]
          /\ Recorded(Node(i), StepStarted) /\ toolsRun' = toolsRun \cup {i}
          /\ UNCHANGED <<fan, result>>
      BY <2>11 DEF StartTool, CallGoes
    <3>2. \A n \in FanNodes : trail[n].starts \in Nat /\ trail[n].dones \in Nat
      BY <1>1 DEF FanTypes
    <3>3. /\ trail' = [m \in FanNodes |-> trail'[m]]
          /\ \A n \in FanNodes :
               /\ trail'[n] \in [starts : Nat, dones : Nat]
               /\ Node(i) # n => trail'[n] = trail[n]
               /\ Node(i) = n => /\ trail'[n].starts = trail[n].starts + 1
                                 /\ trail'[n].dones = trail[n].dones + 0
      BY <1>1, <3>1, StepsRecorded DEF StepStarted
    <3>4. \A n \in FanNodes : StepKept(n, i, "running")
      BY <3>1, <3>2, <3>3 DEF StepKept
    <3>5. CallMoves(i, "running")
      BY <2>1, <2>2, <3>1, <3>3, <3>4 DEF CallMoves, FanStages, Admitted
    <3> QED
      BY <3>5
  <2>12. CASE EndTool(i)
    <3>1. PICK outcome \in {"output", "error"} :
             /\ callAt[i] = "running" /\ callAt' = [callAt EXCEPT ![i] = "returned"]
             /\ result' = [result EXCEPT ![i] = outcome]
             /\ Recorded(Node(i), StepDone) /\ UNCHANGED <<fan, toolsRun>>
      BY <2>12 DEF EndTool, Reports, CallGoes
    <3>2. \A n \in FanNodes : trail[n].starts \in Nat /\ trail[n].dones \in Nat
      BY <1>1 DEF FanTypes
    <3>3. /\ trail' = [m \in FanNodes |-> trail'[m]]
          /\ \A n \in FanNodes :
               /\ trail'[n] \in [starts : Nat, dones : Nat]
               /\ Node(i) # n => trail'[n] = trail[n]
               /\ Node(i) = n => /\ trail'[n].starts = trail[n].starts + 0
                                 /\ trail'[n].dones = trail[n].dones + 1
      BY <1>1, <3>1, StepsRecorded DEF StepDone
    <3>4. \A n \in FanNodes : StepKept(n, i, "returned")
      BY <3>1, <3>2, <3>3 DEF StepKept
    <3>5. CallMoves(i, "returned")
      BY <2>2, <3>1, <3>3, <3>4 DEF CallMoves, FanStages, Admitted
    <3> QED
      BY <3>5
  <2> QED
    BY <1>5, <2>5, <2>6, <2>7, <2>8, <2>9, <2>10, <2>11, <2>12
<1>6. CASE UNCHANGED fanVars
  BY <1>2, <1>6 DEF fanVars
<1>7. CASE ClickContinue \/ \E approved \in BOOLEAN : SubmitVerdict(approved)
  BY <1>2, <1>7 DEF ClickContinue, SubmitVerdict
<1>8. CASE \E i \in FanCalls : Tee(i)
  BY <1>2, <1>8 DEF Tee
<1> QED
  BY <1>3, <1>4, <1>5, <1>6, <1>7, <1>8 DEF FanNext

\* For every agent, request, parallelism and any interleaving of calls, gates and people:
\* fan_out runs no more calls at once than it may and no tool the agent may not use or
\* with arguments that do not fit, and returns with every result and balanced steps.
THEOREM FansStaySound == FanSpec => []FanSound
<1>1. FanInvariant => FanSound
  <2> SUFFICES ASSUME FanInvariant PROVE FanSound
    OBVIOUS
  <2>1. FanTypes /\ CallsAccounted /\ ChecksPassed /\ Balanced
        /\ Cardinality(Executing) <= fan.parallelism
    BY DEF FanInvariant
  <2>2. ASSUME NEW i \in toolsRun, fan.agent.allowed # {}
        PROVE  ToolOf(i) \in fan.agent.allowed
    <3>1. PICK tool \in Catalog(fan.agent) : tool.name = ToolOf(i)
      BY <2>1 DEF ChecksPassed, Known
    <3> QED
      BY <2>2, <3>1 DEF Catalog, FilterAllowed
  <2>3. ASSUME fan.returned
        PROVE  /\ \A i \in FanCalls : callAt[i] = "returned" /\ result[i] # "none"
               /\ \A n \in FanNodes : trail[n].starts = trail[n].dones
    <3>1. Executing = {} /\ fan.next \notin FanCalls /\ fan.next \in Nat /\ fan.next > 0
      BY <2>1, <2>3 DEF CallsAccounted, FanTypes
    <3>2. \A i \in FanCalls : i < fan.next
      BY <2>1, <3>1 DEF FanTypes
    <3>3. \A i \in FanCalls : callAt[i] = "returned"
      BY <2>1, <3>1, <3>2 DEF CallsAccounted, Executing, FanTypes
    <3>4. \A n \in FanNodes : InTool(n) = {}
      BY <3>3 DEF InTool
    <3>5. ASSUME NEW n \in FanNodes PROVE trail[n].starts = trail[n].dones
      <4>1. trail[n].starts = trail[n].dones + 0
        BY <2>1, <3>4, FS_EmptySet DEF Balanced
      <4>2. trail[n].dones \in Nat
        BY <2>1 DEF FanTypes
      <4> QED
        BY <4>1, <4>2
    <3> QED
      BY <2>1, <3>3, <3>5 DEF CallsAccounted
  <2> QED
    BY <2>1, <2>2, <2>3 DEF FanSound, ChecksPassed
<1> QED
  BY FanBegins, FanStep, <1>1, PTL DEF FanSpec

-----------------------------------------------------------------------------
(***************************************************************************)
(* ChatMemory.  Of the runs past their insertions one will bring the       *)
(* memory to its limit: the last to count counted the rest.  A trim alone  *)
(* finds what it counted and leaves the limit.  Seqs at or below upTo are  *)
(* gone and, until one is reused, do not come back; above it a question    *)
(* stays with its answer.                                                  *)
(***************************************************************************)
Inserting == {"load", "append", "question", "answer", "count"}
ChatStages == Inserting \cup {"find", "delete", "finished"}
Above(s) == {m \in memory : m.seq > s}

ChatShape ==
    /\ IsFiniteSet(memory) /\ chatFaults \in Nat
    /\ \A m \in memory : m.seq \in Nat \ {0}
    /\ \A m, o \in memory : m.seq = o.seq => m = o
    /\ DOMAIN chat = ChatRuns /\ DOMAIN history = ChatRuns
    /\ \A r \in ChatRuns :
          /\ chat[r].at \in ChatStages /\ chat[r].read \in Int
          /\ chat[r].at \in {"question", "answer", "find", "delete"} => chat[r].read > 0
    /\ trimmed \in [upTo : Nat, crossed : BOOLEAN, reused : BOOLEAN]

TrimmedSoon(r) ==
    \/ chat[r].at \in Inserting
    \/ ChatAt(r, "find") /\ Cardinality(memory) <= MaxMessages + chat[r].read
    \/ ChatAt(r, "delete") /\ Cardinality(Above(chat[r].read)) <= MaxMessages
LimitDue ==
    chatFaults > 0 \/ Cardinality(memory) <= MaxMessages \/ \E r \in ChatRuns : TrimmedSoon(r)

LeavesLimit(r) ==
    /\ ChatAt(r, "find") => Cardinality(memory) >= MaxMessages + chat[r].read
    /\ ChatAt(r, "delete") => Cardinality(Above(chat[r].read)) >= MaxMessages
ExcessOnly ==
    ~trimmed.crossed =>
        /\ \A r \in ChatRuns : LeavesLimit(r)
        /\ trimmed.upTo > 0 => Cardinality(memory) >= MaxMessages

Questioned(seq, run) == seq <= trimmed.upTo \/ Message(seq, run, 1) \in memory
PendingAsked(r) == ChatAt(r, "answer") => Questioned(chat[r].read, r)
HistoryFollows(r) == AnswersFollow(history[r])
ExchangesKept ==
    ~trimmed.reused =>
        /\ \A m \in memory : m.seq > trimmed.upTo /\ (m.part = 2 => Questioned(m.seq - 1, m.run))
        /\ \A r \in ChatRuns : PendingAsked(r) /\ HistoryFollows(r)

ChatInvariant == ChatShape /\ LimitDue /\ ExcessOnly /\ ExchangesKept

(***************************************************************************)
(* Messages in the order of their seqs.  How many are below one counts its *)
(* place, and no two share a place, so every place is taken.               *)
(***************************************************************************)
Below(m) == {o \in memory : o.seq < m.seq}

LEMMA BelowCounts ==
    ASSUME ChatShape, NEW m \in memory
    PROVE  /\ IsFiniteSet(Below(m)) /\ Cardinality(Below(m)) \in Nat
           /\ Cardinality(Below(m)) < Cardinality(memory)
           /\ Cardinality(Below(m) \cup {m}) = Cardinality(Below(m)) + 1
           /\ Cardinality(memory) \in Nat
<1>1. IsFiniteSet(memory) /\ m.seq \in Nat
  BY DEF ChatShape
<1>2. m \notin Below(m) /\ Below(m) \cup {m} \in SUBSET memory /\ Below(m) \in SUBSET memory
  BY <1>1 DEF Below
<1>3. IsFiniteSet(Below(m)) /\ Cardinality(Below(m)) \in Nat /\ Cardinality(memory) \in Nat
  BY <1>1, <1>2, FS_Subset, FS_CardinalityType
<1>4. Cardinality(Below(m) \cup {m}) = Cardinality(Below(m)) + 1
  BY <1>2, <1>3, FS_AddElement
<1>5. Cardinality(Below(m) \cup {m}) <= Cardinality(memory)
  BY <1>1, <1>2, FS_Subset
<1> QED
  BY <1>3, <1>4, <1>5

LEMMA BelowGrows ==
    ASSUME ChatShape, NEW m \in memory, NEW o \in memory, m.seq < o.seq
    PROVE  Cardinality(Below(m)) < Cardinality(Below(o))
<1>1. m.seq \in Nat /\ o.seq \in Nat /\ \A p \in memory : p.seq \in Nat
  BY DEF ChatShape
<1>2. Below(m) \cup {m} \in SUBSET Below(o)
  BY <1>1 DEF Below
<1>3. IsFiniteSet(Below(o)) /\ Cardinality(Below(o)) \in Nat
  BY BelowCounts
<1>4. Cardinality(Below(m) \cup {m}) <= Cardinality(Below(o))
  BY <1>2, <1>3, FS_Subset
<1>5. Cardinality(Below(m)) \in Nat /\ Cardinality(Below(m) \cup {m}) = Cardinality(Below(m)) + 1
  BY BelowCounts
<1> QED
  BY <1>3, <1>4, <1>5

LEMMA PlacesTaken ==
    ASSUME ChatShape, NEW k \in 0 .. Cardinality(memory) - 1
    PROVE  \E m \in memory : Cardinality(Below(m)) = k
<1> DEFINE n == Cardinality(memory)
<1> DEFINE place == [m \in memory |-> Cardinality(Below(m))]
<1>1. IsFiniteSet(memory) /\ n \in Nat
  BY FS_CardinalityType DEF ChatShape
<1>2. place \in [memory -> 0 .. n - 1]
  <2>1. \A m \in memory : Cardinality(Below(m)) \in Nat /\ Cardinality(Below(m)) < n
    BY BelowCounts
  <2> QED
    BY <1>1, <2>1
<1>3. ASSUME NEW m \in memory, NEW o \in memory, place[m] = place[o] PROVE m = o
  <2>1. m.seq \in Nat /\ o.seq \in Nat /\ (m.seq = o.seq => m = o)
    BY DEF ChatShape
  <2>2. Cardinality(Below(m)) = Cardinality(Below(o)) /\ Cardinality(Below(m)) \in Nat
    BY <1>3, BelowCounts
  <2>3. ~(m.seq < o.seq)
    <3>1. m.seq < o.seq => Cardinality(Below(m)) < Cardinality(Below(o))
      BY BelowGrows
    <3> QED
      BY <2>2, <3>1
  <2>4. ~(o.seq < m.seq)
    <3>1. o.seq < m.seq => Cardinality(Below(o)) < Cardinality(Below(m))
      BY BelowGrows
    <3> QED
      BY <2>2, <3>1
  <2> QED
    BY <2>1, <2>3, <2>4
<1>4. place \in Injection(memory, 0 .. n - 1)
  BY <1>2, <1>3 DEF Injection, IsInjective
<1>5. IsFiniteSet(0 .. n - 1) /\ Cardinality(0 .. n - 1) = n
  BY <1>1, FS_Interval
<1>6. place \in Surjection(memory, 0 .. n - 1)
  BY <1>4, <1>5, FS_Injection
<1> QED
  BY <1>6 DEF Surjection

\* The oldest e messages, and the last of them.
LEMMA OldestOf ==
    ASSUME ChatShape, memory # {}, NEW e \in Int, e > 0
    PROVE  /\ Oldest(e) # {}
           /\ \E top \in Oldest(e) :
                /\ Max({m.seq : m \in Oldest(e)}) = top.seq
                /\ IsFiniteSet(Above(top.seq)) /\ Cardinality(Above(top.seq)) \in Nat
                /\ Cardinality(Above(top.seq)) =
                      IF e < Cardinality(memory) THEN Cardinality(memory) - e ELSE 0
<1> DEFINE n == Cardinality(memory)
<1> DEFINE k == IF e < n THEN e - 1 ELSE n - 1
<1>1. IsFiniteSet(memory) /\ n \in Nat /\ n > 0
  BY FS_CardinalityType, FS_EmptySet DEF ChatShape
<1>2. \A m \in memory : m.seq \in Nat
  BY DEF ChatShape
<1>3. PICK top \in memory : Cardinality(Below(top)) = k
  BY <1>1, PlacesTaken
<1>4. Oldest(e) = {m \in memory : Cardinality(Below(m)) < e}
  BY DEF Oldest, Below
<1>5. ASSUME NEW m \in memory PROVE m \in Oldest(e) <=> m.seq <= top.seq
  <2>1. /\ Cardinality(Below(m)) \in Nat /\ Cardinality(Below(m)) < n
        /\ m.seq \in Nat /\ top.seq \in Nat
    BY <1>2, BelowCounts
  <2>2. m.seq < top.seq => Cardinality(Below(m)) < k
    BY <1>3, BelowGrows
  <2>3. top.seq < m.seq => k < Cardinality(Below(m))
    BY <1>3, BelowGrows
  <2>4. m.seq = top.seq => Cardinality(Below(m)) = k
    BY <1>3 DEF ChatShape
  <2>5. m \in Oldest(e) <=> Cardinality(Below(m)) < e
    BY <1>4
  <2> QED
    BY <1>1, <2>1, <2>2, <2>3, <2>4, <2>5
<1>6. top \in Oldest(e)
  BY <1>2, <1>3, <1>5
<1>7. Max({m.seq : m \in Oldest(e)}) = top.seq
  <2>1. PICK S : S = {m.seq : m \in Oldest(e)}
    OBVIOUS
  <2>2. \A y \in S : y \in Nat /\ top.seq >= y
    BY <1>2, <1>4, <1>5, <2>1
  <2>3. top.seq \in S
    BY <1>6, <2>1
  <2>4. ASSUME NEW x \in S, \A y \in S : x >= y PROVE x = top.seq
    BY <2>2, <2>3, <2>4
  <2>5. Max(S) = top.seq
    BY <2>2, <2>3, <2>4 DEF Max
  <2> QED
    BY <2>1, <2>5
<1>8. /\ IsFiniteSet(Above(top.seq)) /\ Cardinality(Above(top.seq)) \in Nat
      /\ Cardinality(Above(top.seq)) = n - (k + 1)
  <2>1. Above(top.seq) = memory \ (Below(top) \cup {top})
    BY <1>2, <1>3 DEF Above, Below, ChatShape
  <2>2. memory \cap (Below(top) \cup {top}) = Below(top) \cup {top}
    BY <1>3 DEF Below
  <2>3. Cardinality(Above(top.seq)) = n - Cardinality(Below(top) \cup {top})
    BY <1>1, <2>1, <2>2, FS_Difference
  <2>4. IsFiniteSet(Above(top.seq)) /\ Cardinality(Above(top.seq)) \in Nat
    BY <1>1, FS_Subset, FS_CardinalityType DEF Above
  <2>5. Cardinality(Below(top) \cup {top}) = k + 1
    BY <1>3, BelowCounts
  <2> QED
    BY <1>1, <2>3, <2>4, <2>5
<1>9. n - (k + 1) = IF e < n THEN n - e ELSE 0
  BY <1>1
<1> HIDE DEF k
<1> QED
  BY <1>6, <1>7, <1>8, <1>9

LEMMA HighestSeq ==
    ASSUME ChatShape, memory # {}
    PROVE  Max(Seqs) \in Nat /\ Max(Seqs) > 0
<1>1. IsFiniteSet(memory) /\ Cardinality(memory) \in Nat /\ Cardinality(memory) > 0
  BY FS_CardinalityType, FS_EmptySet DEF ChatShape
<1>2. PICK n : n = Cardinality(memory)
  OBVIOUS
<1>3. Oldest(n) = memory
  <2>1. \A m \in memory : Cardinality(Below(m)) < n
    BY <1>2, BelowCounts
  <2> QED
    BY <2>1 DEF Oldest, Below
<1>4. \E top \in memory : Max({m.seq : m \in memory}) = top.seq
  <2>1. n \in Int /\ n > 0
    BY <1>1, <1>2
  <2>2. \E top \in Oldest(n) : Max({m.seq : m \in Oldest(n)}) = top.seq
    BY <2>1, OldestOf
  <2> QED
    BY <1>3, <2>2
<1> QED
  BY <1>4 DEF Seqs, ChatShape

-----------------------------------------------------------------------------
LEMMA ChatBegins == ChatInit => ChatInvariant
<1> SUFFICES ASSUME ChatInit PROVE ChatInvariant
  OBVIOUS
<1>1. /\ memory = {Message(s, "old", IF s % 2 = 1 THEN 1 ELSE 2) : s \in 1 .. 2 * OldExchanges}
      /\ chatFaults = 0 /\ trimmed = [upTo |-> 0, crossed |-> FALSE, reused |-> FALSE]
  BY DEF ChatInit
<1>2. \A r \in ChatRuns : chat[r] = [at |-> "load", read |-> 0] /\ history[r] = {}
  BY DEF ChatInit
<1>3. 2 * OldExchanges \in Nat
  BY ChatWithinLimit
<1> DEFINE n == 2 * OldExchanges
<1> DEFINE old == [s \in 1 .. n |-> Message(s, "old", IF s % 2 = 1 THEN 1 ELSE 2)]
<1>4. /\ old \in Surjection(1 .. n, memory)
      /\ \A s \in 1 .. n : old[s].seq = s
  BY <1>1 DEF Surjection, Message
<1>5. IsFiniteSet(memory) /\ Cardinality(memory) <= n
  <2> HIDE DEF n, old
  <2>1. n \in Nat
    BY <1>3 DEF n
  <2>2. IsFiniteSet(1 .. n) /\ Cardinality(1 .. n) = IF 1 > n THEN 0 ELSE n - 1 + 1
    BY <2>1, FS_Interval
  <2>3. IsFiniteSet(memory) /\ Cardinality(memory) <= Cardinality(1 .. n)
    BY <1>4, <2>2, FS_Surjection
  <2>4. Cardinality(1 .. n) = n
    BY <2>1, <2>2
  <2> QED
    BY <2>3, <2>4
<1>6. Cardinality(memory) <= MaxMessages
  BY <1>3, <1>5, FS_CardinalityType, ChatWithinLimit
<1>7. ChatShape
  BY <1>1, <1>2, <1>3, <1>5 DEF ChatShape, Message, ChatInit, ChatStages, Inserting
<1>8. LimitDue /\ ExcessOnly
  BY <1>1, <1>2, <1>6 DEF LimitDue, ExcessOnly, LeavesLimit, ChatAt
<1>9. ASSUME NEW m \in memory PROVE m.seq > 0 /\ (m.part = 2 => Questioned(m.seq - 1, m.run))
  <2>1. PICK s \in 1 .. n : m = Message(s, "old", IF s % 2 = 1 THEN 1 ELSE 2)
    BY <1>1
  <2>2. m.seq = s /\ m.run = "old" /\ (m.part = 2 => s % 2 # 1)
    BY <2>1 DEF Message
  <2>3. ASSUME m.part = 2 PROVE Questioned(s - 1, "old")
    <3>1. CASE s = 1
      BY <1>1, <3>1 DEF Questioned
    <3>2. CASE s # 1
      <4>1. s - 1 \in 1 .. n /\ (s - 1) % 2 = 1
        BY <1>3, <2>2, <2>3, <3>2
      <4> QED
        BY <1>1, <4>1 DEF Questioned
    <3> QED
      BY <3>1, <3>2
  <2> QED
    BY <2>2, <2>3
<1>10. ExchangesKept
  BY <1>1, <1>2, <1>9 DEF ExchangesKept, PendingAsked, HistoryFollows, ChatAt, AnswersFollow
<1> QED
  BY <1>7, <1>8, <1>10 DEF ChatInvariant

-----------------------------------------------------------------------------
\* A run that moves on, whatever becomes of the rest.
LEMMA ChatMoves ==
    ASSUME ChatShape, NEW r \in ChatRuns, NEW stage \in ChatStages, NEW n \in Int,
           stage \in {"question", "answer", "find", "delete"} => n > 0,
           ChatGoes(r, stage, n)
    PROVE  /\ DOMAIN chat' = ChatRuns
           /\ chat'[r].at = stage /\ chat'[r].read = n
           /\ \A q \in ChatRuns : q # r => chat'[q] = chat[q]
           /\ \A q \in ChatRuns :
                 /\ chat'[q].at \in ChatStages /\ chat'[q].read \in Int
                 /\ chat'[q].at \in {"question", "answer", "find", "delete"} => chat'[q].read > 0
<1>1. /\ DOMAIN chat' = ChatRuns /\ chat'[r] = [at |-> stage, read |-> n]
      /\ \A q \in ChatRuns : q # r => chat'[q] = chat[q]
  BY DEF ChatShape, ChatGoes
<1> QED
  BY <1>1 DEF ChatShape

\* Steps that leave the memory as it is.
MovesOn(r, stage, n) ==
    /\ stage \in ChatStages \ {"answer"} /\ n \in Int
    /\ stage \in {"question", "find", "delete"} => n > 0
    /\ ChatGoes(r, stage, n) /\ UNCHANGED <<memory, trimmed>>
    /\ DOMAIN history' = ChatRuns /\ \A q \in ChatRuns : q # r => history'[q] = history[q]
    /\ ~trimmed.reused => HistoryFollows(r)'
    /\ chatFaults' \in Nat /\ chatFaults' >= chatFaults
    /\ \/ chatFaults' > 0 \/ Cardinality(memory) <= MaxMessages
       \/ TrimmedSoon(r) => TrimmedSoon(r)'
    /\ ~trimmed.crossed => LeavesLimit(r)'

LEMMA MemoryStays ==
    ASSUME ChatInvariant, NEW r \in ChatRuns, NEW stage, NEW n, MovesOn(r, stage, n)
    PROVE  ChatInvariant'
<1> USE DEF MovesOn
<1>1. ChatShape /\ LimitDue /\ ExcessOnly /\ ExchangesKept
  BY DEF ChatInvariant
<1>2. /\ DOMAIN chat' = ChatRuns
      /\ chat'[r].at = stage /\ chat'[r].read = n
      /\ \A q \in ChatRuns : q # r => chat'[q] = chat[q]
      /\ \A q \in ChatRuns :
            /\ chat'[q].at \in ChatStages /\ chat'[q].read \in Int
            /\ chat'[q].at \in {"question", "answer", "find", "delete"} => chat'[q].read > 0
  BY <1>1, ChatMoves
<1>3. ChatShape'
  BY <1>1, <1>2 DEF ChatShape
<1>4. LimitDue'
  <2>1. \A q \in ChatRuns : q # r => (TrimmedSoon(q) <=> TrimmedSoon(q)')
    BY <1>2 DEF TrimmedSoon, ChatAt, Above
  <2>2. chatFaults > 0 => chatFaults' > 0
    BY <1>1 DEF ChatShape
  <2> QED
    BY <1>1, <2>1, <2>2 DEF LimitDue
<1>5. ExcessOnly'
  <2>1. \A q \in ChatRuns : q # r => (LeavesLimit(q) <=> LeavesLimit(q)')
    BY <1>2 DEF LeavesLimit, ChatAt, Above
  <2> QED
    BY <1>1, <2>1 DEF ExcessOnly
<1>6. ExchangesKept'
  <2>1. ASSUME NEW seq, NEW run PROVE Questioned(seq, run)' <=> Questioned(seq, run)
    BY DEF Questioned
  <2>2. \A q \in ChatRuns : PendingAsked(q) => PendingAsked(q)'
    BY <1>2, <2>1 DEF PendingAsked, ChatAt
  <2>3. \A q \in ChatRuns : q # r /\ HistoryFollows(q) => HistoryFollows(q)'
    BY DEF HistoryFollows, AnswersFollow
  <2>4. ASSUME ~trimmed.reused
        PROVE  /\ \A m \in memory :
                    m.seq > trimmed.upTo /\ (m.part = 2 => Questioned(m.seq - 1, m.run)')
               /\ \A q \in ChatRuns : PendingAsked(q)' /\ HistoryFollows(q)'
    BY <1>1, <2>1, <2>2, <2>3, <2>4 DEF ExchangesKept
  <2> QED
    BY <2>4 DEF ExchangesKept
<1> QED
  BY <1>3, <1>4, <1>5, <1>6 DEF ChatInvariant

LEMMA LoadKeeps ==
    ASSUME ChatInvariant, NEW r \in ChatRuns, LoadHistory(r)
    PROVE  ChatInvariant'
<1>1. ChatShape /\ ExchangesKept /\ MaxMessages \in Nat \ {0}
  BY ChatWithinLimit DEF ChatInvariant
<1>2. /\ ChatAt(r, "load") /\ ChatGoes(r, "append", 0)
      /\ history' = [history EXCEPT ![r] = Newest(MaxMessages)]
      /\ UNCHANGED <<memory, chatFaults, trimmed>>
  BY DEF LoadHistory
<1>3. \A m \in memory : m.seq \in Nat
  BY <1>1 DEF ChatShape
<1>4. ASSUME ~trimmed.reused PROVE AnswersFollow(Newest(MaxMessages))
  <2>1. SUFFICES ASSUME NEW a \in Newest(MaxMessages), a.part = 2,
                        NEW m \in Newest(MaxMessages), m.seq < a.seq
                 PROVE  Message(a.seq - 1, a.run, 1) \in Newest(MaxMessages)
    <3>1. \A b \in Newest(MaxMessages) : b.seq \in Nat
      BY <1>3 DEF Newest
    <3> QED
      BY <2>1, <3>1 DEF AnswersFollow
  <2>2. a \in memory /\ m \in memory /\ Cardinality(Above(m.seq)) < MaxMessages
    BY DEF Newest, Above
  <2>3. a.seq \in Nat /\ m.seq \in Nat /\ trimmed.upTo \in Nat
    BY <1>1, <2>2 DEF ChatShape
  <2>4. m.seq > trimmed.upTo /\ Questioned(a.seq - 1, a.run)
    BY <1>1, <1>4, <2>1, <2>2 DEF ExchangesKept
  <2> DEFINE q == Message(a.seq - 1, a.run, 1)
  <2>5. q \in memory
    BY <2>1, <2>3, <2>4 DEF Questioned
  <2>6. q.seq = a.seq - 1
    BY DEF Message
  <2>7. Above(q.seq) \subseteq Above(m.seq)
    BY <1>3, <2>1, <2>3, <2>6 DEF Above
  <2>8. IsFiniteSet(Above(m.seq))
    BY <1>1, FS_Subset DEF Above, ChatShape
  <2>9. Cardinality(Above(q.seq)) <= Cardinality(Above(m.seq))
        /\ Cardinality(Above(q.seq)) \in Nat /\ Cardinality(Above(m.seq)) \in Nat
    BY <2>7, <2>8, FS_Subset, FS_CardinalityType
  <2> HIDE DEF q
  <2>10. Cardinality(Above(q.seq)) < MaxMessages
    BY <1>1, <2>2, <2>9
  <2>11. q \in Newest(MaxMessages)
    BY <2>5, <2>10 DEF Newest, Above
  <2> QED
    BY <2>11 DEF q
<1>5. DOMAIN history' = ChatRuns /\ history'[r] = Newest(MaxMessages)
      /\ \A q \in ChatRuns : q # r => history'[q] = history[q]
  BY <1>1, <1>2 DEF ChatShape
<1>6. ~trimmed.reused => HistoryFollows(r)'
  BY <1>4, <1>5 DEF HistoryFollows, AnswersFollow
<1>7. chat'[r].at = "append"
  BY <1>1, <1>2, ChatMoves DEF ChatStages, Inserting
<1>8. LeavesLimit(r)' /\ TrimmedSoon(r)'
  BY <1>7 DEF LeavesLimit, TrimmedSoon, ChatAt, Inserting
<1>9. chatFaults' \in Nat /\ chatFaults' >= chatFaults
  BY <1>1, <1>2 DEF ChatShape
<1>10. MovesOn(r, "append", 0)
  BY <1>2, <1>5, <1>6, <1>8, <1>9 DEF MovesOn, ChatStages, Inserting
<1> QED
  BY <1>10, MemoryStays

LEMMA ReadKeeps ==
    ASSUME ChatInvariant, NEW r \in ChatRuns, AppendReads(r)
    PROVE  ChatInvariant'
<1>1. ChatShape /\ ExchangesKept
  BY DEF ChatInvariant
<1>2. PICK n : /\ n = IF memory = {} THEN 1 ELSE Max(Seqs) + 1
               /\ ChatGoes(r, "question", n) /\ UNCHANGED <<memory, history, chatFaults, trimmed>>
  BY DEF AppendReads
<1>3. n \in Int /\ n > 0
  BY <1>1, <1>2, HighestSeq
<1>4. chat'[r].at = "question"
  BY <1>1, <1>2, <1>3, ChatMoves DEF ChatStages, Inserting
<1>5. LeavesLimit(r)' /\ TrimmedSoon(r)'
  BY <1>4 DEF LeavesLimit, TrimmedSoon, ChatAt, Inserting
<1>6. chatFaults' \in Nat /\ chatFaults' >= chatFaults /\ DOMAIN history' = ChatRuns
  BY <1>1, <1>2 DEF ChatShape
<1>7. ~trimmed.reused => HistoryFollows(r)'
  BY <1>1, <1>2 DEF ExchangesKept, HistoryFollows, AnswersFollow
<1>8. MovesOn(r, "question", n)
  BY <1>2, <1>3, <1>5, <1>6, <1>7 DEF MovesOn, ChatStages, Inserting
<1> QED
  BY <1>8, MemoryStays

LEMMA FindKeeps ==
    ASSUME ChatInvariant, NEW r \in ChatRuns, TrimCounts(r) \/ TrimFinds(r) \/ CallFails(r)
    PROVE  ChatInvariant'
<1>1. ChatShape /\ LimitDue /\ ExcessOnly /\ ExchangesKept /\ MaxMessages \in Nat \ {0}
  BY ChatWithinLimit DEF ChatInvariant
<1>2. UNCHANGED <<memory, trimmed, history>> /\ DOMAIN history' = ChatRuns
  BY <1>1 DEF TrimCounts, TrimFinds, CallFails, ChatShape
<1>3. ~trimmed.reused => HistoryFollows(r)'
  BY <1>1, <1>2 DEF ExchangesKept, HistoryFollows, AnswersFollow
<1>4. chatFaults \in Nat /\ Cardinality(memory) \in Nat /\ chat[r].read \in Int
  BY <1>1, FS_CardinalityType DEF ChatShape
<1> DEFINE n == Cardinality(memory)
<1>5. CASE TrimCounts(r)
  <2>1. PICK stage, excess :
           /\ excess = n - MaxMessages
           /\ stage = IF excess > 0 THEN "find" ELSE "finished"
           /\ ChatGoes(r, stage, excess) /\ UNCHANGED chatFaults
    BY <1>5 DEF TrimCounts, Excess
  <2>2. stage \in ChatStages /\ excess \in Int /\ (stage = "find" => excess > 0)
        /\ stage \in {"find", "finished"}
    BY <1>1, <1>4, <2>1 DEF ChatStages, Inserting
  <2>3. chat'[r].at = stage /\ chat'[r].read = excess
    BY <1>1, <2>1, <2>2, ChatMoves
  <2>4. stage = "find" => n = MaxMessages + chat'[r].read
    BY <1>1, <1>4, <2>1, <2>3
  <2>5. LeavesLimit(r)'
    BY <1>1, <1>2, <1>4, <2>2, <2>3, <2>4 DEF LeavesLimit, ChatAt
  <2>6. n <= MaxMessages \/ TrimmedSoon(r)'
    BY <1>1, <1>2, <1>4, <2>1, <2>3, <2>4 DEF TrimmedSoon, ChatAt
  <2>7. MovesOn(r, stage, excess)
    BY <1>2, <1>3, <1>4, <2>1, <2>2, <2>5, <2>6 DEF MovesOn
  <2> QED
    BY <2>7, MemoryStays
<1>6. CASE TrimFinds(r)
  <2>1. chat[r].at = "find" /\ chat[r].read > 0 /\ UNCHANGED chatFaults
    BY <1>1, <1>6 DEF TrimFinds, ChatAt, ChatShape
  <2>2. PICK e : e = chat[r].read
    OBVIOUS
  <2>3. CASE memory = {}
    <3>1. Oldest(e) = {}
      BY <2>3 DEF Oldest
    <3>2. ChatGoes(r, "finished", 0)
      BY <1>6, <2>2, <3>1 DEF TrimFinds
    <3>3. chat'[r].at = "finished"
      BY <1>1, <3>2, ChatMoves DEF ChatStages
    <3>4. Cardinality(memory) = 0 /\ LeavesLimit(r)'
      BY <2>3, <3>3, FS_EmptySet DEF LeavesLimit, ChatAt
    <3>5. MovesOn(r, "finished", 0)
      BY <1>1, <1>2, <1>3, <1>4, <2>1, <3>2, <3>4 DEF MovesOn, ChatStages
    <3> QED
      BY <3>5, MemoryStays
  <2>4. CASE memory # {}
    <3>1. e \in Int /\ e > 0
      BY <1>4, <2>1, <2>2
    <3>2. PICK top \in Oldest(e) :
             /\ Max({m.seq : m \in Oldest(e)}) = top.seq
             /\ Cardinality(Above(top.seq)) \in Nat
             /\ Cardinality(Above(top.seq)) = IF e < n THEN n - e ELSE 0
      BY <1>1, <2>4, <3>1, OldestOf
    <3>3. ChatGoes(r, "delete", top.seq)
      BY <1>6, <2>2, <3>2 DEF TrimFinds
    <3>4. top.seq \in Int /\ top.seq > 0
      BY <1>1, <3>2 DEF Oldest, ChatShape
    <3>5. chat'[r].at = "delete" /\ chat'[r].read = top.seq
      BY <1>1, <3>3, <3>4, ChatMoves DEF ChatStages
    <3>6. TrimmedSoon(r) => TrimmedSoon(r)'
      <4>1. SUFFICES ASSUME n <= MaxMessages + e
                     PROVE  Cardinality(Above(top.seq)) <= MaxMessages
        BY <1>2, <2>1, <2>2, <3>5 DEF TrimmedSoon, ChatAt, Inserting, Above
      <4> QED
        BY <1>1, <1>4, <3>1, <3>2, <4>1
    <3>7. ~trimmed.crossed => LeavesLimit(r)'
      <4>1. SUFFICES ASSUME n >= MaxMessages + e
                     PROVE  Cardinality(Above(top.seq)) >= MaxMessages
        BY <1>1, <1>2, <2>1, <2>2, <3>5 DEF LeavesLimit, ChatAt, ExcessOnly, Above
      <4> QED
        BY <1>1, <1>4, <3>1, <3>2, <4>1
    <3>8. MovesOn(r, "delete", top.seq)
      BY <1>2, <1>3, <1>4, <2>1, <3>3, <3>4, <3>6, <3>7 DEF MovesOn, ChatStages
    <3> QED
      BY <3>8, MemoryStays
  <2> QED
    BY <2>3, <2>4
<1>7. CASE CallFails(r)
  <2>1. PICK stage \in {"append", "count", "finished"} :
           ChatGoes(r, stage, 0) /\ chatFaults' = chatFaults + 1
    BY <1>7 DEF CallFails
  <2>2. chat'[r].at = stage
    BY <1>1, <2>1, ChatMoves DEF ChatStages, Inserting
  <2>3. LeavesLimit(r)'
    BY <2>2 DEF LeavesLimit, ChatAt
  <2>4. chatFaults' \in Nat /\ chatFaults' > 0 /\ chatFaults' >= chatFaults
    BY <1>4, <2>1
  <2>5. MovesOn(r, stage, 0)
    BY <1>2, <1>3, <2>1, <2>3, <2>4 DEF MovesOn, ChatStages, Inserting
  <2> QED
    BY <2>5, MemoryStays
<1> QED
  BY <1>5, <1>6, <1>7

\* An insertion: the exchange is its own, and no seq is used twice.
LEMMA InsertKeeps ==
    ASSUME ChatInvariant, NEW r \in ChatRuns, InsertMany(r)
    PROVE  ChatInvariant'
<1>1. ChatShape /\ LimitDue /\ ExcessOnly /\ ExchangesKept
  BY DEF ChatInvariant
<1>2. PICK stage, part, seq, next :
         /\ \/ stage = "question" /\ part = 1 /\ seq = chat[r].read /\ next = "answer"
            \/ stage = "answer" /\ part = 2 /\ seq = chat[r].read + 1 /\ next = "count"
         /\ InsertPart(r, stage, part, seq, next)
  BY DEF InsertMany
<1>3. /\ chat[r].at = stage /\ UNCHANGED <<history, chatFaults>>
      /\ chat[r].read \in Int /\ chat[r].read > 0 /\ seq \in Nat \ {0} /\ chatFaults \in Nat
  BY <1>1, <1>2 DEF InsertPart, ChatAt, ChatShape
<1>4. CASE seq \in Seqs
  <2>1. ChatGoes(r, "count", 0) /\ UNCHANGED <<memory, trimmed>>
    BY <1>2, <1>4 DEF InsertPart
  <2>2. chat'[r].at = "count"
    BY <1>1, <2>1, ChatMoves DEF ChatStages, Inserting
  <2>3. LeavesLimit(r)' /\ TrimmedSoon(r)'
    BY <2>2 DEF LeavesLimit, TrimmedSoon, ChatAt, Inserting
  <2>4. DOMAIN history' = ChatRuns /\ (~trimmed.reused => HistoryFollows(r)')
    BY <1>1, <1>3 DEF ChatShape, ExchangesKept, HistoryFollows, AnswersFollow
  <2>5. MovesOn(r, "count", 0)
    BY <1>3, <2>1, <2>3, <2>4 DEF MovesOn, ChatStages, Inserting
  <2> QED
    BY <2>5, MemoryStays
<1>5. CASE seq \notin Seqs
  <2>1. PICK new : new = Message(seq, r, part)
    OBVIOUS
  <2>2. /\ memory' = memory \cup {new} /\ ChatGoes(r, next, chat[r].read)
        /\ trimmed' = [trimmed EXCEPT !.reused = @ \/ seq <= trimmed.upTo]
    BY <1>2, <1>5, <2>1 DEF InsertPart
  <2>3. new.seq = seq /\ new.run = r /\ new.part = part
    BY <2>1 DEF Message
  <2>4. /\ DOMAIN chat' = ChatRuns
        /\ chat'[r].at = next /\ chat'[r].read = chat[r].read
        /\ \A q \in ChatRuns : q # r => chat'[q] = chat[q]
        /\ \A q \in ChatRuns :
              /\ chat'[q].at \in ChatStages /\ chat'[q].read \in Int
              /\ chat'[q].at \in {"question", "answer", "find", "delete"} => chat'[q].read > 0
    BY <1>1, <1>2, <1>3, <2>2, ChatMoves DEF ChatStages, Inserting
  <2>5. /\ trimmed'.upTo = trimmed.upTo /\ trimmed'.crossed = trimmed.crossed
        /\ ~trimmed'.reused => ~trimmed.reused /\ ~(seq <= trimmed.upTo)
        /\ trimmed' \in [upTo : Nat, crossed : BOOLEAN, reused : BOOLEAN]
    BY <1>1, <2>2 DEF ChatShape
  <2>6. new \notin memory /\ \A m \in memory : m.seq # seq
    BY <1>5, <2>3 DEF Seqs
  <2>7. IsFiniteSet(memory) /\ IsFiniteSet(memory') /\ Cardinality(memory) \in Nat
        /\ Cardinality(memory') = Cardinality(memory) + 1
    BY <1>1, <2>2, <2>6, FS_AddElement, FS_CardinalityType DEF ChatShape
  <2>8. ChatShape'
    <3>1. \A m \in memory' : m.seq \in Nat \ {0}
      BY <1>1, <1>3, <2>2, <2>3 DEF ChatShape
    <3>2. \A m, o \in memory' : m.seq = o.seq => m = o
      BY <1>1, <2>2, <2>3, <2>6 DEF ChatShape
    <3> QED
      BY <1>1, <1>3, <2>4, <2>5, <2>7, <3>1, <3>2 DEF ChatShape
  <2>9. LimitDue'
    <3>1. TrimmedSoon(r)'
      BY <1>2, <2>4 DEF TrimmedSoon, Inserting
    <3> QED
      BY <3>1 DEF LimitDue
  <2>10. ExcessOnly'
    <3>1. ASSUME ~trimmed.crossed, NEW q \in ChatRuns PROVE LeavesLimit(q)'
      <4>1. CASE q = r
        BY <1>2, <2>4, <4>1 DEF LeavesLimit, ChatAt
      <4>2. CASE q # r
        <5>1. LeavesLimit(q) /\ chat'[q] = chat[q] /\ chat[q].read \in Int
          BY <1>1, <2>4, <3>1, <4>2 DEF ExcessOnly, ChatShape
        <5>2. PICK s : s = chat[q].read
          OBVIOUS
        <5>3. Above(s) \subseteq Above(s)' /\ Above(s)' \subseteq memory'
          BY <2>2 DEF Above
        <5>4. IsFiniteSet(Above(s)')
          BY <2>7, <5>3, FS_Subset
        <5>5. /\ Cardinality(Above(s)) <= Cardinality(Above(s)')
              /\ Cardinality(Above(s)) \in Nat /\ Cardinality(Above(s)') \in Nat
          BY <5>3, <5>4, FS_Subset, FS_CardinalityType
        <5>6. ChatAt(q, "find")' => Cardinality(memory') >= MaxMessages + s
          BY <2>7, <5>1, <5>2, ChatWithinLimit DEF LeavesLimit, ChatAt
        <5>7. ChatAt(q, "delete")' => Cardinality(Above(s)') >= MaxMessages
          BY <5>1, <5>2, <5>5, ChatWithinLimit DEF LeavesLimit, ChatAt
        <5> QED
          BY <5>1, <5>2, <5>6, <5>7 DEF LeavesLimit
      <4> QED
        BY <4>1, <4>2
    <3>2. ~trimmed.crossed /\ trimmed.upTo > 0 => Cardinality(memory') >= MaxMessages
      BY <1>1, <2>7, ChatWithinLimit DEF ExcessOnly
    <3> QED
      BY <2>5, <3>1, <3>2 DEF ExcessOnly
  <2>11. ExchangesKept'
    <3>1. SUFFICES ASSUME ~trimmed'.reused
                   PROVE  /\ \A m \in memory' :
                               /\ m.seq > trimmed'.upTo
                               /\ m.part = 2 => Questioned(m.seq - 1, m.run)'
                          /\ \A q \in ChatRuns : PendingAsked(q)'
                          /\ \A q \in ChatRuns : HistoryFollows(q)'
      BY DEF ExchangesKept
    <3>2. ~trimmed.reused /\ seq > trimmed.upTo
      <4>1. trimmed.upTo \in Nat
        BY <1>1 DEF ChatShape
      <4> QED
        BY <1>3, <2>5, <3>1, <4>1
    <3>3. \A s, run : Questioned(s, run) => Questioned(s, run)'
      BY <2>2, <2>5 DEF Questioned
    <3>4. \A m \in memory : m.seq > trimmed.upTo /\ (m.part = 2 => Questioned(m.seq - 1, m.run)')
      BY <1>1, <3>2, <3>3 DEF ExchangesKept
    <3>5. part = 2 => Questioned(seq - 1, r)'
      <4>1. SUFFICES ASSUME part = 2 PROVE Questioned(seq - 1, r)
        BY <3>3
      <4>2. chat[r].at = "answer" /\ seq - 1 = chat[r].read
        BY <1>2, <1>3, <4>1
      <4> QED
        BY <1>1, <3>2, <4>2 DEF ExchangesKept, PendingAsked, ChatAt
    <3>6. ASSUME NEW q \in ChatRuns PROVE PendingAsked(q)'
      <4>1. CASE q # r
        BY <1>1, <2>4, <3>2, <3>3, <3>6, <4>1 DEF ExchangesKept, PendingAsked, ChatAt
      <4>2. CASE q = r
        <5>1. PICK s : s = chat[r].read
          OBVIOUS
        <5>2. next = "answer" => new = Message(s, r, 1)
          BY <1>2, <2>1, <5>1
        <5>3. next = "answer" => Questioned(s, r)'
          BY <2>2, <5>2 DEF Questioned
        <5> QED
          BY <2>4, <4>2, <5>1, <5>3 DEF PendingAsked, ChatAt
      <4> QED
        BY <4>1, <4>2
    <3>7. \A q \in ChatRuns : HistoryFollows(q)'
      BY <1>1, <1>3, <3>2 DEF ExchangesKept, HistoryFollows, AnswersFollow
    <3> QED
      BY <2>2, <2>3, <2>5, <3>2, <3>4, <3>5, <3>6, <3>7
  <2> QED
    BY <2>8, <2>9, <2>10, <2>11 DEF ChatInvariant
<1> QED
  BY <1>4, <1>5

LEMMA DeleteChatKeeps ==
    ASSUME ChatInvariant, NEW r \in ChatRuns, TrimDeletes(r)
    PROVE  ChatInvariant'
<1>1. ChatShape /\ LimitDue /\ ExcessOnly /\ ExchangesKept /\ MaxMessages \in Nat \ {0}
  BY ChatWithinLimit DEF ChatInvariant
<1>2. PICK cut : cut = chat[r].read
  OBVIOUS
<1>3. /\ chat[r].at = "delete" /\ ChatGoes(r, "finished", 0) /\ memory' = Above(cut)
      /\ UNCHANGED <<history, chatFaults>>
      /\ trimmed' = [trimmed EXCEPT !.upTo = Max({trimmed.upTo, cut}),
                          !.crossed = @ \/ \E q \in ChatRuns \ {r} : Trimming(q)]
  BY <1>2 DEF TrimDeletes, ChatAt, Above
<1>4. cut \in Nat /\ cut > 0 /\ trimmed.upTo \in Nat
  BY <1>1, <1>2, <1>3 DEF ChatShape
<1>5. PICK top : /\ top = Max({trimmed.upTo, cut})
                 /\ top \in Nat /\ top >= cut /\ top >= trimmed.upTo
                 /\ top = cut \/ top = trimmed.upTo
  <2>1. PICK x \in {trimmed.upTo, cut} : \A y \in {trimmed.upTo, cut} : x >= y
    BY <1>4
  <2>2. Max({trimmed.upTo, cut}) \in {trimmed.upTo, cut}
        /\ \A y \in {trimmed.upTo, cut} : Max({trimmed.upTo, cut}) >= y
    BY <2>1 DEF Max
  <2> QED
    BY <1>4, <2>2
<1>6. /\ trimmed'.upTo = top /\ trimmed'.reused = trimmed.reused
      /\ ~trimmed'.crossed => ~trimmed.crossed /\ \A q \in ChatRuns \ {r} : ~Trimming(q)
      /\ trimmed' \in [upTo : Nat, crossed : BOOLEAN, reused : BOOLEAN]
  <2>1. trimmed \in [upTo : Nat, crossed : BOOLEAN, reused : BOOLEAN]
    BY <1>1 DEF ChatShape
  <2> QED
    BY <1>3, <1>5, <2>1
<1>7. /\ DOMAIN chat' = ChatRuns
      /\ chat'[r].at = "finished"
      /\ \A q \in ChatRuns : q # r => chat'[q] = chat[q]
      /\ \A q \in ChatRuns :
            /\ chat'[q].at \in ChatStages /\ chat'[q].read \in Int
            /\ chat'[q].at \in {"question", "answer", "find", "delete"} => chat'[q].read > 0
  BY <1>1, <1>3, ChatMoves DEF ChatStages
<1>8. /\ memory' \subseteq memory /\ IsFiniteSet(memory) /\ IsFiniteSet(memory')
      /\ Cardinality(memory') <= Cardinality(memory)
      /\ Cardinality(memory) \in Nat /\ Cardinality(memory') \in Nat
  BY <1>1, <1>3, FS_Subset, FS_CardinalityType DEF Above, ChatShape
<1>9. ChatShape'
  BY <1>1, <1>3, <1>6, <1>7, <1>8 DEF ChatShape
<1>10. LimitDue'
  <2>1. ASSUME NEW q \in ChatRuns, q # r, TrimmedSoon(q) PROVE TrimmedSoon(q)'
    <3>1. PICK s : s = chat[q].read
      OBVIOUS
    <3>2. Above(s)' \subseteq Above(s) /\ Above(s) \subseteq memory
      BY <1>8 DEF Above
    <3>3. /\ Cardinality(Above(s)') <= Cardinality(Above(s))
          /\ Cardinality(Above(s)) \in Nat /\ Cardinality(Above(s)') \in Nat
      BY <1>8, <3>2, FS_Subset, FS_CardinalityType
    <3>4. chat'[q] = chat[q] /\ s \in Int
      BY <1>1, <1>7, <2>1, <3>1 DEF ChatShape
    <3>5. ChatAt(q, "find") /\ Cardinality(memory) <= MaxMessages + s =>
             Cardinality(memory') <= MaxMessages + s
      BY <1>1, <1>8, <3>4
    <3>6. ChatAt(q, "delete") /\ Cardinality(Above(s)) <= MaxMessages =>
             Cardinality(Above(s)') <= MaxMessages
      BY <1>1, <3>3
    <3> QED
      BY <2>1, <3>1, <3>4, <3>5, <3>6 DEF TrimmedSoon, ChatAt
  <2>2. TrimmedSoon(r) => Cardinality(memory') <= MaxMessages
    BY <1>2, <1>3 DEF TrimmedSoon, ChatAt, Inserting
  <2>3. Cardinality(memory) <= MaxMessages => Cardinality(memory') <= MaxMessages
    BY <1>1, <1>8
  <2> QED
    BY <1>1, <1>3, <2>1, <2>2, <2>3 DEF LimitDue
<1>11. ExcessOnly'
  <2>1. SUFFICES ASSUME ~trimmed'.crossed
                 PROVE  (\A q \in ChatRuns : LeavesLimit(q)') /\ Cardinality(memory') >= MaxMessages
    BY DEF ExcessOnly
  <2>2. \A q \in ChatRuns : LeavesLimit(q)'
    BY <1>6, <1>7, <2>1 DEF LeavesLimit, ChatAt, Trimming
  <2>3. LeavesLimit(r)
    BY <1>1, <1>6, <2>1 DEF ExcessOnly
  <2> QED
    BY <1>2, <1>3, <2>2, <2>3 DEF LeavesLimit, ChatAt
<1>12. ExchangesKept'
  <2>1. SUFFICES ASSUME ~trimmed.reused
                 PROVE  /\ \A m \in memory' :
                             m.seq > top /\ (m.part = 2 => Questioned(m.seq - 1, m.run)')
                        /\ \A q \in ChatRuns : PendingAsked(q)'
                        /\ \A q \in ChatRuns : HistoryFollows(q)'
    BY <1>6 DEF ExchangesKept
  <2>2. \A m \in memory' : m.seq > top
    BY <1>1, <1>3, <1>5, <2>1 DEF Above, ExchangesKept
  <2>3. ASSUME NEW s \in Int, NEW run, Questioned(s, run) PROVE Questioned(s, run)'
    <3>1. CASE s <= trimmed.upTo
      BY <1>4, <1>5, <1>6, <3>1 DEF Questioned
    <3>2. CASE Message(s, run, 1) \in memory
      <4>1. Message(s, run, 1).seq = s
        BY DEF Message
      <4>2. s <= cut \/ Message(s, run, 1) \in memory'
        BY <1>3, <1>4, <3>2, <4>1 DEF Above
      <4> QED
        BY <1>4, <1>5, <1>6, <4>2 DEF Questioned
    <3> QED
      BY <2>3, <3>1, <3>2 DEF Questioned
  <2>4. ASSUME NEW m \in memory', m.part = 2 PROVE Questioned(m.seq - 1, m.run)'
    <3>1. m \in memory /\ m.seq - 1 \in Int
      BY <1>1, <1>8 DEF ChatShape
    <3>2. Questioned(m.seq - 1, m.run)
      BY <1>1, <2>1, <2>4, <3>1 DEF ExchangesKept
    <3> QED
      BY <2>3, <3>1, <3>2
  <2>5. ASSUME NEW q \in ChatRuns PROVE PendingAsked(q)'
    <3>1. q # r => chat'[q] = chat[q] /\ chat[q].read \in Int
      BY <1>1, <1>7 DEF ChatShape
    <3>2. PendingAsked(q)
      BY <1>1, <2>1 DEF ExchangesKept
    <3> QED
      BY <1>7, <2>3, <3>1, <3>2 DEF PendingAsked, ChatAt
  <2>6. \A q \in ChatRuns : HistoryFollows(q)'
    BY <1>1, <1>3, <2>1 DEF ExchangesKept, HistoryFollows, AnswersFollow
  <2> QED
    BY <2>2, <2>4, <2>5, <2>6
<1> QED
  BY <1>9, <1>10, <1>11, <1>12 DEF ChatInvariant

\* For any number of runs of a session, any limit and any interleaving of their calls:
\* without faults the memory ends within the limit, trims that do not overlap take off
\* the excess only, and answers stay with their questions until a trimmed seq is reused.
THEOREM MemoryStaysSound == ChatSpec => []MemorySound
<1>1. ChatInvariant /\ [ChatNext]_chatVars => ChatInvariant'
  <2>1. ASSUME ChatInvariant, ChatNext PROVE ChatInvariant'
    BY <2>1, LoadKeeps, ReadKeeps, InsertKeeps, FindKeeps, DeleteChatKeeps DEF ChatNext
  <2>2. ASSUME ChatInvariant, UNCHANGED chatVars PROVE ChatInvariant'
    BY <2>2 DEF chatVars, ChatInvariant, ChatShape, LimitDue, ExcessOnly, ExchangesKept,
                TrimmedSoon, LeavesLimit, Above, Questioned, ChatAt, PendingAsked,
                HistoryFollows, AnswersFollow
  <2> QED
    BY <2>1, <2>2
<1>2. ChatInvariant => MemorySound
  <2> SUFFICES ASSUME ChatInvariant PROVE MemorySound
    OBVIOUS
  <2>1. ChatShape /\ LimitDue /\ ExcessOnly /\ ExchangesKept
    BY DEF ChatInvariant
  <2>2. chatFaults = 0 /\ (\A r \in ChatRuns : ChatAt(r, "finished")) =>
           Cardinality(memory) <= MaxMessages
    BY <2>1 DEF LimitDue, TrimmedSoon, ChatAt, Inserting
  <2>3. trimmed.upTo > 0 /\ ~trimmed.crossed => Cardinality(memory) >= MaxMessages
    BY <2>1 DEF ExcessOnly
  <2>4. ASSUME ~trimmed.reused PROVE AnswersFollow(memory)
    <3>1. SUFFICES ASSUME NEW a \in memory, a.part = 2, NEW m \in memory, ~(a.seq <= m.seq)
                   PROVE  Message(a.seq - 1, a.run, 1) \in memory
      BY DEF AnswersFollow
    <3>2. Questioned(a.seq - 1, a.run) /\ m.seq > trimmed.upTo
      BY <2>1, <2>4, <3>1 DEF ExchangesKept
    <3>3. a.seq \in Nat /\ m.seq \in Nat /\ trimmed.upTo \in Nat
      BY <2>1 DEF ChatShape
    <3> QED
      BY <3>1, <3>2, <3>3 DEF Questioned
  <2> QED
    BY <2>1, <2>2, <2>3, <2>4 DEF MemorySound, ExchangesKept, HistoryFollows
<1> QED
  BY ChatBegins, <1>1, <1>2, PTL DEF ChatSpec

=============================================================================
