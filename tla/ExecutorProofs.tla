--------------------------- MODULE ExecutorProofs ---------------------------
(***************************************************************************)
(* FrontierInvariant is inductive, for every graph of finitely many edges  *)
(* and any bounds on crashes, faults, clicks and yields; what follows from *)
(* it for a finished walk and for successive checkpoints.                  *)
(***************************************************************************)
EXTENDS Executor, SequenceTheorems, FiniteSetTheorems, TLAPS

-----------------------------------------------------------------------------
(***************************************************************************)
(* Queues.                                                                 *)
(***************************************************************************)
\* The elements of a concatenation.
LEMMA RangeOfConcat ==
    ASSUME NEW S, NEW s \in Seq(S), NEW t \in Seq(S)
    PROVE  Range(s \o t) = Range(s) \cup Range(t)
<1>1. /\ s \o t \in Seq(S)
      /\ Len(s \o t) = Len(s) + Len(t)
      /\ \A i \in 1 .. Len(s) + Len(t) :
            (s \o t)[i] = IF i <= Len(s) THEN s[i] ELSE t[i - Len(s)]
  BY ConcatProperties
<1>2. /\ Len(s) \in Nat /\ DOMAIN s = 1 .. Len(s)
      /\ Len(t) \in Nat /\ DOMAIN t = 1 .. Len(t)
      /\ DOMAIN (s \o t) = 1 .. Len(s) + Len(t)
  BY <1>1, LenProperties
<1>3. ASSUME NEW x \in Range(s \o t) PROVE x \in Range(s) \cup Range(t)
  <2>1. PICK i \in 1 .. Len(s) + Len(t) : x = (s \o t)[i]
    BY <1>2 DEF Range
  <2>2. CASE i <= Len(s)
    <3>1. i \in 1 .. Len(s) /\ x = s[i]
      BY <1>1, <1>2, <2>1, <2>2
    <3> QED
      BY <1>2, <3>1 DEF Range
  <2>3. CASE ~(i <= Len(s))
    <3>1. i - Len(s) \in 1 .. Len(t) /\ x = t[i - Len(s)]
      BY <1>1, <1>2, <2>1, <2>3
    <3> QED
      BY <1>2, <3>1 DEF Range
  <2> QED
    BY <2>2, <2>3
<1>4. ASSUME NEW x \in Range(s) PROVE x \in Range(s \o t)
  <2>1. PICK i \in 1 .. Len(s) : x = s[i]
    BY <1>2 DEF Range
  <2>2. i \in 1 .. Len(s) + Len(t) /\ x = (s \o t)[i]
    BY <1>1, <1>2, <2>1
  <2> QED
    BY <1>2, <2>2 DEF Range
<1>5. ASSUME NEW x \in Range(t) PROVE x \in Range(s \o t)
  <2>1. PICK i \in 1 .. Len(t) : x = t[i]
    BY <1>2 DEF Range
  <2>2. /\ Len(s) + i \in 1 .. Len(s) + Len(t)
        /\ ~(Len(s) + i <= Len(s))
        /\ (Len(s) + i) - Len(s) = i
    BY <1>2, <2>1
  <2>3. x = (s \o t)[Len(s) + i]
    BY <1>1, <2>1, <2>2
  <2> QED
    BY <1>2, <2>2, <2>3 DEF Range
<1> QED
  BY <1>3, <1>4, <1>5

\* The elements of a queue are its head and those of its tail.
LEMMA RangeOfTail ==
    ASSUME NEW S, NEW s \in Seq(S), s # <<>>
    PROVE  /\ Head(s) \in S
           /\ Tail(s) \in Seq(S)
           /\ Range(s) = {Head(s)} \cup Range(Tail(s))
<1>1. /\ Head(s) \in S /\ Tail(s) \in Seq(S)
      /\ Len(Tail(s)) = Len(s) - 1
      /\ \A i \in 1 .. Len(Tail(s)) : Tail(s)[i] = s[i + 1]
  BY HeadTailProperties
<1>2. /\ Len(s) \in Nat \ {0} /\ DOMAIN s = 1 .. Len(s)
      /\ DOMAIN Tail(s) = 1 .. Len(s) - 1
  BY <1>1, LenProperties, EmptySeq
<1>3. Head(s) = s[1]
  OBVIOUS
<1>4. ASSUME NEW x \in Range(s) PROVE x \in {Head(s)} \cup Range(Tail(s))
  <2>1. PICK i \in 1 .. Len(s) : x = s[i]
    BY <1>2 DEF Range
  <2>2. CASE i = 1
    BY <1>3, <2>1, <2>2
  <2>3. CASE i # 1
    <3>1. i - 1 \in 1 .. Len(s) - 1 /\ (i - 1) + 1 = i
      BY <1>2, <2>1, <2>3
    <3>2. x = Tail(s)[i - 1]
      BY <1>1, <2>1, <3>1
    <3> QED
      BY <1>2, <3>1, <3>2 DEF Range
  <2> QED
    BY <2>2, <2>3
<1>5. ASSUME NEW x \in Range(Tail(s)) PROVE x \in Range(s)
  <2>1. PICK i \in 1 .. Len(s) - 1 : x = Tail(s)[i]
    BY <1>2 DEF Range
  <2>2. i + 1 \in 1 .. Len(s) /\ x = s[i + 1]
    BY <1>1, <1>2, <2>1
  <2> QED
    BY <1>2, <2>2 DEF Range
<1>6. Head(s) \in Range(s)
  BY <1>2, <1>3 DEF Range
<1> QED
  BY <1>1, <1>4, <1>5, <1>6

\* A list of a finite set's elements is a sequence, and misses none.
LEMMA OrdersList ==
    ASSUME NEW S, IsFiniteSet(S), NEW s \in Orders(S)
    PROVE  s \in Seq(S) /\ DOMAIN s = 1 .. Len(s) /\ Range(s) = S
<1>1. Cardinality(S) \in Nat
  BY FS_CardinalityType
<1>2. s \in [1 .. Cardinality(S) -> S] /\ \A x \in S : \E i \in DOMAIN s : s[i] = x
  BY DEF Orders
<1>3. s \in Seq(S)
  BY <1>1, <1>2, SeqDef
<1>4. DOMAIN s = 1 .. Len(s)
  BY <1>3, LenProperties
<1>5. Range(s) = S
  BY <1>2 DEF Range
<1> QED
  BY <1>3, <1>4, <1>5

\* Queueing the targets of a list of edges queues exactly these.
LEMMA TargetsList ==
    ASSUME NEW E \in SUBSET Edges, NEW order \in Orders(E)
    PROVE  LET targets == [i \in DOMAIN order |-> order[i].to]
           IN  targets \in Seq(Ids) /\ Range(targets) = {e.to : e \in E}
<1> DEFINE targets == [i \in DOMAIN order |-> order[i].to]
<1>1. IsFiniteSet(E)
  BY FiniteAssumption, FS_Subset
<1>2. order \in Seq(E) /\ DOMAIN order = 1 .. Len(order) /\ Range(order) = E
  BY <1>1, OrdersList
<1>3. Len(order) \in Nat
  BY <1>2, LenProperties
<1>4. \A i \in DOMAIN order : order[i] \in E
  BY <1>2 DEF Range
<1>5. \A e \in E : e.to \in Ids
  BY GraphAssumption
<1>6. targets \in [1 .. Len(order) -> Ids]
  BY <1>2, <1>4, <1>5
<1>7. targets \in Seq(Ids)
  BY <1>3, <1>6, SeqDef
<1>8. Range(targets) = {order[i].to : i \in DOMAIN order}
  BY DEF Range
<1>9. {order[i].to : i \in DOMAIN order} = {e.to : e \in E}
  <2>1. ASSUME NEW e \in E PROVE \E i \in DOMAIN order : order[i].to = e.to
    BY <1>2 DEF Range
  <2> QED
    BY <1>4, <2>1
<1> QED
  BY <1>7, <1>8, <1>9

-----------------------------------------------------------------------------
(***************************************************************************)
(* Reachability.                                                           *)
(***************************************************************************)
\* More edges reach more.
LEMMA ReachableGrows ==
    ASSUME NEW S, NEW E, NEW F, E \subseteq F
    PROVE  Reachable(S, E) \subseteq Reachable(S, F)
  BY DEF Reachable, ClosedUnder

\* What is reachable holds its origin and is closed under the edges.
LEMMA ReachableCloses ==
    ASSUME NEW S, NEW E \in SUBSET Edges
    PROVE  /\ S \cap Ids \subseteq Reachable(S, E)
           /\ \A e \in E : e.from \in Reachable(S, E) => e.to \in Reachable(S, E)
<1>1. \A e \in E : e.to \in Ids
  BY GraphAssumption
<1>2. ASSUME NEW e \in E, e.from \in Reachable(S, E) PROVE e.to \in Reachable(S, E)
  BY <1>1, <1>2 DEF Reachable, ClosedUnder
<1> QED
  BY <1>2 DEF Reachable, ClosedUnder

\* A set of ids that holds the origin and is closed holds all that is reachable.
LEMMA ReachableLeast ==
    ASSUME NEW S, NEW E, NEW X \in SUBSET Ids, ClosedUnder(X, S, E)
    PROVE  Reachable(S, E) \subseteq X
  BY DEF Reachable
-----------------------------------------------------------------------------
(***************************************************************************)
(* What the walk does to a frontier keeps it a frontier of a walk.         *)
(***************************************************************************)
\* The frontier a first pass starts from.
LEMMA FreshFrontier ==
    ASSUME NEW order \in Orders(Triggers)
    PROVE  LET f == [EmptyFrontier EXCEPT !.queue = order]
           IN  /\ f \in Frontiers
               /\ FrontierOK(f, NoNode)
               /\ f.visited = {} /\ f.fired = {}
<1> DEFINE f == [EmptyFrontier EXCEPT !.queue = order]
<1>1. order \in Seq(Triggers) /\ Range(order) = Triggers
  BY FiniteAssumption, OrdersList
<1>2. order \in Seq(Ids)
  BY <1>1, SeqMonotonic, GraphAssumption DEF Ids
<1>3. f \in Frontiers /\ f.visited = {} /\ f.fired = {} /\ f.queue = order
  BY <1>2 DEF Frontiers, EmptyFrontier
<1>4. Queued(f) = Triggers
  BY <1>1, <1>3 DEF Queued
<1>5. Covered(f)
  BY <1>3, <1>4 DEF Covered
<1>6. Founded(f)
  BY <1>3, <1>4, ReachableCloses, GraphAssumption DEF Founded, Ids
<1>7. Decided(f, NoNode)
  BY <1>3 DEF Decided
<1> QED
  BY <1>3, <1>5, <1>6, <1>7 DEF FrontierOK

\* The head of the queue is the one element that leaves it.
LEMMA PopFrontier ==
    ASSUME NEW f \in Frontiers, f.queue # <<>>
    PROVE  LET g == [f EXCEPT !.queue = Tail(@)]
           IN  /\ g \in Frontiers
               /\ g.visited = f.visited /\ g.fired = f.fired
               /\ Head(f.queue) \in Ids
               /\ Queued(f) = {Head(f.queue)} \cup Queued(g)
<1> DEFINE g == [f EXCEPT !.queue = Tail(@)]
<1>1. f.queue \in Seq(Ids)
  BY DEF Frontiers
<1>2. /\ Head(f.queue) \in Ids /\ Tail(f.queue) \in Seq(Ids)
      /\ Range(f.queue) = {Head(f.queue)} \cup Range(Tail(f.queue))
  BY <1>1, RangeOfTail
<1>3. g \in Frontiers /\ g.visited = f.visited /\ g.fired = f.fired
      /\ g.queue = Tail(f.queue)
  BY <1>2 DEF Frontiers
<1> QED
  BY <1>2, <1>3 DEF Queued

\* A queued id that is visited or in a body is dropped.
LEMMA SkipFrontier ==
    ASSUME NEW f \in Frontiers, FrontierOK(f, NoNode), f.queue # <<>>,
           Head(f.queue) \in f.visited \cup Bodies
    PROVE  LET g == [f EXCEPT !.queue = Tail(@)]
           IN  /\ g \in Frontiers
               /\ FrontierOK(g, NoNode)
               /\ g.visited = f.visited /\ g.fired = f.fired
<1> DEFINE g == [f EXCEPT !.queue = Tail(@)]
<1>1. /\ g \in Frontiers
      /\ g.visited = f.visited /\ g.fired = f.fired
      /\ Queued(f) = {Head(f.queue)} \cup Queued(g)
  BY PopFrontier
<1> HIDE DEF g
<1>2. Covered(g) /\ Founded(g) /\ Decided(g, NoNode)
  BY <1>1 DEF FrontierOK, Covered, Founded, Decided
<1>3. FrontierOK(g, NoNode)
  BY <1>1, <1>2 DEF FrontierOK
<1> QED
  BY <1>1, <1>3 DEF g

\* A queued id is visited: as the pending node, or as no node at all.
LEMMA VisitFrontier ==
    ASSUME NEW f \in Frontiers, FrontierOK(f, NoNode), f.queue # <<>>,
           Head(f.queue) \notin f.visited \cup Bodies,
           NEW pending, pending = Head(f.queue) \/ (pending = NoNode /\ Head(f.queue) \notin Nodes)
    PROVE  LET g == [[f EXCEPT !.queue = Tail(@)] EXCEPT !.visited = @ \cup {Head(f.queue)}]
           IN  /\ g \in Frontiers
               /\ FrontierOK(g, pending)
               /\ g.visited = f.visited \cup {Head(f.queue)}
               /\ g.fired = f.fired
<1> DEFINE h == [f EXCEPT !.queue = Tail(@)]
           g == [h EXCEPT !.visited = @ \cup {Head(f.queue)}]
<1>1. /\ h \in Frontiers
      /\ h.visited = f.visited /\ h.fired = f.fired
      /\ Head(f.queue) \in Ids
      /\ Queued(f) = {Head(f.queue)} \cup Queued(h)
  BY PopFrontier
<1> HIDE DEF h
<1>2. /\ g \in Frontiers
      /\ g.visited = f.visited \cup {Head(f.queue)} /\ g.fired = f.fired
      /\ g.queue = h.queue
  BY <1>1 DEF Frontiers
<1>3. Queued(g) = Queued(h)
  BY <1>2 DEF Queued
<1> HIDE DEF g
<1>4. Covered(g) /\ Founded(g)
  BY <1>1, <1>2, <1>3 DEF FrontierOK, Covered, Founded
<1>5. f.visited \subseteq Ids /\ NoNode \notin f.visited
  BY GraphAssumption DEF Frontiers
<1>6. Decided(f, NoNode)
  BY DEF FrontierOK
<1>7. Decided(g, pending)
  <2>1. \A e \in g.fired : e.from \in g.visited \ {pending}
    BY <1>2, <1>5, <1>6 DEF Decided
  <2>2. (g.visited \cap Nodes) \ {pending} \subseteq (f.visited \cap Nodes) \ {NoNode}
    BY <1>2, <1>5
  <2> QED
    BY <1>2, <1>6, <2>1, <2>2 DEF Decided
<1>8. g.visited \cap Bodies = {}
  BY <1>2 DEF FrontierOK
<1>9. FrontierOK(g, pending)
  BY <1>4, <1>7, <1>8 DEF FrontierOK
<1> QED
  BY <1>2, <1>9 DEF g, h

\* The rollback view has the pending node back at the head of the queue.
LEMMA RollbackFrontier ==
    ASSUME NEW f \in Frontiers, NEW n \in Nodes, n \in f.visited, FrontierOK(f, n)
    PROVE  LET g == [f EXCEPT !.visited = @ \ {n}, !.queue = <<n>> \o @]
           IN  /\ g \in Frontiers
               /\ FrontierOK(g, NoNode)
               /\ g.visited = f.visited \ {n} /\ g.fired = f.fired
<1> DEFINE g == [f EXCEPT !.visited = @ \ {n}, !.queue = <<n>> \o @]
<1>1. f.queue \in Seq(Ids) /\ <<n>> \in Seq(Ids)
  BY DEF Frontiers, Ids
<1>2. <<n>> \o f.queue \in Seq(Ids)
  BY <1>1, ConcatProperties
<1>3. Range(<<n>> \o f.queue) = Range(<<n>>) \cup Range(f.queue)
  BY <1>1, RangeOfConcat
<1>4. Range(<<n>>) = {n}
  BY DEF Range
<1>5. /\ g \in Frontiers
      /\ g.visited = f.visited \ {n} /\ g.fired = f.fired
      /\ g.queue = <<n>> \o f.queue
  BY <1>2 DEF Frontiers
<1>6. Queued(g) = {n} \cup Queued(f)
  BY <1>3, <1>4, <1>5 DEF Queued
<1> HIDE DEF g
<1>7. Covered(g) /\ Founded(g)
  BY <1>5, <1>6 DEF FrontierOK, Covered, Founded
<1>8. Decided(f, n)
  BY DEF FrontierOK
<1>9. Decided(g, NoNode)
  <2>1. \A e \in g.fired : e.from \in g.visited \ {NoNode}
    BY <1>5, <1>8, GraphAssumption DEF Decided, Frontiers
  <2> QED
    BY <1>5, <1>8, <2>1 DEF Decided
<1>10. FrontierOK(g, NoNode)
  BY <1>5, <1>7, <1>9 DEF FrontierOK
<1> QED
  BY <1>5, <1>10 DEF g

\* A node that ran has the edges of its outcome followed.
LEMMA RouteFrontier ==
    ASSUME NEW f \in Frontiers, NEW n \in Nodes, n \in f.visited, FrontierOK(f, n),
           NEW outcome \in Outcomes,
           NEW order \in Orders({e \in Routed(n, outcome) : e.to \notin f.visited})
    PROVE  LET g == Followed(f, Routed(n, outcome), order)
           IN  /\ g \in Frontiers
               /\ FrontierOK(g, NoNode)
               /\ g.visited = f.visited
               /\ g.fired = f.fired \cup Routed(n, outcome)
<1> DEFINE routed == Routed(n, outcome)
           targets == [i \in DOMAIN order |-> order[i].to]
           g == Followed(f, routed, order)
           open == {e \in routed : e.to \notin f.visited}
<1>1. routed \in SUBSET Edges /\ \A e \in routed : e.from = n
  BY DEF Routed
<1>2. targets \in Seq(Ids) /\ Range(targets) = {e.to : e \in open}
  BY <1>1, TargetsList
<1> HIDE DEF targets, routed
<1>3. f.queue \in Seq(Ids) /\ f.fired \in SUBSET Edges /\ f.visited \in SUBSET Ids
  BY DEF Frontiers
<1>4. f.queue \o targets \in Seq(Ids)
  BY <1>2, <1>3, ConcatProperties
<1>5. Range(f.queue \o targets) = Range(f.queue) \cup Range(targets)
  BY <1>2, <1>3, RangeOfConcat
<1>6. /\ g \in Frontiers
      /\ g.visited = f.visited /\ g.fired = f.fired \cup routed
      /\ g.queue = f.queue \o targets
  <2>1. g = [f EXCEPT !.fired = @ \cup routed, !.queue = @ \o targets]
    BY DEF Followed, targets
  <2> QED
    BY <1>1, <1>4, <2>1 DEF Frontiers
<1>7. Queued(g) = Queued(f) \cup {e.to : e \in open}
  BY <1>2, <1>5, <1>6 DEF Queued
<1> HIDE DEF g
<1>8. Covered(g)
  BY <1>6, <1>7 DEF FrontierOK, Covered
<1>9. Founded(g)
  <2>1. g.fired \in SUBSET Edges
    BY <1>6 DEF Frontiers
  <2>2. Reachable(Triggers, f.fired) \subseteq Reachable(Triggers, g.fired)
    BY <1>6, ReachableGrows
  <2>3. n \in Reachable(Triggers, g.fired)
    BY <2>2 DEF FrontierOK, Founded
  <2>4. \A e \in routed : e.to \in Reachable(Triggers, g.fired)
    BY <1>1, <1>6, <2>1, <2>3, ReachableCloses
  <2> QED
    BY <1>6, <1>7, <2>2, <2>4 DEF FrontierOK, Founded
<1>10. Decided(f, n)
  BY DEF FrontierOK
<1>11. Decided(g, NoNode)
  <2>1. \A e \in g.fired : e.from \in g.visited \ {NoNode}
    BY <1>1, <1>3, <1>6, <1>10, GraphAssumption DEF Decided
  <2>2. ASSUME NEW m \in g.visited \cap Nodes
        PROVE  \E o \in Outcomes : {e \in g.fired : e.from = m} = Routed(m, o)
    <3>1. CASE m = n
      <4>1. {e \in g.fired : e.from = m} = routed
        BY <1>1, <1>6, <1>10, <3>1 DEF Decided
      <4> QED
        BY <3>1, <4>1 DEF routed
    <3>2. CASE m # n
      <4>1. {e \in g.fired : e.from = m} = {e \in f.fired : e.from = m}
        BY <1>1, <1>6, <3>2
      <4> QED
        BY <1>6, <1>10, <3>2, <4>1 DEF Decided
    <3> QED
      BY <3>1, <3>2
  <2> QED
    BY <2>1, <2>2 DEF Decided
<1>12. FrontierOK(g, NoNode)
  BY <1>6, <1>8, <1>9, <1>11 DEF FrontierOK
<1> QED
  BY <1>6, <1>12 DEF g, targets, routed
-----------------------------------------------------------------------------
(***************************************************************************)
(* Every action keeps FrontierInvariant.                                   *)
(***************************************************************************)
\* The initial state: nothing walked, nothing saved.
LEMMA InitFrontier == Init => FrontierInvariant
<1> SUFFICES ASSUME Init PROVE FrontierInvariant
  OBVIOUS
<1> USE DEF Init
<1>1. EmptyFrontier \in Frontiers
  BY EmptySeq DEF EmptyFrontier, Frontiers
<1>2. <<>> \in Seq(Ids \cup {NoNode})
  BY EmptySeq
<1>3. TypeOK
  BY <1>1, <1>2 DEF TypeOK, PCs, Walking, OnItem
<1> QED
  BY <1>3 DEF FrontierInvariant, Walking, OnItem

\* The end of a pass over the run.
LEMMA EndFrontier ==
    ASSUME FrontierInvariant, NEW s \in {"success", "error"}, End(s),
           used' \in [crashes: Nat, faults: Nat, clicks: Nat, yields: Nat]
    PROVE  FrontierInvariant'
<1> USE DEF FrontierInvariant, End
<1>1. <<>> \in Seq(Ids \cup {NoNode})
  BY EmptySeq
<1>2. TypeOK'
  BY <1>1 DEF TypeOK, PCs, Walking, OnItem
<1> QED
  BY <1>2 DEF Walking, OnItem

\* A spent bound is still a record of counters.
LEMMA UsedTypes ==
    ASSUME TypeOK
    PROVE  /\ used \in [crashes: Nat, faults: Nat, clicks: Nat, yields: Nat]
           /\ Fault => used' \in [crashes: Nat, faults: Nat, clicks: Nat, yields: Nat]
           /\ [used EXCEPT !.crashes = @ + 1] \in [crashes: Nat, faults: Nat, clicks: Nat, yields: Nat]
           /\ [used EXCEPT !.clicks = @ + 1] \in [crashes: Nat, faults: Nat, clicks: Nat, yields: Nat]
           /\ [used EXCEPT !.yields = @ + 1] \in [crashes: Nat, faults: Nat, clicks: Nat, yields: Nat]
  BY DEF TypeOK, Fault

\* The passes begin.
LEMMA StartFrontier == FrontierInvariant /\ Start => FrontierInvariant'
<1> SUFFICES ASSUME FrontierInvariant, Start PROVE FrontierInvariant'
  OBVIOUS
<1> USE DEF FrontierInvariant, Start
<1>1. PICK order \in Orders(Triggers) : mem' = [EmptyFrontier EXCEPT !.queue = order]
  OBVIOUS
<1>2. mem' \in Frontiers /\ FrontierOK(mem', NoNode) /\ mem'.visited = {}
  BY <1>1, FreshFrontier
<1>3. item = NoNode /\ item' = NoNode
  BY DEF TypeOK, OnItem
<1>4. TypeOK'
  BY <1>2 DEF TypeOK, PCs, Walking, OnItem
<1>5. FrontierOK(mem, item)' /\ Performed(mem, item)'
  BY <1>2, <1>3 DEF Performed
<1> QED
  BY <1>4, <1>5 DEF Walking, OnItem

\* A later pass begins at the checkpoint.
LEMMA ResumeFrontier == FrontierInvariant /\ Resume => FrontierInvariant'
<1> SUFFICES ASSUME FrontierInvariant, Resume PROVE FrontierInvariant'
  OBVIOUS
<1> USE DEF FrontierInvariant, Resume
<1>1. item = NoNode /\ item' = NoNode
  BY DEF TypeOK, OnItem
<1>2. TypeOK'
  BY DEF TypeOK, PCs, Walking, OnItem
<1>3. saved \in Frontiers /\ NoNode \notin saved.visited
  BY GraphAssumption DEF TypeOK, Frontiers
<1>4. FrontierOK(saved, NoNode)' /\ Performed(saved, NoNode)'
  BY DEF Performed
<1>5. FrontierOK(mem, item)' /\ Performed(mem, item)'
  BY <1>1, <1>4
<1>6. Extends(mem, saved)'
  BY DEF Extends
<1> QED
  BY <1>1, <1>2, <1>3, <1>4, <1>5, <1>6 DEF Walking, OnItem

\* The head of the queue is dropped.
LEMMA SkipKeeps == FrontierInvariant /\ Skip => FrontierInvariant'
<1> SUFFICES ASSUME FrontierInvariant, Skip PROVE FrontierInvariant'
  OBVIOUS
<1> USE DEF FrontierInvariant, Skip, AtHead, Skips, Popped
<1>1. item = NoNode /\ item' = NoNode /\ mem \in Frontiers /\ pc \in Walking
  BY DEF TypeOK, OnItem, Walking
<1>2. /\ mem' \in Frontiers /\ FrontierOK(mem', NoNode)
      /\ mem'.visited = mem.visited /\ mem'.fired = mem.fired
  BY <1>1, SkipFrontier
<1>3. TypeOK'
  BY <1>2 DEF TypeOK
<1>4. FrontierOK(mem, item)' /\ Performed(mem, item)'
  BY <1>1, <1>2 DEF Performed
<1>5. saved # NoState => FrontierOK(saved, NoNode)' /\ Performed(saved, NoNode)'
  BY DEF Performed
<1>6. saved # NoState => Extends(mem, saved)'
  BY <1>1, <1>2 DEF Extends
<1> QED
  BY <1>1, <1>3, <1>4, <1>5, <1>6 DEF OnItem, Walking

\* The head of the queue is no node, and counts as visited.
LEMMA SkipDanglingKeeps == FrontierInvariant /\ SkipDangling => FrontierInvariant'
<1> SUFFICES ASSUME FrontierInvariant, SkipDangling PROVE FrontierInvariant'
  OBVIOUS
<1> USE DEF FrontierInvariant, SkipDangling, AtHead, Skips, Popped, Visiting
<1>1. item = NoNode /\ item' = NoNode /\ mem \in Frontiers /\ pc \in Walking
  BY DEF TypeOK, OnItem, Walking
<1>2. /\ mem' \in Frontiers /\ FrontierOK(mem', NoNode)
      /\ mem'.visited = mem.visited \cup {Head(mem.queue)} /\ mem'.fired = mem.fired
  BY <1>1, VisitFrontier
<1>3. TypeOK'
  BY <1>2 DEF TypeOK
<1>4. FrontierOK(mem, item)' /\ Performed(mem, item)'
  BY <1>1, <1>2 DEF Performed
<1>5. saved # NoState => FrontierOK(saved, NoNode)' /\ Performed(saved, NoNode)'
  BY DEF Performed
<1>6. saved # NoState => Extends(mem, saved)'
  BY <1>1, <1>2 DEF Extends
<1> QED
  BY <1>1, <1>3, <1>4, <1>5, <1>6 DEF OnItem, Walking

\* A node is taken; no checkpoint holds it yet.
LEMMA TakeKeeps == FrontierInvariant /\ Take => FrontierInvariant'
<1> SUFFICES ASSUME FrontierInvariant, Take PROVE FrontierInvariant'
  OBVIOUS
<1> USE DEF FrontierInvariant, Take, AtHead, Skips, Popped, Visiting
<1>1. item = NoNode /\ mem \in Frontiers /\ pc \in Walking
  BY DEF TypeOK, OnItem, Walking
<1>2. /\ mem' \in Frontiers /\ FrontierOK(mem', item')
      /\ mem'.visited = mem.visited \cup {item'} /\ mem'.fired = mem.fired
  BY <1>1, VisitFrontier
<1>3. item' \in Nodes /\ item' # NoNode /\ pc' \in OnItem
  BY GraphAssumption DEF PastBreakpoint, OnItem, Ids
<1>4. TypeOK'
  BY <1>2, <1>3 DEF TypeOK, PCs, Walking
<1>5. Performed(mem, item)'
  <2>1. Performed(mem, NoNode)
    BY <1>1
  <2>2. (mem'.visited \cap Nodes) \ {item'} \subseteq (mem.visited \cap Nodes) \ {NoNode}
    BY <1>2, GraphAssumption DEF Ids
  <2>3. executed' = executed
    OBVIOUS
  <2> QED
    BY <2>1, <2>2, <2>3 DEF Performed
<1>6. saved # NoState => FrontierOK(saved, NoNode)' /\ Performed(saved, NoNode)'
  BY DEF Performed
<1>7. saved # NoState => Extends(mem, saved)' /\ item' \notin saved.visited
  BY <1>1, <1>2 DEF Extends
<1>8. pc' \notin {"queued", "ended"}
  BY <1>3 DEF OnItem
<1> QED
  BY <1>2, <1>3, <1>4, <1>5, <1>6, <1>7, <1>8

\* The rollback view, at a breakpoint and at a yield, is saved behind what the
\* memory holds.
LEMMA RollbackKeeps ==
    ASSUME FrontierInvariant, pc \in OnItem
    PROVE  /\ Rollback \in Frontiers
           /\ FrontierOK(Rollback, NoNode)
           /\ Performed(Rollback, NoNode)
           /\ Extends(mem, Rollback)
           /\ item \notin Rollback.visited
           /\ saved # NoState => Extends(Rollback, saved)
<1> USE DEF FrontierInvariant
<1>1. item \in Nodes /\ mem \in Frontiers /\ pc \in Walking
  BY DEF TypeOK, Walking
<1>2. /\ Rollback \in Frontiers /\ FrontierOK(Rollback, NoNode)
      /\ Rollback.visited = mem.visited \ {item} /\ Rollback.fired = mem.fired
  BY <1>1, RollbackFrontier DEF Rollback
<1>3. Performed(mem, item)
  BY <1>1
<1>4. saved # NoState => Extends(mem, saved) /\ item \notin saved.visited
  BY <1>1
<1> QED
  BY <1>2, <1>3, <1>4 DEF Performed, Extends

\* The checkpoint of a breakpoint.
LEMMA BreakKeeps == FrontierInvariant /\ Break => FrontierInvariant'
<1> SUFFICES ASSUME FrontierInvariant, Break PROVE FrontierInvariant'
  OBVIOUS
<1> USE DEF Break
<1>1. pc \in OnItem /\ pc \in Walking /\ pc' \in OnItem /\ pc' \in Walking
  BY DEF OnItem, Walking
<1>2. /\ Rollback \in Frontiers /\ FrontierOK(Rollback, NoNode)
      /\ Performed(Rollback, NoNode) /\ Extends(mem, Rollback)
      /\ item \notin Rollback.visited
  BY <1>1, RollbackKeeps
<1> HIDE DEF Rollback
<1>3. TypeOK'
  BY <1>1, <1>2 DEF FrontierInvariant, TypeOK, PCs
<1>4. FrontierOK(saved, NoNode)' /\ Performed(saved, NoNode)'
  BY <1>2 DEF Performed
<1>5. FrontierOK(mem, item)' /\ Performed(mem, item)' /\ item' \in mem'.visited
  BY <1>1 DEF FrontierInvariant, Performed
<1>6. Extends(mem, saved)' /\ item' \notin saved'.visited
  BY <1>2 DEF Extends
<1> QED
  BY <1>3, <1>4, <1>5, <1>6 DEF FrontierInvariant

\* The checkpoint of a yield.
LEMMA YieldKeeps == FrontierInvariant /\ Yield => FrontierInvariant'
<1> SUFFICES ASSUME FrontierInvariant, Yield PROVE FrontierInvariant'
  OBVIOUS
<1> USE DEF Yield
<1>1. pc \in OnItem /\ pc' \notin Walking /\ pc' \in PCs
  BY DEF OnItem, Walking, PCs
<1>2. /\ Rollback \in Frontiers /\ FrontierOK(Rollback, NoNode)
      /\ Performed(Rollback, NoNode)
  BY <1>1, RollbackKeeps
<1> HIDE DEF Rollback
<1>3. EmptyFrontier \in Frontiers /\ <<>> \in Seq(Ids \cup {NoNode})
  BY EmptySeq DEF EmptyFrontier, Frontiers
<1>4. TypeOK'
  BY <1>1, <1>2, <1>3, UsedTypes DEF FrontierInvariant, TypeOK, OnItem
<1>5. FrontierOK(saved, NoNode)' /\ Performed(saved, NoNode)'
  BY <1>2 DEF Performed
<1> QED
  BY <1>1, <1>4, <1>5 DEF FrontierInvariant, Walking

\* The decision, and the claim it allows.
LEMMA DecideKeeps == FrontierInvariant /\ Decide => FrontierInvariant'
<1> SUFFICES ASSUME FrontierInvariant, Decide PROVE FrontierInvariant'
  OBVIOUS
<1> USE DEF FrontierInvariant, Decide
<1>1. TypeOK'
  BY DEF TypeOK, PCs, OnItem
<1>2. saved # NoState => FrontierOK(saved, NoNode)' /\ Performed(saved, NoNode)'
  BY DEF Performed
<1> QED
  BY <1>1, <1>2 DEF Walking, OnItem

\* A click changes the buffer only.
LEMMA ClickKeeps == FrontierInvariant /\ Click => FrontierInvariant'
<1> SUFFICES ASSUME FrontierInvariant, Click PROVE FrontierInvariant'
  OBVIOUS
<1> USE DEF FrontierInvariant, Click
<1>1. clicks \in Seq(Ids \cup {NoNode}) /\ (IF Waiting THEN item ELSE NoNode) \in Ids \cup {NoNode}
  BY DEF TypeOK, Ids
<1>2. Append(clicks, IF Waiting THEN item ELSE NoNode) \in Seq(Ids \cup {NoNode})
  BY <1>1, AppendProperties
<1>3. clicks' \in Seq(Ids \cup {NoNode})
  BY <1>1, <1>2
<1>4. TypeOK'
  BY <1>3, UsedTypes DEF TypeOK
<1>5. saved # NoState => FrontierOK(saved, NoNode)' /\ Performed(saved, NoNode)'
  BY DEF Performed
<1>6. FrontierOK(mem, item)' /\ Performed(mem, item)'
  BY DEF Performed
<1>7. saved # NoState => Extends(mem, saved)'
  BY DEF Extends
<1> QED
  BY <1>4, <1>5, <1>6, <1>7

\* A wait ends.
LEMMA ContinueKeeps == FrontierInvariant /\ Continue => FrontierInvariant'
<1> SUFFICES ASSUME FrontierInvariant, Continue PROVE FrontierInvariant'
  OBVIOUS
<1> USE DEF FrontierInvariant, Continue, Waiting
<1>1. pc \in OnItem /\ pc \in Walking /\ pc' \in OnItem /\ pc' \in Walking
  BY DEF OnItem, Walking, PastBreakpoint
<1>2. <<>> \in Seq(Ids \cup {NoNode})
  BY EmptySeq
<1>3. stray' \in BOOLEAN
  BY DEF TypeOK
<1>4. TypeOK'
  BY <1>1, <1>2, <1>3 DEF TypeOK, PCs
<1>5. saved # NoState => FrontierOK(saved, NoNode)' /\ Performed(saved, NoNode)'
  BY DEF Performed
<1>6. FrontierOK(mem, item)' /\ Performed(mem, item)'
  BY <1>1 DEF Performed
<1>7. saved # NoState => Extends(mem, saved)'
  BY <1>1 DEF Extends
<1>8. pc' \notin {"queued", "ended"}
  BY <1>1 DEF OnItem
<1> QED
  BY <1>1, <1>4, <1>5, <1>6, <1>7, <1>8

\* The node runs and its outcome is routed.
LEMMA RunNodeKeeps ==
    ASSUME FrontierInvariant, NEW outcome \in Outcomes, RunNode(outcome)
    PROVE  FrontierInvariant'
<1> USE DEF FrontierInvariant
<1>1. /\ pc = "run" /\ pc' = "ran" /\ item' = NoNode
      /\ UNCHANGED <<saved, status, clicks, stray, used>>
      /\ executed' = [executed EXCEPT ![item] = @ + 1]
  BY DEF RunNode
<1>2. /\ pc \in OnItem /\ pc \in Walking /\ pc' \in Walking
      /\ pc' \notin OnItem /\ pc' \notin {"queued", "ended"}
  BY <1>1 DEF OnItem, Walking
<1>3. /\ item \in Nodes /\ mem \in Frontiers /\ item \in mem.visited
      /\ FrontierOK(mem, item) /\ Performed(mem, item)
      /\ executed \in [Nodes -> Nat]
  BY <1>2 DEF TypeOK
<1>4. PICK order \in Orders({e \in Routed(item, outcome) : e.to \notin mem.visited}) :
         mem' = Followed(mem, Routed(item, outcome), order)
  BY DEF RunNode
<1>5. /\ mem' \in Frontiers /\ FrontierOK(mem', NoNode)
      /\ mem'.visited = mem.visited
      /\ mem'.fired = mem.fired \cup Routed(item, outcome)
  BY <1>3, <1>4, RouteFrontier
<1>6. executed' \in [Nodes -> Nat] /\ executed'[item] > 0
      /\ \A n \in Nodes : executed[n] > 0 => executed'[n] > 0
  <2>1. executed' = [executed EXCEPT ![item] = executed[item] + 1]
    BY <1>1
  <2>2. executed[item] \in Nat /\ executed[item] + 1 \in Nat /\ executed[item] + 1 > 0
    BY <1>3
  <2>3. executed'[item] = executed[item] + 1
    BY <1>3, <2>1
  <2>4. \A n \in Nodes \ {item} : executed'[n] = executed[n]
    BY <1>3, <2>1
  <2>5. executed' \in [Nodes -> Nat]
    BY <1>3, <2>1, <2>2
  <2> QED
    BY <2>2, <2>3, <2>4, <2>5
<1>7. failed' \in BOOLEAN
  BY DEF RunNode, TypeOK
<1>8. TypeOK'
  BY <1>1, <1>2, <1>5, <1>6, <1>7 DEF TypeOK, PCs
<1>9. Performed(mem, item)'
  BY <1>1, <1>3, <1>5, <1>6 DEF Performed
<1>10. FrontierOK(mem, item)'
  BY <1>1, <1>5
<1>11. saved # NoState => FrontierOK(saved, NoNode)' /\ Performed(saved, NoNode)'
  BY <1>1, <1>6 DEF Performed
<1>12. saved # NoState => Extends(mem, saved)' /\ item' \notin saved'.visited
  <2>1. saved # NoState => saved \in Frontiers
    BY DEF TypeOK
  <2> QED
    BY <1>1, <1>2, <1>5, <2>1, GraphAssumption DEF Extends, Frontiers
<1> QED
  BY <1>1, <1>2, <1>8, <1>9, <1>10, <1>11, <1>12

\* The memory is saved, or the write fails and the memory runs ahead.
LEMMA CheckpointKeeps ==
    FrontierInvariant /\ (Checkpoint \/ CheckpointFails) => FrontierInvariant'
<1> SUFFICES ASSUME FrontierInvariant, Checkpoint \/ CheckpointFails
             PROVE  FrontierInvariant'
  OBVIOUS
<1>1. /\ pc = "ran" /\ pc' = "loop"
      /\ UNCHANGED <<item, mem, failed, status, clicks, executed, stray>>
      /\ saved' = mem \/ saved' = saved
      /\ used' \in [crashes: Nat, faults: Nat, clicks: Nat, yields: Nat]
  BY UsedTypes DEF Checkpoint, CheckpointFails, FrontierInvariant
<1>2. item = NoNode /\ mem \in Frontiers /\ NoNode \notin mem.visited
  BY <1>1, GraphAssumption DEF FrontierInvariant, TypeOK, OnItem, Frontiers
<1>3. TypeOK'
  BY <1>1, <1>2 DEF FrontierInvariant, TypeOK, PCs, Walking, OnItem
<1>4. FrontierOK(mem, item) /\ Performed(mem, item)
  BY <1>1 DEF FrontierInvariant, Walking
<1>5. FrontierOK(mem, item)' /\ Performed(mem, item)'
  BY <1>1, <1>4 DEF Performed
<1>6. saved' # NoState => FrontierOK(saved, NoNode)' /\ Performed(saved, NoNode)'
  BY <1>1, <1>2, <1>4 DEF FrontierInvariant, Performed
<1>7. saved' # NoState => Extends(mem, saved)' /\ item' \notin saved'.visited
  BY <1>1, <1>2 DEF FrontierInvariant, Extends, Walking
<1> QED
  BY <1>1, <1>3, <1>5, <1>6, <1>7 DEF FrontierInvariant, OnItem

\* The pass is lost; the checkpoint stays.
LEMMA CrashKeeps == FrontierInvariant /\ Crash => FrontierInvariant'
<1> SUFFICES ASSUME FrontierInvariant, Crash PROVE FrontierInvariant'
  OBVIOUS
<1> USE DEF Crash
<1>1. EmptyFrontier \in Frontiers /\ <<>> \in Seq(Ids \cup {NoNode})
  BY EmptySeq DEF EmptyFrontier, Frontiers
<1>2. TypeOK'
  BY <1>1, UsedTypes DEF FrontierInvariant, TypeOK, PCs, OnItem
<1>3. saved # NoState => FrontierOK(saved, NoNode)' /\ Performed(saved, NoNode)'
  BY DEF FrontierInvariant, Performed
<1> QED
  BY <1>2, <1>3 DEF FrontierInvariant, Walking, OnItem

\* A stuttering step.
LEMMA StutterKeeps == FrontierInvariant /\ UNCHANGED vars => FrontierInvariant'
<1> SUFFICES ASSUME FrontierInvariant, UNCHANGED vars PROVE FrontierInvariant'
  OBVIOUS
<1> USE DEF vars
<1>1. TypeOK'
  BY DEF FrontierInvariant, TypeOK
<1>2. saved # NoState => FrontierOK(saved, NoNode)' /\ Performed(saved, NoNode)'
  BY DEF FrontierInvariant, Performed
<1>3. pc \in Walking => FrontierOK(mem, item)' /\ Performed(mem, item)'
  BY DEF FrontierInvariant, Performed
<1> QED
  BY <1>1, <1>2, <1>3 DEF FrontierInvariant, Extends

\* FrontierInvariant is inductive.
LEMMA StepKeeps == FrontierInvariant /\ [Next]_vars => FrontierInvariant'
<1> SUFFICES ASSUME FrontierInvariant, [Next]_vars PROVE FrontierInvariant'
  OBVIOUS
<1>1. TypeOK
  BY DEF FrontierInvariant
<1>2. CASE Start
  BY <1>2, StartFrontier
<1>3. CASE Resume
  BY <1>3, ResumeFrontier
<1>4. CASE Abandon \/ Finish \/ RollbackFails \/ Reject
  <2>1. PICK s \in {"success", "error"} : End(s)
    BY <1>4 DEF Abandon, Finish, RollbackFails, Reject
  <2>2. used' \in [crashes: Nat, faults: Nat, clicks: Nat, yields: Nat]
    BY <1>1, <1>4, UsedTypes DEF Abandon, Finish, RollbackFails, Reject
  <2> QED
    BY <2>1, <2>2, EndFrontier
<1>5. CASE Skip
  BY <1>5, SkipKeeps
<1>6. CASE SkipDangling
  BY <1>6, SkipDanglingKeeps
<1>7. CASE Take
  BY <1>7, TakeKeeps
<1>8. CASE Break
  BY <1>8, BreakKeeps
<1>9. CASE \E outcome \in Outcomes : RunNode(outcome)
  BY <1>9, RunNodeKeeps
<1>10. CASE Checkpoint \/ CheckpointFails
  BY <1>10, CheckpointKeeps
<1>11. CASE Yield
  BY <1>11, YieldKeeps
<1>12. CASE Decide
  BY <1>12, DecideKeeps
<1>13. CASE Click
  BY <1>13, ClickKeeps
<1>14. CASE Continue
  BY <1>14, ContinueKeeps
<1>15. CASE Crash
  BY <1>15, CrashKeeps
<1>16. CASE UNCHANGED vars
  BY <1>16, StutterKeeps
<1> QED
  BY <1>2, <1>3, <1>4, <1>5, <1>6, <1>7, <1>8, <1>9, <1>10, <1>11, <1>12,
     <1>13, <1>14, <1>15, <1>16 DEF Next, Step

\* What the walk holds and what a checkpoint holds is always the frontier of a
\* walk of this graph.
THEOREM FrontierHolds == Spec => []FrontierInvariant
<1> QED
  BY InitFrontier, StepKeeps, PTL DEF Spec
-----------------------------------------------------------------------------
(***************************************************************************)
(* What follows.                                                           *)
(***************************************************************************)
\* A walk with an empty queue visited what its outcomes reach.
LEMMA EmptyQueueComplete ==
    ASSUME NEW f \in Frontiers, FrontierOK(f, NoNode), f.queue = <<>>
    PROVE  f.visited = Reachable(Triggers, f.fired) \ Bodies
<1>1. Queued(f) = {}
  BY DEF Queued, Range
<1>2. f.visited \subseteq Reachable(Triggers, f.fired)
  BY DEF FrontierOK, Founded
<1>3. f.visited \cap Bodies = {}
  BY DEF FrontierOK
<1> DEFINE X == f.visited \cup Bodies
<1>4. X \in SUBSET Ids
  BY DEF Frontiers, Bodies, Reachable
<1>5. ClosedUnder(X, Triggers, f.fired)
  BY <1>1 DEF FrontierOK, Covered, ClosedUnder
<1>6. Reachable(Triggers, f.fired) \subseteq X
  BY <1>4, <1>5, ReachableLeast
<1> QED
  BY <1>2, <1>3, <1>6

\* A run that succeeded visited exactly what the outcomes of its nodes reach.
THEOREM SuccessIsComplete == Spec => []WalkComplete
<1> DEFINE Ended == status = "success" => pc = "ended"
<1>1. Init => WalkComplete /\ Ended
  BY DEF Init, WalkComplete
<1>2. FrontierInvariant /\ WalkComplete /\ Ended /\ [Next]_vars => (WalkComplete /\ Ended)'
  <2> SUFFICES ASSUME FrontierInvariant, WalkComplete, Ended, [Next]_vars
               PROVE  (WalkComplete /\ Ended)'
    OBVIOUS
  <2>1. CASE Finish
    <3>1. item = NoNode /\ mem \in Frontiers /\ FrontierOK(mem, item)
      BY <2>1 DEF Finish, FrontierInvariant, TypeOK, Walking, OnItem
    <3>2. mem.visited = Reachable(Triggers, mem.fired) \ Bodies
      BY <2>1, <3>1, EmptyQueueComplete DEF Finish
    <3> QED
      BY <2>1, <3>2 DEF Finish, End, WalkComplete
  <2>2. CASE Abandon \/ RollbackFails \/ Reject
    BY <2>2 DEF Abandon, RollbackFails, Reject, End, WalkComplete
  <2>3. CASE UNCHANGED vars
    BY <2>3 DEF vars, WalkComplete
  <2>4. CASE \/ Start \/ Resume \/ Skip \/ SkipDangling \/ Take \/ Break
             \/ (\E outcome \in Outcomes : RunNode(outcome))
             \/ Checkpoint \/ CheckpointFails \/ Yield \/ Decide \/ Click \/ Continue \/ Crash
    <3>1. pc # "ended" /\ status' = status
      BY <2>4 DEF Start, Resume, Skip, SkipDangling, Take, Break, RunNode, AtHead,
         Checkpoint, CheckpointFails, Yield, Decide, Click, Continue, Crash,
         Waiting, Walking, OnItem
    <3> QED
      BY <3>1 DEF WalkComplete
  <2> QED
    BY <2>1, <2>2, <2>3, <2>4 DEF Next, Step
<1> QED
  BY <1>1, <1>2, FrontierHolds, PTL DEF Spec

\* No later checkpoint takes back what an earlier one recorded.
THEOREM CheckpointsOnlyGrow == Spec => CheckpointsGrow
<1>1. FrontierInvariant /\ [Next]_vars =>
        [saved # NoState /\ saved' # NoState => Extends(saved', saved)]_vars
  <2> SUFFICES ASSUME FrontierInvariant, [Next]_vars, saved # NoState, saved' # NoState
               PROVE  Extends(saved', saved)
    OBVIOUS
  <2>1. CASE saved' = saved
    BY <2>1 DEF Extends
  <2>2. CASE Checkpoint
    BY <2>2 DEF Checkpoint, FrontierInvariant, Walking
  <2>3. CASE Break \/ Yield
    <3>1. pc \in OnItem /\ saved' = Rollback
      BY <2>3 DEF Break, Yield, OnItem
    <3> QED
      BY <3>1, RollbackKeeps
  <2>4. CASE Abandon \/ Finish \/ RollbackFails \/ Reject
    BY <2>4 DEF Abandon, Finish, RollbackFails, Reject, End
  <2>5. CASE \/ Start \/ Resume \/ Skip \/ SkipDangling \/ Take
             \/ (\E outcome \in Outcomes : RunNode(outcome))
             \/ CheckpointFails \/ Decide \/ Click \/ Continue \/ Crash \/ UNCHANGED vars
    <3>1. saved' = saved
      BY <2>5 DEF Start, Resume, Skip, SkipDangling, Take, RunNode,
         CheckpointFails, Decide, Click, Continue, Crash, vars
    <3> QED
      BY <2>1, <3>1
  <2> QED
    BY <2>2, <2>3, <2>4, <2>5 DEF Next, Step
<1> QED
  BY <1>1, FrontierHolds, PTL DEF Spec, CheckpointsGrow
-----------------------------------------------------------------------------
(***************************************************************************)
(* A node runs once in a pass: what is visited in this pass has run at     *)
(* most once more than passes were lost, what is not has not.              *)
(***************************************************************************)
RunsBound(n, ran) == executed[n] <= used.crashes + (IF ran THEN 1 ELSE 0)

PassInvariant ==
    \A n \in Nodes :
        /\ RunsBound(n, TRUE)
        /\ pc = "queued" => RunsBound(n, FALSE)
        /\ pc \in Walking => RunsBound(n, n \in mem.visited \ {item})
        /\ pc \in {"lost", "yielded"} =>
              RunsBound(n, saved # NoState /\ n \in saved.visited)

\* PassInvariant is inductive.
LEMMA PassKeeps ==
    FrontierInvariant /\ PassInvariant /\ [Next]_vars => PassInvariant'
<1> SUFFICES ASSUME FrontierInvariant, PassInvariant, [Next]_vars, NEW n \in Nodes
             PROVE  /\ RunsBound(n, TRUE)'
                    /\ pc' = "queued" => RunsBound(n, FALSE)'
                    /\ pc' \in Walking => RunsBound(n, n \in mem.visited \ {item})'
                    /\ pc' \in {"lost", "yielded"} =>
                          RunsBound(n, saved # NoState /\ n \in saved.visited)'
  BY DEF PassInvariant
<1>1. executed[n] \in Nat /\ used.crashes \in Nat
  BY DEF FrontierInvariant, TypeOK
<1>2. /\ RunsBound(n, TRUE)
      /\ pc = "queued" => RunsBound(n, FALSE)
      /\ pc \in Walking => RunsBound(n, n \in mem.visited \ {item})
      /\ pc \in {"lost", "yielded"} =>
            RunsBound(n, saved # NoState /\ n \in saved.visited)
  BY DEF PassInvariant
<1>3. n # NoNode
  BY GraphAssumption DEF Ids
<1> USE DEF RunsBound
<1>4. CASE Start
  <2>1. /\ pc = "queued" /\ pc' = "loop" /\ executed' = executed /\ used' = used
    BY <1>4 DEF Start
  <2> QED
    BY <1>1, <1>2, <2>1
<1>5. CASE Resume
  <2>1. /\ pc = "lost" /\ pc' = "loop" /\ executed' = executed /\ used' = used
        /\ saved # NoState /\ mem' = saved
    BY <1>5 DEF Resume
  <2>2. item' = NoNode
    BY <1>5 DEF Resume, FrontierInvariant, TypeOK, OnItem
  <2> QED
    BY <1>1, <1>2, <1>3, <2>1, <2>2
<1>6. CASE Abandon \/ Finish \/ RollbackFails \/ Reject
  <2>1. pc' = "ended" /\ executed' = executed /\ used'.crashes = used.crashes
    BY <1>6 DEF Abandon, Finish, RollbackFails, Reject, End, Fault,
       FrontierInvariant, TypeOK
  <2> QED
    BY <1>2, <2>1 DEF Walking, OnItem
<1>7. CASE Skip
  <2>1. /\ pc = "loop" /\ pc' = "loop" /\ executed' = executed /\ used' = used
        /\ item' = item /\ mem'.visited = mem.visited
    BY <1>7 DEF Skip, AtHead, Popped, FrontierInvariant, TypeOK, Frontiers
  <2> QED
    BY <1>2, <2>1 DEF Walking
<1>8. CASE SkipDangling
  <2>1. /\ pc = "loop" /\ pc' = "loop" /\ executed' = executed /\ used' = used
        /\ item' = item /\ mem'.visited = mem.visited \cup {Head(mem.queue)}
        /\ Head(mem.queue) \notin Nodes
    BY <1>8 DEF SkipDangling, AtHead, Popped, Visiting, FrontierInvariant, TypeOK, Frontiers
  <2> QED
    BY <1>2, <2>1 DEF Walking
<1>9. CASE Take
  <2>1. /\ pc = "loop" /\ pc' \in OnItem /\ executed' = executed /\ used' = used
        /\ mem'.visited = mem.visited \cup {item'}
    BY <1>9 DEF Take, AtHead, Popped, Visiting, PastBreakpoint, OnItem,
       FrontierInvariant, TypeOK, Frontiers
  <2>2. item' \notin mem.visited /\ item = NoNode
    BY <1>9, <2>1 DEF Take, Skips, FrontierInvariant, TypeOK, OnItem
  <2>3. n \in mem'.visited \ {item'} <=> n \in mem.visited \ {item}
    BY <1>3, <2>1, <2>2
  <2> QED
    BY <1>2, <2>1, <2>3 DEF Walking, OnItem
<1>10. CASE Break \/ Continue \/ Click
  <2>1. /\ pc \in Walking /\ pc' \in Walking /\ executed' = executed
        /\ used'.crashes = used.crashes /\ item' = item /\ mem' = mem
    BY <1>10 DEF Break, Continue, Click, Waiting, PastBreakpoint, Walking, OnItem,
       FrontierInvariant, TypeOK
  <2> QED
    BY <1>2, <2>1 DEF Walking, OnItem
<1>11. ASSUME NEW outcome \in Outcomes, RunNode(outcome)
       PROVE  /\ RunsBound(n, TRUE)'
              /\ pc' = "queued" => RunsBound(n, FALSE)'
              /\ pc' \in Walking => RunsBound(n, n \in mem.visited \ {item})'
              /\ pc' \in {"lost", "yielded"} =>
                    RunsBound(n, saved # NoState /\ n \in saved.visited)'
  <2>1. /\ pc = "run" /\ pc' = "ran" /\ used' = used /\ item' = NoNode
        /\ executed' = [executed EXCEPT ![item] = executed[item] + 1]
    BY <1>11 DEF RunNode
  <2>2. item \in mem.visited /\ executed \in [Nodes -> Nat]
    BY <2>1 DEF FrontierInvariant, TypeOK, OnItem
  <2>3. mem'.visited = mem.visited
    BY <1>11 DEF RunNode, Followed, FrontierInvariant, TypeOK, Frontiers
  <2>4. RunsBound(n, n \in mem.visited \ {item})
    BY <1>2, <2>1 DEF Walking, OnItem
  <2>5. CASE n = item
    <3>1. executed'[n] = executed[n] + 1
      BY <2>1, <2>2, <2>5
    <3>2. n \notin mem.visited \ {item}
      BY <2>5
    <3>3. executed[n] <= used.crashes + 0
      BY <2>4, <3>2
    <3>4. executed'[n] <= used.crashes + 1
      BY <1>1, <3>1, <3>3
    <3> QED
      BY <1>3, <2>1, <2>2, <2>3, <2>5, <3>4 DEF Walking, OnItem
  <2>6. CASE n # item
    <3>1. executed'[n] = executed[n]
      BY <2>1, <2>2, <2>6
    <3> QED
      BY <1>2, <1>3, <2>1, <2>3, <2>4, <2>6, <3>1
  <2> QED
    BY <2>5, <2>6
<1>12. CASE Checkpoint \/ CheckpointFails
  <2>1. /\ pc = "ran" /\ pc' = "loop" /\ executed' = executed
        /\ used'.crashes = used.crashes /\ item' = item /\ mem' = mem
    BY <1>12 DEF Checkpoint, CheckpointFails, Fault, FrontierInvariant, TypeOK
  <2> QED
    BY <1>2, <2>1 DEF Walking
<1>13. CASE Yield
  <2>1. /\ pc = "run" /\ pc' = "yielded" /\ executed' = executed
        /\ used'.crashes = used.crashes /\ saved' = Rollback
    BY <1>13 DEF Yield, FrontierInvariant, TypeOK
  <2>2. Rollback.visited = mem.visited \ {item}
    BY DEF Rollback, FrontierInvariant, TypeOK, Frontiers
  <2>3. Rollback # NoState
    BY <2>1, RollbackKeeps, NoFrontierAssumption DEF OnItem
  <2>4. RunsBound(n, n \in mem.visited \ {item})
    BY <1>2, <2>1 DEF Walking, OnItem
  <2> QED
    BY <1>2, <2>1, <2>2, <2>3, <2>4 DEF Walking, OnItem
<1>14. CASE Decide
  <2>1. /\ pc = "yielded" /\ pc' = "lost" /\ executed' = executed /\ used' = used
        /\ saved' = saved
    BY <1>14 DEF Decide
  <2> QED
    BY <1>2, <2>1 DEF Walking, OnItem
<1>15. CASE Crash
  <2>1. /\ pc' = "lost" /\ executed' = executed /\ used'.crashes = used.crashes + 1
    BY <1>15 DEF Crash, FrontierInvariant, TypeOK
  <2> QED
    BY <1>1, <1>2, <2>1 DEF Walking, OnItem
<1>16. CASE UNCHANGED vars
  BY <1>2, <1>16 DEF vars
<1> QED
  BY <1>4, <1>5, <1>6, <1>7, <1>8, <1>9, <1>10, <1>11, <1>12, <1>13, <1>14,
     <1>15, <1>16 DEF Next, Step

\* However many edges and cycles lead to a node, it runs again only in a pass
\* that follows a crash.
THEOREM NodesRunOncePerPass == Spec => []ExecutedOncePerPass
<1>1. Init => PassInvariant
  BY DEF Init, PassInvariant, RunsBound
<1>2. FrontierInvariant /\ PassInvariant => ExecutedOncePerPass
  BY DEF FrontierInvariant, TypeOK, PassInvariant, RunsBound, ExecutedOncePerPass
<1> QED
  BY <1>1, <1>2, PassKeeps, FrontierHolds, PTL DEF Spec

=============================================================================
