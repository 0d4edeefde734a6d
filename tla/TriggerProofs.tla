--------------------------- MODULE TriggerProofs ---------------------------
(***************************************************************************)
(* How often the triggers dispatch a run: the cron worker (CronTrigger)    *)
(* and the workers that turn messages into runs (StreamTrigger), for every *)
(* number of processes, of open ticks, of consumers and of messages.       *)
(***************************************************************************)
EXTENDS CronTrigger, StreamTrigger, FiniteSetTheorems, TLAPS

(***************************************************************************)
(* The cron worker.  A tick that counted and found nothing in flight is in *)
(* a slot of its own, and the run it creates takes the place of the slot   *)
(* it frees: when such a tick passes its count, no run dispatched by       *)
(* another one is in flight, so only the slots are left to add up.         *)
(***************************************************************************)
Looked(w) == {s \in TickSlots : ticks[s].pc # "idle" /\ ticks[s].looked /\ ticks[s].wf = w}

CronTypes ==
    /\ inFlight \in [CronWorkflows -> [looked : Nat, blind : Nat]]
    /\ DOMAIN ticks = TickSlots
    /\ \A s \in TickSlots :
          ticks[s].pc # "idle" => DOMAIN ticks[s] = {"pc", "wf", "proc", "looked"}

CronInvariant == CronTypes /\ StackingBounded

\* Some ticks of a workflow: they are finitely many, and no more than the slots.
LEMMA LookedCounts ==
    ASSUME NEW S, S \subseteq TickSlots
    PROVE  /\ IsFiniteSet(S) /\ Cardinality(S) \in Nat
           /\ Cardinality(TickSlots) \in Nat /\ Cardinality(S) <= Cardinality(TickSlots)
BY TickSlotsAssumption, FS_Subset, FS_CardinalityType

LEMMA InitiallyUnstacked == CronInit => CronInvariant
<1> SUFFICES ASSUME CronInit PROVE CronInvariant
  OBVIOUS
<1>1. CronTypes
  BY DEF CronInit, CronTypes, NoTick
<1>2. ASSUME NEW w \in CronWorkflows
      PROVE  inFlight[w].looked + Cardinality(Looked(w)) <= Cardinality(TickSlots)
  <2>1. Looked(w) = {}
    BY DEF CronInit, Looked, NoTick
  <2> QED
    BY <2>1, FS_EmptySet, LookedCounts DEF CronInit
<1> QED
  BY <1>1, <1>2 DEF CronInvariant, StackingBounded, Looked

\* A step that adds no tick that looked, and no run such a tick dispatched.
LEMMA NoneAdded ==
    ASSUME CronInvariant, CronTypes', NEW w \in CronWorkflows,
           inFlight'[w].looked <= inFlight[w].looked, Looked(w)' \subseteq Looked(w)
    PROVE  (inFlight[w].looked + Cardinality(Looked(w)) <= Cardinality(TickSlots))'
<1>1. Looked(w) \subseteq TickSlots
  BY DEF Looked
<1>2. /\ Cardinality(Looked(w)) \in Nat /\ Cardinality(Looked(w)') \in Nat
      /\ Cardinality(Looked(w)') <= Cardinality(Looked(w)) /\ Cardinality(TickSlots) \in Nat
  BY <1>1, LookedCounts, FS_Subset, FS_CardinalityType
<1>3. inFlight[w].looked \in Nat /\ inFlight'[w].looked \in Nat
  BY DEF CronInvariant, CronTypes
<1>4. inFlight[w].looked + Cardinality(Looked(w)) <= Cardinality(TickSlots)
  BY DEF CronInvariant, StackingBounded, Looked
<1> QED
  BY <1>2, <1>3, <1>4

LEMMA QuietTicks ==
    ASSUME CronInvariant, CronTypes',
           \A w \in CronWorkflows :
              inFlight'[w].looked <= inFlight[w].looked /\ Looked(w)' \subseteq Looked(w)
    PROVE  CronInvariant'
<1>1. \A w \in CronWorkflows :
         (inFlight[w].looked + Cardinality(Looked(w)) <= Cardinality(TickSlots))'
  BY NoneAdded
<1> QED
  BY <1>1 DEF CronInvariant, StackingBounded, Looked

\* The end of a run takes one of its kind away, an edit none.
LEMMA RunsEnd ==
    ASSUME CronInvariant, NEW v \in CronWorkflows, RunEnded(v)
    PROVE  /\ inFlight' \in [CronWorkflows -> [looked : Nat, blind : Nat]]
           /\ \A w \in CronWorkflows : inFlight'[w].looked <= inFlight[w].looked
<1>1. PICK sort \in {"looked", "blind"} :
        inFlight[v][sort] > 0 /\ inFlight' = [inFlight EXCEPT ![v][sort] = @ - 1]
  BY DEF RunEnded
<1>2. CASE sort = "looked"
  <2>1. inFlight' = [inFlight EXCEPT ![v].looked = @ - 1] /\ inFlight[v].looked > 0
    BY <1>1, <1>2
  <2> QED
    BY <2>1 DEF CronInvariant, CronTypes
<1>3. CASE sort = "blind"
  <2>1. inFlight' = [inFlight EXCEPT ![v].blind = @ - 1] /\ inFlight[v].blind > 0
    BY <1>1, <1>3
  <2> QED
    BY <2>1 DEF CronInvariant, CronTypes
<1> QED
  BY <1>1, <1>2, <1>3

LEMMA QuietSteps ==
    ASSUME CronInvariant,
           \/ \E p \in CronWorkers : SyncSchedules(p) \/ Restart(p)
           \/ \E p \in CronWorkers, s \in TickSlots : Fire(p, s)
           \/ \E s \in TickSlots : CountFails(s) \/ Fetch(s) \/ TickFails(s)
           \/ \E w \in CronWorkflows : RunEnded(w) \/ Edit(w)
    PROVE  CronInvariant'
<1>1. CronTypes'
  <2>1. CASE \E p \in CronWorkers : SyncSchedules(p) \/ Restart(p)
    BY <2>1 DEF SyncSchedules, Restart, CronInvariant, CronTypes, NoTick
  <2>2. CASE \E p \in CronWorkers, s \in TickSlots : Fire(p, s)
    BY <2>2 DEF Fire, CronInvariant, CronTypes
  <2>3. CASE \E s \in TickSlots : CountFails(s) \/ Fetch(s) \/ TickFails(s)
    BY <2>3 DEF CountFails, Fetch, TickFails, TicksNow, CronInvariant, CronTypes, NoTick
  <2>4. CASE \E w \in CronWorkflows : RunEnded(w) \/ Edit(w)
    BY <2>4, RunsEnd DEF RunEnded, Edit, CronInvariant, CronTypes
  <2> QED
    BY <2>1, <2>2, <2>3, <2>4
<1>2. ASSUME NEW w \in CronWorkflows
      PROVE  inFlight'[w].looked <= inFlight[w].looked /\ Looked(w)' \subseteq Looked(w)
  <2>1. CASE \E p \in CronWorkers : SyncSchedules(p) \/ Restart(p)
    BY <2>1 DEF SyncSchedules, Restart, CronInvariant, CronTypes, NoTick, Looked
  <2>2. CASE \E p \in CronWorkers, s \in TickSlots : Fire(p, s)
    BY <2>2 DEF Fire, CronInvariant, CronTypes, Looked
  <2>3. CASE \E s \in TickSlots : CountFails(s) \/ Fetch(s) \/ TickFails(s)
    BY <2>3 DEF CountFails, Fetch, TickFails, TicksNow, CronInvariant, CronTypes, NoTick, Looked
  <2>4. CASE \E v \in CronWorkflows : RunEnded(v) \/ Edit(v)
    <3>1. ticks' = ticks
      BY <2>4 DEF RunEnded, Edit
    <3>2. inFlight'[w].looked <= inFlight[w].looked
      <4>1. inFlight[w].looked \in Nat
        BY DEF CronInvariant, CronTypes
      <4>2. inFlight' = inFlight \/ \E v \in CronWorkflows : RunEnded(v)
        BY <2>4 DEF Edit
      <4> QED
        BY <4>1, <4>2, RunsEnd
    <3> QED
      BY <3>1, <3>2 DEF Looked
  <2> QED
    BY <2>1, <2>2, <2>3, <2>4
<1> QED
  BY <1>1, <1>2, QuietTicks

LEMMA CountsWell ==
    ASSUME CronInvariant, NEW s \in TickSlots, Count(s)
    PROVE  CronInvariant'
<1>1. CronTypes' /\ inFlight' = inFlight
  <2>1. /\ ticks[s].pc # "idle" /\ inFlight' = inFlight
        /\ ticks' \in {[ticks EXCEPT ![s] = NoTick],
                      [ticks EXCEPT ![s] = [@ EXCEPT !.pc = "fetch", !.looked = TRUE]]}
    BY DEF Count, TicksNow
  <2> QED
    <3>1. DOMAIN ticks' = TickSlots /\ \A t \in TickSlots : t # s => ticks'[t] = ticks[t]
      BY <2>1 DEF CronInvariant, CronTypes
    <3>2. ticks'[s].pc # "idle" => DOMAIN ticks'[s] = {"pc", "wf", "proc", "looked"}
      <4>1. CASE ticks' = [ticks EXCEPT ![s] = NoTick]
        BY <4>1 DEF CronInvariant, CronTypes, NoTick
      <4>2. CASE ticks' = [ticks EXCEPT ![s] = [@ EXCEPT !.pc = "fetch", !.looked = TRUE]]
        BY <2>1, <4>2 DEF CronInvariant, CronTypes
      <4> QED
        BY <2>1, <4>1, <4>2
    <3> QED
      BY <2>1, <3>1, <3>2 DEF CronInvariant, CronTypes
<1>2. CASE RunsInFlight(ticks[s].wf) > 0
  <2>1. \A w \in CronWorkflows : Looked(w)' \subseteq Looked(w)
    BY <1>2 DEF Count, TicksNow, CronInvariant, CronTypes, NoTick, Looked
  <2> QED
    BY <1>1, <2>1, QuietTicks DEF CronInvariant, CronTypes
<1>3. CASE ~(RunsInFlight(ticks[s].wf) > 0)
  <2>1. ASSUME NEW w \in CronWorkflows
        PROVE  (inFlight[w].looked + Cardinality(Looked(w)) <= Cardinality(TickSlots))'
    <3>1. CASE w = ticks[s].wf
      <4>1. inFlight'[w].looked = 0
        BY <1>1, <1>3, <3>1 DEF RunsInFlight, CronInvariant, CronTypes
      <4>2. Looked(w)' \subseteq TickSlots
        BY DEF Looked
      <4> QED
        BY <4>1, <4>2, LookedCounts
    <3>2. CASE w # ticks[s].wf
      <4>1. Looked(w)' \subseteq Looked(w)
        <5>1. /\ ticks' = [ticks EXCEPT ![s] = [@ EXCEPT !.pc = "fetch", !.looked = TRUE]]
              /\ ticks[s].pc # "idle"
          BY <1>3 DEF Count
        <5>2. ticks'[s].wf = ticks[s].wf /\ \A t \in TickSlots : t # s => ticks'[t] = ticks[t]
          BY <5>1 DEF CronInvariant, CronTypes
        <5> QED
          BY <3>2, <5>2 DEF Looked
      <4> QED
        BY <1>1, <4>1, NoneAdded DEF CronInvariant, CronTypes
    <3> QED
      BY <3>1, <3>2
  <2> QED
    BY <1>1, <2>1 DEF CronInvariant, StackingBounded, Looked
<1> QED
  BY <1>2, <1>3

LEMMA CreatesWell ==
    ASSUME CronInvariant, NEW s \in TickSlots, Create(s)
    PROVE  CronInvariant'
<1>0. /\ ticks[s].pc # "idle" /\ ticks' = [ticks EXCEPT ![s] = NoTick]
      /\ \/ ticks[s].looked /\ inFlight' = [inFlight EXCEPT ![ticks[s].wf].looked = @ + 1]
         \/ ~ticks[s].looked /\ inFlight' = [inFlight EXCEPT ![ticks[s].wf].blind = @ + 1]
  BY DEF Create, TicksNow
<1>1. CronTypes'
  BY <1>0 DEF CronInvariant, CronTypes, NoTick
<1>2. \A w \in CronWorkflows : Looked(w)' = Looked(w) \ {s}
  BY <1>0 DEF CronInvariant, CronTypes, NoTick, Looked
<1>3. ASSUME NEW w \in CronWorkflows
      PROVE  (inFlight[w].looked + Cardinality(Looked(w)) <= Cardinality(TickSlots))'
  <2>1. CASE s \in Looked(w)
    <3>1. inFlight'[w].looked = inFlight[w].looked + 1
      BY <1>0, <2>1 DEF Looked, CronInvariant, CronTypes
    <3>2. Looked(w) \subseteq TickSlots
      BY DEF Looked
    <3>3. /\ Cardinality(Looked(w)') = Cardinality(Looked(w)) - 1
          /\ Cardinality(Looked(w)) \in Nat /\ Cardinality(TickSlots) \in Nat
      BY <1>2, <2>1, <3>2, LookedCounts, FS_RemoveElement
    <3>4. inFlight[w].looked + Cardinality(Looked(w)) <= Cardinality(TickSlots)
      BY DEF CronInvariant, StackingBounded, Looked
    <3>5. inFlight[w].looked \in Nat
      BY DEF CronInvariant, CronTypes
    <3> QED
      BY <3>1, <3>3, <3>4, <3>5
  <2>2. CASE s \notin Looked(w)
    <3>1. inFlight'[w].looked <= inFlight[w].looked
      BY <1>0, <2>2 DEF Looked, CronInvariant, CronTypes
    <3> QED
      BY <1>1, <1>2, <3>1, NoneAdded
  <2> QED
    BY <2>1, <2>2
<1> QED
  BY <1>1, <1>3 DEF CronInvariant, StackingBounded, Looked

\* Ticks that looked before they create, with the runs they created, never
\* exceed the ticks open at once: skip_if_running lets runs stack that far and
\* no further (dispatchCronTick), however schedules are edited and processes
\* restarted.
THEOREM TicksStackNoFurther == CronSpec => []StackingBounded
<1>1. CronInit => CronInvariant
  BY InitiallyUnstacked
<1>2. CronInvariant /\ [CronNext]_cronVars => CronInvariant'
  <2>1. CASE UNCHANGED cronVars
    BY <2>1 DEF cronVars, CronInvariant, CronTypes, StackingBounded
  <2> QED
    BY <2>1, QuietSteps, CountsWell, CreatesWell DEF CronNext
<1>3. CronInvariant => StackingBounded
  BY DEF CronInvariant
<1> QED
  BY <1>1, <1>2, <1>3, PTL DEF CronSpec

-----------------------------------------------------------------------------
(***************************************************************************)
(* Messages.  On a queue a message that was published is in the queue, in  *)
(* the hands of a consumer that has created no run for it, or a run: only  *)
(* a fault makes more of it.  A message that is sent to every subscriber   *)
(* is, per worker, with one consumer that may still create a run for it: a *)
(* consumer that was replaced fails to, unless it is already creating it,  *)
(* and the one that replaced it connected after the message was sent.      *)
(***************************************************************************)
Handling == {"fetching", "creating"}

ConsumerRecords ==
    [pc : {"unused", "dialing", "receiving", "backoff", "acking"} \cup Handling,
     worker : Workers \cup {Nothing}, live : BOOLEAN, up : BOOLEAN,
     msg : Messages \cup {Nothing}, inbox : SUBSET Messages]

ConsumerShape(c, v) ==
    /\ v.msg \in published \cup {Nothing} /\ v.inbox \subseteq published
    /\ v.pc \in Handling \cup {"acking"} => v.msg \in published
    /\ v.msg \notin v.inbox
    /\ kind \in Durable => v.inbox = {}
    /\ v.pc # "unused" => v.worker \in Workers
    /\ v.live => v.pc # "unused" /\ subscribed[v.worker].consumer = c

StreamShape ==
    /\ doc \in [exists : BOOLEAN, enabled : BOOLEAN, ver : Nat]
    /\ subscribed \in [Workers -> [consumer : Consumers \cup {Nothing}, ver : Nat]]
    /\ published \subseteq Messages /\ ready \subseteq published
    /\ kind \notin Durable => ready = {}
    /\ runsOf \in [Messages -> Nat]
    /\ \A m \in Messages : runsOf[m] > 0 => m \in published
    /\ streamSpent \in [edits : Nat, faults : Nat]
    /\ consumer \in [Consumers -> ConsumerRecords]
    /\ \A c \in Consumers : ConsumerShape(c, consumer[c])

\* A queue: where a message is.
Queued(m) == IF m \in ready THEN 1 ELSE 0
Holding(m) == {c \in Consumers : consumer[c].msg = m /\ consumer[c].pc \in Handling}

QueueBound ==
    \A m \in Messages :
        runsOf[m] + Queued(m) + Cardinality(Holding(m)) <= 1 + streamSpent.faults

\* A message sent to all: a consumer that may still create a run for it, and the
\* workers that have one.
Pending(v, m) ==
    \/ v.live /\ (m \in v.inbox \/ (v.msg = m /\ v.pc \in Handling))
    \/ v.pc = "creating" /\ v.msg = m

Awaiting(m) ==
    {i \in Workers : \E c \in Consumers : consumer[c].worker = i /\ Pending(consumer[c], m)}

OnePerWorker ==
    \A m \in Messages : \A c, d \in Consumers :
        Pending(consumer[c], m) /\ Pending(consumer[d], m) /\ consumer[c].worker = consumer[d].worker
            => c = d

SpreadBound ==
    \A m \in Messages : runsOf[m] + Cardinality(Awaiting(m)) <= Cardinality(Workers)

StreamInvariant ==
    /\ StreamShape
    /\ kind \in Durable => QueueBound
    /\ kind \notin Durable => OnePerWorker /\ SpreadBound

-----------------------------------------------------------------------------
\* Consumer c becomes v, and only its own bookkeeping changes: it is not revived, takes
\* no worker and no message that it did not have.
Moved(c, v) ==
    /\ consumer' = [consumer EXCEPT ![c] = v] /\ v \in ConsumerRecords
    /\ kind' = kind /\ doc' = doc /\ subscribed' = subscribed /\ published' = published
    /\ streamSpent' \in [edits : Nat, faults : Nat] /\ streamSpent.faults <= streamSpent'.faults
    /\ ready' \subseteq published
    /\ kind \notin Durable => ready' \subseteq ready
    /\ v.worker = consumer[c].worker \/ v.pc = "unused"
    /\ ConsumerShape(c, v)
    /\ \A m \in Messages : kind \notin Durable /\ Pending(v, m) => Pending(consumer[c], m)

LEMMA MovedShape ==
    ASSUME StreamShape, NEW c \in Consumers, NEW v, Moved(c, v),
           runsOf' \in [Messages -> Nat], \A m \in Messages : runsOf'[m] > 0 => m \in published
    PROVE  StreamShape'
<1>1. \A d \in Consumers : consumer'[d] = IF d = c THEN v ELSE consumer[d]
  BY DEF Moved, StreamShape
<1>2. \A d \in Consumers : ConsumerShape(d, consumer'[d])
  BY <1>1 DEF Moved, StreamShape
<1>3. (\A d \in Consumers : ConsumerShape(d, consumer[d]))'
  BY <1>2 DEF Moved, ConsumerShape
<1>4. consumer' \in [Consumers -> ConsumerRecords]
  BY DEF Moved, StreamShape
<1> QED
  BY <1>3, <1>4 DEF Moved, StreamShape, ConsumerRecords

LEMMA MovedPending ==
    ASSUME StreamShape, OnePerWorker, kind \notin Durable,
           NEW c \in Consumers, NEW v, Moved(c, v)
    PROVE  /\ OnePerWorker'
           /\ \A m \in Messages : Awaiting(m)' \subseteq Awaiting(m)
<1>1. \A d \in Consumers : consumer'[d] = IF d = c THEN v ELSE consumer[d]
  BY DEF Moved, StreamShape
<1>2. \A m \in Messages : Pending(v, m) =>
         Pending(consumer[c], m) /\ v.worker = consumer[c].worker
  BY DEF Moved, ConsumerShape, Pending
<1>3. \A m \in Messages, d \in Consumers : Pending(consumer'[d], m) =>
         Pending(consumer[d], m) /\ consumer'[d].worker = consumer[d].worker
  BY <1>1, <1>2
<1>4. \A m \in Messages, d \in Consumers : Pending(consumer[d], m)' <=> Pending(consumer'[d], m)
  BY DEF Pending
<1>5. OnePerWorker'
  BY <1>3, <1>4 DEF OnePerWorker
<1>6. ASSUME NEW m \in Messages PROVE Awaiting(m)' \subseteq Awaiting(m)
  BY <1>3, <1>4 DEF Awaiting
<1> QED
  BY <1>5, <1>6

\* The sets that are counted.
LEMMA StreamCounts ==
    ASSUME NEW m
    PROVE  /\ IsFiniteSet(Holding(m)) /\ IsFiniteSet(Holding(m)')
           /\ IsFiniteSet(Awaiting(m)) /\ IsFiniteSet(Awaiting(m)')
           /\ Cardinality(Holding(m)) \in Nat /\ Cardinality(Holding(m)') \in Nat
           /\ Cardinality(Awaiting(m)) \in Nat /\ Cardinality(Awaiting(m)') \in Nat
           /\ Cardinality(Workers) \in Nat /\ Cardinality(Awaiting(m)') <= Cardinality(Workers)
<1>1. Holding(m) \subseteq Consumers /\ Holding(m)' \subseteq Consumers
  BY DEF Holding
<1>2. Awaiting(m) \subseteq Workers /\ Awaiting(m)' \subseteq Workers
  BY DEF Awaiting
<1> QED
  BY <1>1, <1>2, StreamAssumption, FS_Subset, FS_CardinalityType

\* The bounds, when a step takes a message only from where it was.
LEMMA QueueKept ==
    ASSUME StreamShape, StreamShape', QueueBound, NEW m \in Messages,
           Holding(m)' \subseteq Holding(m),
           runsOf'[m] + Queued(m)' + streamSpent.faults
              <= runsOf[m] + Queued(m) + streamSpent'.faults
    PROVE  (runsOf[m] + Queued(m) + Cardinality(Holding(m)) <= 1 + streamSpent.faults)'
<1>1. Cardinality(Holding(m)') <= Cardinality(Holding(m))
  BY StreamCounts, FS_Subset
<1>2. /\ runsOf[m] \in Nat /\ runsOf'[m] \in Nat
      /\ streamSpent.faults \in Nat /\ streamSpent'.faults \in Nat
  BY DEF StreamShape
<1>3. Queued(m) \in Nat /\ Queued(m)' \in Nat
  BY DEF Queued
<1>4. runsOf[m] + Queued(m) + Cardinality(Holding(m)) <= 1 + streamSpent.faults
  BY DEF QueueBound
<1> QED
  BY <1>1, <1>2, <1>3, <1>4, StreamCounts

\* A consumer lays down message m, and one copy of it appears.
LEMMA QueueTakesBack ==
    ASSUME StreamShape, StreamShape', QueueBound, NEW m \in Messages, NEW c \in Holding(m),
           Holding(m)' = Holding(m) \ {c},
           runsOf'[m] + Queued(m)' + streamSpent.faults
              <= runsOf[m] + Queued(m) + streamSpent'.faults + 1
    PROVE  (runsOf[m] + Queued(m) + Cardinality(Holding(m)) <= 1 + streamSpent.faults)'
<1>1. Cardinality(Holding(m)') = Cardinality(Holding(m)) - 1
  BY StreamCounts, FS_RemoveElement
<1>2. /\ runsOf[m] \in Nat /\ runsOf'[m] \in Nat
      /\ streamSpent.faults \in Nat /\ streamSpent'.faults \in Nat
  BY DEF StreamShape
<1>3. Queued(m) \in Nat /\ Queued(m)' \in Nat
  BY DEF Queued
<1>4. runsOf[m] + Queued(m) + Cardinality(Holding(m)) <= 1 + streamSpent.faults
  BY DEF QueueBound
<1> QED
  BY <1>1, <1>2, <1>3, <1>4, StreamCounts

LEMMA SpreadKept ==
    ASSUME StreamShape, StreamShape', SpreadBound, NEW m \in Messages,
           Awaiting(m)' \subseteq Awaiting(m), runsOf'[m] = runsOf[m]
    PROVE  (runsOf[m] + Cardinality(Awaiting(m)) <= Cardinality(Workers))'
<1>1. Cardinality(Awaiting(m)') <= Cardinality(Awaiting(m))
  BY StreamCounts, FS_Subset
<1>2. runsOf[m] + Cardinality(Awaiting(m)) <= Cardinality(Workers) /\ runsOf[m] \in Nat
  BY DEF SpreadBound, StreamShape
<1> QED
  BY <1>1, <1>2, StreamCounts
-----------------------------------------------------------------------------
\* Steps by kind.  A consumer that creates no run and hands no message over.
LEMMA QuietMove ==
    ASSUME StreamInvariant, NEW c \in Consumers, NEW v, Moved(c, v), runsOf' = runsOf,
           v.msg \in {consumer[c].msg, Nothing}, v.pc \in Handling => consumer[c].pc \in Handling,
           \A m \in Messages : Queued(m)' + streamSpent.faults <= Queued(m) + streamSpent'.faults
    PROVE  StreamInvariant'
<1>1. StreamShape'
  BY MovedShape DEF StreamInvariant, StreamShape
<1>2. CASE kind \in Durable
  <2>1. ASSUME NEW m \in Messages
        PROVE  (runsOf[m] + Queued(m) + Cardinality(Holding(m)) <= 1 + streamSpent.faults)'
    <3>1. Holding(m)' \subseteq Holding(m)
      BY StreamAssumption DEF Holding, Moved, StreamInvariant, StreamShape
    <3>2. /\ runsOf[m] \in Nat /\ streamSpent.faults \in Nat /\ streamSpent'.faults \in Nat
      BY <1>1 DEF StreamInvariant, StreamShape
    <3>3. Queued(m) \in Nat /\ Queued(m)' \in Nat
      BY DEF Queued
    <3>4. runsOf'[m] + Queued(m)' + streamSpent.faults
             <= runsOf[m] + Queued(m) + streamSpent'.faults
      BY <3>2, <3>3
    <3> QED
      BY <1>1, <1>2, <3>1, <3>4, QueueKept DEF StreamInvariant
  <2> QED
    BY <1>1, <1>2, <2>1 DEF StreamInvariant, QueueBound, Moved
<1>3. CASE kind \notin Durable
  <2>1. OnePerWorker' /\ \A m \in Messages : Awaiting(m)' \subseteq Awaiting(m)
    BY <1>3, MovedPending DEF StreamInvariant
  <2>2. SpreadBound'
    BY <1>1, <1>3, <2>1, SpreadKept DEF StreamInvariant, SpreadBound
  <2> QED
    BY <1>1, <1>3, <2>1, <2>2 DEF StreamInvariant, Moved
<1> QED
  BY <1>2, <1>3

\* A consumer is done with its message: it created a run or gave up.
LEMMA DoneMove ==
    ASSUME StreamInvariant, NEW c \in Consumers, NEW v, Moved(c, v),
           NEW msg, msg = consumer[c].msg,
           consumer[c].pc \in Handling, v.pc \notin Handling, msg \notin v.inbox,
           runsOf' \in [Messages -> Nat],
           \A m \in Messages : m # msg => runsOf'[m] = runsOf[m] /\ Queued(m)' = Queued(m),
           runsOf'[msg] \in {runsOf[msg], runsOf[msg] + 1},
           runsOf'[msg] # runsOf[msg] => consumer[c].pc = "creating",
           runsOf'[msg] + Queued(msg)' + streamSpent.faults
              <= runsOf[msg] + Queued(msg) + streamSpent'.faults + 1
    PROVE  StreamInvariant'
<1>1. msg \in published /\ msg \in Messages
  BY DEF StreamInvariant, StreamShape, ConsumerShape
<1>2. StreamShape'
  <2>1. \A m \in Messages : runsOf'[m] > 0 => m \in published
    BY <1>1 DEF StreamInvariant, StreamShape
  <2> QED
    BY <2>1, MovedShape DEF StreamInvariant
<1>3. CASE kind \in Durable
  <2>1. ASSUME NEW m \in Messages, m = msg
        PROVE  (runsOf[m] + Queued(m) + Cardinality(Holding(m)) <= 1 + streamSpent.faults)'
    <3>1. c \in Holding(m) /\ Holding(m)' = Holding(m) \ {c}
      BY <2>1 DEF Holding, Moved, StreamInvariant, StreamShape
    <3>2. runsOf'[m] + Queued(m)' + streamSpent.faults
             <= runsOf[m] + Queued(m) + streamSpent'.faults + 1
      BY <2>1
    <3> QED
      BY <1>2, <1>3, <3>1, <3>2, QueueTakesBack DEF StreamInvariant
  <2>2. ASSUME NEW m \in Messages, m # msg
        PROVE  (runsOf[m] + Queued(m) + Cardinality(Holding(m)) <= 1 + streamSpent.faults)'
    <3>1. Holding(m)' \subseteq Holding(m)
      BY <2>2 DEF Holding, Moved, StreamInvariant, StreamShape
    <3>2. /\ runsOf[m] \in Nat /\ runsOf[msg] \in Nat /\ runsOf'[msg] \in Nat
          /\ streamSpent.faults \in Nat /\ streamSpent'.faults \in Nat
      BY <1>1, <1>2 DEF StreamInvariant, StreamShape
    <3>3. Queued(m) \in Nat /\ Queued(msg) \in Nat /\ Queued(msg)' \in Nat
      BY DEF Queued
    <3>4. streamSpent.faults <= streamSpent'.faults
      BY DEF Moved
    <3>5. runsOf'[m] + Queued(m)' + streamSpent.faults
             <= runsOf[m] + Queued(m) + streamSpent'.faults
      BY <2>2, <3>2, <3>3, <3>4
    <3> QED
      BY <1>2, <1>3, <3>1, <3>5, QueueKept DEF StreamInvariant
  <2> QED
    BY <1>2, <1>3, <2>1, <2>2 DEF StreamInvariant, QueueBound, Moved
<1>4. CASE kind \notin Durable
  <2>1. OnePerWorker' /\ \A m \in Messages : Awaiting(m)' \subseteq Awaiting(m)
    BY <1>4, MovedPending DEF StreamInvariant
  <2>2. ASSUME NEW m \in Messages, runsOf'[m] # runsOf[m]
        PROVE  (runsOf[m] + Cardinality(Awaiting(m)) <= Cardinality(Workers))'
    <3>1. m = msg /\ consumer[c].pc = "creating"
      BY <2>2
    <3>2. consumer[c].worker \in Workers /\ Pending(consumer[c], m)
      BY <3>1 DEF StreamInvariant, StreamShape, ConsumerShape, Pending
    <3>3. consumer[c].worker \in Awaiting(m)
      BY <3>2 DEF Awaiting
    <3>4. consumer[c].worker \notin Awaiting(m)'
      <4>1. \A d \in Consumers : consumer'[d] = IF d = c THEN v ELSE consumer[d]
        BY DEF Moved, StreamInvariant, StreamShape
      <4>2. ~Pending(consumer'[c], m)
        BY <3>1, <4>1 DEF Pending, Handling
      <4>3. ASSUME NEW d \in Consumers, d # c, consumer'[d].worker = consumer[c].worker
            PROVE  ~Pending(consumer'[d], m)
        BY <1>4, <3>2, <4>1, <4>3 DEF StreamInvariant, OnePerWorker
      <4>4. \A d \in Consumers : Pending(consumer[d], m)' <=> Pending(consumer'[d], m)
        BY DEF Pending
      <4> QED
        BY <4>2, <4>3, <4>4 DEF Awaiting
    <3>5. Cardinality(Awaiting(m)') <= Cardinality(Awaiting(m)) - 1
      <4>1. Awaiting(m)' \subseteq Awaiting(m) \ {consumer[c].worker}
        BY <2>1, <3>4
      <4>2. /\ IsFiniteSet(Awaiting(m) \ {consumer[c].worker})
            /\ Cardinality(Awaiting(m) \ {consumer[c].worker}) = Cardinality(Awaiting(m)) - 1
        BY <3>3, StreamCounts, FS_RemoveElement
      <4> QED
        BY <4>1, <4>2, FS_Subset
    <3>6. runsOf'[m] = runsOf[m] + 1 /\ runsOf[m] \in Nat
      BY <2>2, <3>1 DEF StreamInvariant, StreamShape
    <3>7. runsOf[m] + Cardinality(Awaiting(m)) <= Cardinality(Workers)
      BY <1>4 DEF StreamInvariant, SpreadBound
    <3> QED
      BY <3>5, <3>6, <3>7, StreamCounts
  <2>3. SpreadBound'
    BY <1>2, <1>4, <2>1, <2>2, SpreadKept DEF StreamInvariant, SpreadBound
  <2> QED
    BY <1>2, <1>4, <2>1, <2>3 DEF StreamInvariant, Moved
<1> QED
  BY <1>3, <1>4
-----------------------------------------------------------------------------
\* What a consumer becomes.
As(k, pc, up, msg, inbox) ==
    [pc |-> pc, worker |-> k.worker, live |-> k.live, up |-> up, msg |-> msg, inbox |-> inbox]

Becomes(c, v) == [consumer EXCEPT ![c] = v]
Raised(c, pc) == [Goes(c, pc) EXCEPT ![c].up = TRUE]

LEMMA HandledIs ==
    ASSUME StreamShape, NEW c \in Consumers, NEW k, k = consumer[c]
    PROVE  /\ Ended(c) = Becomes(c, As(k, "backoff", FALSE, Nothing, {}))
           /\ \/ Handled(c) = Becomes(c, As(k, "backoff", FALSE, Nothing, {}))
              \/ Handled(c) = Becomes(c, As(k, "receiving", k.up, Nothing, k.inbox))
<1>1. k \in ConsumerRecords /\ consumer \in [Consumers -> ConsumerRecords]
  BY DEF StreamShape
<1>2. Ended(c) = Becomes(c, As(k, "backoff", FALSE, Nothing, {}))
  <2> DEFINE f == Ended(c)
  <2>1. f = [d \in Consumers |-> f[d]] /\ \A d \in Consumers : d # c => f[d] = consumer[d]
    BY <1>1 DEF Ended
  <2>2. f[c] \in [pc : {"backoff"}, worker : {k.worker}, live : {k.live}, up : {FALSE},
              msg : {Nothing}, inbox : {{}}]
    BY <1>1 DEF ConsumerRecords, Ended
  <2>3. f[c] = As(k, "backoff", FALSE, Nothing, {})
    BY <2>2 DEF As
  <2> HIDE DEF f
  <2>4. f = Becomes(c, As(k, "backoff", FALSE, Nothing, {}))
    BY <1>1, <2>1, <2>3 DEF As, Becomes
  <2> QED
    BY <2>4 DEF f
<1>3. [consumer EXCEPT ![c].pc = "receiving", ![c].msg = Nothing]
         = Becomes(c, As(k, "receiving", k.up, Nothing, k.inbox))
  <2> DEFINE f == [consumer EXCEPT ![c].pc = "receiving", ![c].msg = Nothing]
  <2>1. f = [d \in Consumers |-> f[d]] /\ \A d \in Consumers : d # c => f[d] = consumer[d]
    BY <1>1
  <2>2. f[c] \in [pc : {"receiving"}, worker : {k.worker}, live : {k.live}, up : {k.up},
              msg : {Nothing}, inbox : {k.inbox}]
    BY <1>1 DEF ConsumerRecords
  <2>3. f[c] = As(k, "receiving", k.up, Nothing, k.inbox)
    BY <2>2 DEF As
  <2> HIDE DEF f
  <2>4. f = Becomes(c, As(k, "receiving", k.up, Nothing, k.inbox))
    BY <1>1, <2>1, <2>3 DEF As, Becomes
  <2> QED
    BY <2>4 DEF f
<1> QED
  BY <1>2, <1>3 DEF Handled

LEMMA GoesIs ==
    ASSUME StreamShape, NEW c \in Consumers, NEW k, k = consumer[c], NEW pc
    PROVE  /\ Goes(c, pc) = Becomes(c, As(k, pc, k.up, k.msg, k.inbox))
           /\ Raised(c, pc)
                 = Becomes(c, As(k, pc, TRUE, k.msg, k.inbox))
<1>1. k \in ConsumerRecords /\ consumer \in [Consumers -> ConsumerRecords]
  BY DEF StreamShape
<1>2. Goes(c, pc)
         = Becomes(c, As(k, pc, k.up, k.msg, k.inbox))
  <2> DEFINE f == Goes(c, pc)
  <2>1. f = [d \in Consumers |-> f[d]] /\ \A d \in Consumers : d # c => f[d] = consumer[d]
    BY <1>1 DEF Goes, Raised
  <2>2. f[c] \in [pc : {pc}, worker : {k.worker}, live : {k.live}, up : {k.up},
              msg : {k.msg}, inbox : {k.inbox}]
    BY <1>1 DEF ConsumerRecords, Goes, Raised
  <2>3. f[c] = As(k, pc, k.up, k.msg, k.inbox)
    BY <2>2 DEF As
  <2> HIDE DEF f
  <2>4. f = Becomes(c, As(k, pc, k.up, k.msg, k.inbox))
    BY <1>1, <2>1, <2>3 DEF As, Becomes
  <2> QED
    BY <2>4 DEF f
<1>3. Raised(c, pc)
         = Becomes(c, As(k, pc, TRUE, k.msg, k.inbox))
  <2> DEFINE f == Raised(c, pc)
  <2>1. f = [d \in Consumers |-> f[d]] /\ \A d \in Consumers : d # c => f[d] = consumer[d]
    BY <1>1 DEF Goes, Raised
  <2>2. f[c] \in [pc : {pc}, worker : {k.worker}, live : {k.live}, up : {TRUE},
              msg : {k.msg}, inbox : {k.inbox}]
    BY <1>1 DEF ConsumerRecords, Goes, Raised
  <2>3. f[c] = As(k, pc, TRUE, k.msg, k.inbox)
    BY <2>2 DEF As
  <2> HIDE DEF f
  <2>4. f = Becomes(c, As(k, pc, TRUE, k.msg, k.inbox))
    BY <1>1, <2>1, <2>3 DEF As, Becomes
  <2> QED
    BY <2>4 DEF f
<1> QED
  BY <1>2, <1>3

\* A consumer that keeps its worker and goes on with what it had, or with less.
LEMMA KeepsShape ==
    ASSUME StreamShape, NEW c \in Consumers, NEW k, k = consumer[c],
           NEW pc, NEW up \in BOOLEAN, NEW msg \in {k.msg, Nothing}, NEW inbox \in {k.inbox, {}},
           pc \in {"receiving", "backoff"} \/ (pc \in Handling \cup {"acking"} /\ msg = k.msg),
           k.pc # "unused", pc \in Handling \cup {"acking"} => k.pc \in Handling \cup {"acking"}
    PROVE  As(k, pc, up, msg, inbox) \in ConsumerRecords /\ ConsumerShape(c, As(k, pc, up, msg, inbox))
<1>1. k \in ConsumerRecords /\ ConsumerShape(c, k) /\ published \subseteq Messages
  BY DEF StreamShape
<1>2. msg \in Messages \cup {Nothing} /\ inbox \in SUBSET Messages
  BY <1>1 DEF ConsumerRecords
<1>3. As(k, pc, up, msg, inbox) \in ConsumerRecords
  BY <1>1, <1>2 DEF As, ConsumerRecords, Handling
<1>4. ConsumerShape(c, As(k, pc, up, msg, inbox))
  BY <1>1, StreamAssumption DEF As, ConsumerShape, ConsumerRecords, Handling
<1> QED
  BY <1>3, <1>4

\* The queue, when a message is put back.
LEMMA PutBack ==
    ASSUME StreamShape, NEW c \in Consumers, NEW msg, msg = consumer[c].msg,
           ready' \in {ready, ready \cup {msg}},
           ready' # ready => msg # Nothing /\ kind = "rabbitmq"
    PROVE  /\ ready' \subseteq published /\ (kind \notin Durable => ready' \subseteq ready)
           /\ \A m \in Messages : m # msg => Queued(m)' = Queued(m)
           /\ Queued(msg)' <= Queued(msg) + 1
           /\ ready' = ready => Queued(msg)' = Queued(msg)
           /\ \A m \in Messages : Queued(m)' <= Queued(m) + 1
BY DEF StreamShape, ConsumerShape, Durable, Queued

\* A consumer connects, waits, leaves, looks its workflow up or acknowledges.
LEMMA ConnectionSteps ==
    ASSUME StreamInvariant, NEW c \in Consumers,
           \/ Connects(c) \/ ConnectFails(c) \/ Loops(c) \/ Leave(c) \/ FetchWorkflow(c) \/ Ack(c)
    PROVE  StreamInvariant'
<1> DEFINE k == consumer[c]
<1>0. StreamShape /\ k \in ConsumerRecords /\ ConsumerShape(c, k)
      /\ consumer \in [Consumers -> ConsumerRecords]
  BY DEF StreamInvariant, StreamShape
<1>1. /\ kind' = kind /\ doc' = doc /\ subscribed' = subscribed /\ published' = published
      /\ ready' = ready /\ runsOf' = runsOf
      /\ streamSpent' \in [edits : Nat, faults : Nat] /\ streamSpent.faults <= streamSpent'.faults
  BY <1>0 DEF Connects, ConnectFails, Loops, Leave, FetchWorkflow, Ack, StreamFault, StreamShape
<1>2. /\ ready' \subseteq published /\ (kind \notin Durable => ready' \subseteq ready)
      /\ \A m \in Messages : Queued(m)' + streamSpent.faults <= Queued(m) + streamSpent'.faults
  <2>1. \A m \in Messages : Queued(m)' = Queued(m) /\ Queued(m) \in Nat
    BY <1>1 DEF Queued
  <2>2. streamSpent.faults \in Nat /\ streamSpent'.faults \in Nat
    BY <1>0, <1>1 DEF StreamShape
  <2> QED
    BY <1>0, <1>1, <2>1, <2>2 DEF StreamShape
<1>3. ASSUME NEW v, consumer' = [consumer EXCEPT ![c] = v], v \in ConsumerRecords,
             ConsumerShape(c, v), v.worker = k.worker \/ v.pc = "unused",
             v.msg \in {k.msg, Nothing}, v.pc \in Handling => k.pc \in Handling,
             \A m \in Messages : Pending(v, m) => Pending(k, m)
      PROVE  StreamInvariant'
  BY <1>1, <1>2, <1>3, QuietMove DEF Moved
<1>4. ASSUME NEW pc, NEW up \in BOOLEAN, NEW msg \in {k.msg, Nothing}, NEW inbox \in {k.inbox, {}},
             consumer' = Becomes(c, As(k, pc, up, msg, inbox)),
             k.pc # "unused",
             \/ pc \in {"receiving", "backoff"}
             \/ pc = "creating" /\ msg = k.msg /\ k.pc = "fetching" /\ k.live
      PROVE  StreamInvariant'
  <2> DEFINE v == As(k, pc, up, msg, inbox)
  <2>1. v \in ConsumerRecords /\ ConsumerShape(c, v)
    BY <1>0, <1>4, KeepsShape DEF Handling
  <2>2. v.pc = pc /\ v.worker = k.worker /\ v.live = k.live /\ v.msg = msg /\ v.inbox = inbox
    BY DEF As
  <2> HIDE DEF v
  <2>3. \A m \in Messages : Pending(v, m) => Pending(k, m)
    BY <1>0, <1>4, <2>2, StreamAssumption DEF Pending, Handling
  <2>4. v.msg \in {k.msg, Nothing} /\ (v.pc \in Handling => k.pc \in Handling)
    BY <1>4, <2>2 DEF Handling
  <2>5. consumer' = [consumer EXCEPT ![c] = v]
    BY <1>4 DEF v, Becomes
  <2> QED
    BY <1>3, <2>1, <2>2, <2>3, <2>4, <2>5
<1>5. CASE Connects(c)
  <2>1. k.pc = "dialing" /\ consumer' = Raised(c, "receiving")
    BY <1>5 DEF Connects, Raised
  <2>2. consumer' = Becomes(c, As(k, "receiving", TRUE, k.msg, k.inbox))
    BY <1>0, <2>1, GoesIs
  <2> QED
    BY <1>4, <2>1, <2>2
<1>6. CASE ConnectFails(c)
  <2>1. k.pc = "dialing" /\ consumer' = Goes(c, "backoff")
    BY <1>6 DEF ConnectFails
  <2>2. consumer' = Becomes(c, As(k, "backoff", k.up, k.msg, k.inbox))
    <3>1. Goes(c, "backoff") = Becomes(c, As(k, "backoff", k.up, k.msg, k.inbox))
      BY <1>0, GoesIs
    <3> QED
      BY <2>1, <3>1
  <2>3. k.up \in BOOLEAN
    BY <1>0 DEF ConsumerRecords
  <2> QED
    BY <1>4, <2>1, <2>2, <2>3
<1>7. CASE Leave(c)
  <2>1. k.pc = "receiving" /\ consumer' = Ended(c)
    BY <1>7 DEF Leave
  <2>2. consumer' = Becomes(c, As(k, "backoff", FALSE, Nothing, {}))
    BY <1>0, <2>1, HandledIs
  <2> QED
    BY <1>4, <2>1, <2>2
<1>8. CASE FetchWorkflow(c)
  <2>1. k.pc = "fetching" /\ k.live /\ consumer' = Goes(c, "creating")
    BY <1>8 DEF FetchWorkflow
  <2>2. consumer' = Becomes(c, As(k, "creating", k.up, k.msg, k.inbox))
    <3>1. Goes(c, "creating") = Becomes(c, As(k, "creating", k.up, k.msg, k.inbox))
      BY <1>0, GoesIs
    <3> QED
      BY <2>1, <3>1
  <2>3. k.up \in BOOLEAN
    BY <1>0 DEF ConsumerRecords
  <2> QED
    BY <1>4, <2>1, <2>2, <2>3
<1>9. CASE Ack(c)
  <2>1. k.pc = "acking" /\ consumer' = Handled(c)
    BY <1>9 DEF Ack
  <2>2. \/ consumer' = Becomes(c, As(k, "backoff", FALSE, Nothing, {}))
        \/ consumer' = Becomes(c, As(k, "receiving", k.up, Nothing, k.inbox))
    BY <1>0, <2>1, HandledIs
  <2>3. k.up \in BOOLEAN
    BY <1>0 DEF ConsumerRecords
  <2> QED
    BY <1>4, <2>1, <2>2, <2>3
<1>10. CASE Loops(c)
  <2> DEFINE v == IF k.live THEN [Unused EXCEPT !.pc = "dialing", !.worker = k.worker, !.live = TRUE]
                  ELSE Unused
  <2>1. k.pc = "backoff" /\ consumer' = [consumer EXCEPT ![c] = v]
    BY <1>0, <1>10 DEF Loops
  <2>2. /\ v.pc \in {"dialing", "unused"} /\ v.msg = Nothing /\ v.inbox = {} /\ v \in ConsumerRecords
        /\ v.live = k.live /\ (v.pc # "unused" => v.worker = k.worker) /\ (k.live <=> v.pc = "dialing")
    BY <1>0 DEF Unused, ConsumerRecords
  <2> HIDE DEF v
  <2>3. ConsumerShape(c, v)
    BY <1>0, <2>1, <2>2, StreamAssumption DEF ConsumerShape, Handling
  <2>4. \A m \in Messages : Pending(v, m) => Pending(k, m)
    BY <2>2, StreamAssumption DEF Pending
  <2>5. v.msg \in {k.msg, Nothing} /\ ~(v.pc \in Handling)
    BY <2>2 DEF Handling
  <2> QED
    BY <1>3, <2>1, <2>2, <2>3, <2>4, <2>5
<1> QED
  BY <1>5, <1>6, <1>7, <1>8, <1>9, <1>10

\* A consumer gives its message up, or creates the run, and the answer may be lost.
LEMMA MessageSteps ==
    ASSUME StreamInvariant, NEW c \in Consumers,
           GiveUp(c) \/ CreateRun(c) \/ CreateUnanswered(c)
    PROVE  StreamInvariant'
<1> DEFINE k == consumer[c]
<1>m. PICK msg : msg = k.msg
  OBVIOUS
<1>0. /\ StreamShape /\ k \in ConsumerRecords /\ ConsumerShape(c, k)
      /\ consumer \in [Consumers -> ConsumerRecords]
  BY DEF StreamInvariant, StreamShape
<1>1. /\ kind' = kind /\ doc' = doc /\ subscribed' = subscribed /\ published' = published
      /\ streamSpent' \in [edits : Nat, faults : Nat] /\ streamSpent.faults <= streamSpent'.faults
      /\ k.pc \in Handling /\ msg \in published
  BY <1>0, <1>m DEF GiveUp, CreateRun, CreateUnanswered, StreamFault, StreamShape, ConsumerShape, Handling
<1>2. /\ runsOf' \in [Messages -> Nat] /\ runsOf'[msg] \in {runsOf[msg], runsOf[msg] + 1}
      /\ \A m \in Messages : m # msg => runsOf'[m] = runsOf[m]
      /\ runsOf'[msg] # runsOf[msg] => k.pc = "creating"
      /\ msg \in Messages
  BY <1>0, <1>1, <1>m DEF GiveUp, CreateRun, CreateUnanswered, RunCreated, StreamShape
<1>3. /\ ready' \in {ready, ready \cup {msg}}
      /\ ready' # ready => msg # Nothing /\ kind = "rabbitmq"
  BY <1>1, <1>2, <1>m, StreamAssumption
     DEF GiveUp, CreateRun, CreateUnanswered, Refused, Requeued
<1>4. /\ ready' \subseteq published /\ (kind \notin Durable => ready' \subseteq ready)
      /\ \A m \in Messages : m # msg => Queued(m)' = Queued(m)
      /\ Queued(msg)' <= Queued(msg) + 1 /\ (ready' = ready => Queued(msg)' = Queued(msg))
      /\ Queued(msg) \in Nat /\ Queued(msg)' \in Nat
  <2>1. Queued(msg) \in Nat /\ Queued(msg)' \in Nat
    BY DEF Queued
  <2> QED
    BY <1>0, <1>3, <1>m, <2>1, PutBack
<1>5. /\ runsOf[msg] \in Nat /\ streamSpent.faults \in Nat /\ streamSpent'.faults \in Nat
  BY <1>0, <1>1, <1>2 DEF StreamShape
<1>6. runsOf'[msg] + Queued(msg)' + streamSpent.faults
         <= runsOf[msg] + Queued(msg) + streamSpent'.faults + 1
  <2>1. CASE GiveUp(c)
    <3>1. runsOf' = runsOf
      BY <2>1 DEF GiveUp
    <3> QED
      BY <1>1, <1>4, <1>5, <3>1
  <2>2. CASE CreateRun(c)
    <3>1. ready' = ready /\ streamSpent' = streamSpent
      BY <2>2 DEF CreateRun
    <3> QED
      BY <1>2, <1>4, <1>5, <3>1
  <2>3. CASE CreateUnanswered(c)
    <3>1. streamSpent'.faults = streamSpent.faults + 1
      BY <1>0, <2>3 DEF CreateUnanswered, StreamFault, StreamShape
    <3> QED
      BY <1>2, <1>4, <1>5, <3>1
  <2> QED
    BY <2>1, <2>2, <2>3
<1>7. ASSUME NEW pc \in {"receiving", "backoff", "acking"}, NEW up \in BOOLEAN,
             NEW left \in {msg, Nothing}, NEW inbox \in {k.inbox, {}},
             consumer' = Becomes(c, As(k, pc, up, left, inbox)),
             pc = "acking" => left = msg
      PROVE  StreamInvariant'
  <2> DEFINE v == As(k, pc, up, left, inbox)
  <2>1. v \in ConsumerRecords /\ ConsumerShape(c, v)
    BY <1>0, <1>1, <1>7, <1>m, KeepsShape DEF Handling
  <2>2. v.pc = pc /\ v.worker = k.worker /\ v.live = k.live /\ v.msg = left /\ v.inbox = inbox
    BY DEF As
  <2>3. consumer' = [consumer EXCEPT ![c] = v]
    BY <1>7 DEF Becomes
  <2> HIDE DEF v
  <2>4. \A m \in Messages : Pending(v, m) => Pending(k, m)
    BY <1>7, <2>2 DEF Pending, Handling
  <2>5. v.pc \notin Handling /\ msg \notin v.inbox
    BY <1>0, <1>7, <1>m, <2>2 DEF Handling, ConsumerShape
  <2>6. Moved(c, v)
    BY <1>1, <1>4, <2>1, <2>2, <2>3, <2>4 DEF Moved
  <2> QED
    BY <1>1, <1>2, <1>4, <1>6, <1>m, <2>5, <2>6, DoneMove
<1>8. k.up \in BOOLEAN
  BY <1>0 DEF ConsumerRecords
<1>9. CASE GiveUp(c) \/ CreateUnanswered(c)
  <2>1. consumer' = Handled(c)
    BY <1>9 DEF GiveUp, CreateUnanswered
  <2>2. \/ consumer' = Becomes(c, As(k, "backoff", FALSE, Nothing, {}))
        \/ consumer' = Becomes(c, As(k, "receiving", k.up, Nothing, k.inbox))
    BY <1>0, <2>1, HandledIs
  <2> QED
    BY <1>7, <1>8, <1>m, <2>2
<1>10. CASE CreateRun(c)
  <2>1. consumer' = Goes(c, "acking")
    BY <1>10 DEF CreateRun
  <2>2. Goes(c, "acking") = Becomes(c, As(k, "acking", k.up, msg, k.inbox))
    BY <1>0, <1>m, GoesIs
  <2> QED
    BY <1>7, <1>8, <1>m, <2>1, <2>2
<1> QED
  BY <1>9, <1>10

\* A connection is lost: a message in the hands of its consumer is back in the queue, and
\* that is a fault.
LEMMA LosesConnection ==
    ASSUME StreamInvariant, NEW c \in Consumers, ConnectionLost(c)
    PROVE  StreamInvariant'
<1> DEFINE k == consumer[c]
<1>m. PICK msg : msg = k.msg
  OBVIOUS
<1>0. /\ StreamShape /\ k \in ConsumerRecords /\ ConsumerShape(c, k)
      /\ consumer \in [Consumers -> ConsumerRecords]
  BY DEF StreamInvariant, StreamShape
<1>1. /\ kind' = kind /\ doc' = doc /\ subscribed' = subscribed /\ published' = published
      /\ streamSpent' \in [edits : Nat, faults : Nat] /\ runsOf' = runsOf
      /\ streamSpent'.faults = streamSpent.faults + 1 /\ streamSpent.faults \in Nat
  BY <1>0 DEF ConnectionLost, StreamFault, StreamShape
<1>2. /\ ready' \in {ready, ready \cup {msg}}
      /\ ready' # ready => msg # Nothing /\ kind = "rabbitmq"
  BY <1>m DEF ConnectionLost
<1>3. /\ ready' \subseteq published /\ (kind \notin Durable => ready' \subseteq ready)
      /\ \A m \in Messages : Queued(m)' + streamSpent.faults <= Queued(m) + streamSpent'.faults
  <2>1. \A m \in Messages : Queued(m) \in Nat /\ Queued(m)' \in Nat
    BY DEF Queued
  <2>2. /\ ready' \subseteq published /\ (kind \notin Durable => ready' \subseteq ready)
        /\ \A m \in Messages : Queued(m)' <= Queued(m) + 1
    BY <1>0, <1>2, <1>m, PutBack
  <2> QED
    BY <1>1, <2>1, <2>2
<1>4. PICK v : v = [k EXCEPT !.up = FALSE, !.inbox = {}]
  OBVIOUS
<1>5. consumer' = [consumer EXCEPT ![c] = v]
  BY <1>0, <1>4 DEF ConnectionLost
<1>6. /\ v \in ConsumerRecords /\ v.pc = k.pc /\ v.worker = k.worker /\ v.live = k.live
      /\ v.msg = k.msg /\ v.inbox = {}
  BY <1>0, <1>4 DEF ConsumerRecords
<1>7. ConsumerShape(c, v) /\ \A m \in Messages : Pending(v, m) => Pending(k, m)
  BY <1>0, <1>6 DEF ConsumerShape, Pending
<1>8. Moved(c, v)
  BY <1>1, <1>3, <1>5, <1>6, <1>7 DEF Moved
<1> QED
  BY <1>1, <1>3, <1>6, <1>8, QuietMove

\* A consumer takes a message: it is in its hands, and nowhere else.
LEMMA TakesMessage ==
    ASSUME StreamInvariant, NEW c \in Consumers, Receive(c)
    PROVE  StreamInvariant'
<1> DEFINE k == consumer[c]
<1>0. /\ StreamShape /\ k \in ConsumerRecords /\ ConsumerShape(c, k)
      /\ consumer \in [Consumers -> ConsumerRecords]
  BY DEF StreamInvariant, StreamShape
<1>1. PICK msg \in ready \cup k.inbox :
        /\ consumer' = [Goes(c, "fetching") EXCEPT ![c].msg = msg, ![c].inbox = @ \ {msg}]
        /\ ready' = ready \ {msg}
  BY DEF Receive
<1>2. /\ kind' = kind /\ doc' = doc /\ subscribed' = subscribed /\ published' = published
      /\ runsOf' = runsOf /\ streamSpent' = streamSpent /\ k.pc = "receiving"
  BY DEF Receive
<1>3. msg \in published /\ msg \in Messages
  BY <1>0, <1>1 DEF StreamShape, ConsumerShape
<1>4. PICK v : v = [k EXCEPT !.pc = "fetching", !.msg = msg, !.inbox = @ \ {msg}]
  OBVIOUS
<1>5. consumer' = [consumer EXCEPT ![c] = v]
  BY <1>0, <1>1, <1>4 DEF Goes, ConsumerRecords
<1>6. /\ v \in ConsumerRecords /\ v.pc = "fetching" /\ v.worker = k.worker /\ v.live = k.live
      /\ v.msg = msg /\ v.inbox = k.inbox \ {msg}
  BY <1>0, <1>3, <1>4 DEF ConsumerRecords, Handling
<1>7. ConsumerShape(c, v)
  BY <1>0, <1>2, <1>3, <1>6 DEF ConsumerShape, Handling
<1>8. Moved(c, v)
  <2>1. \A m \in Messages : kind \notin Durable /\ Pending(v, m) => Pending(k, m)
    BY <1>0, <1>1, <1>6 DEF Pending, StreamShape
  <2>2. ready' \subseteq published /\ ready' \subseteq ready
    BY <1>0, <1>1 DEF StreamShape
  <2>3. streamSpent' \in [edits : Nat, faults : Nat] /\ streamSpent.faults <= streamSpent'.faults
    BY <1>0, <1>2 DEF StreamShape
  <2> QED
    BY <1>2, <1>5, <1>6, <1>7, <2>1, <2>2, <2>3 DEF Moved
<1>9. StreamShape'
  BY <1>0, <1>2, <1>8, MovedShape DEF StreamShape
<1>10. CASE kind \in Durable
  <2>1. ASSUME NEW m \in Messages, m # msg
        PROVE  (runsOf[m] + Queued(m) + Cardinality(Holding(m)) <= 1 + streamSpent.faults)'
    <3>1. Holding(m)' \subseteq Holding(m)
      BY <1>0, <1>5, <1>6, <2>1 DEF Holding
    <3>2. Queued(m)' = Queued(m) /\ Queued(m) \in Nat /\ runsOf[m] \in Nat /\ streamSpent.faults \in Nat
      BY <1>0, <1>1, <2>1 DEF Queued, StreamShape
    <3>3. runsOf'[m] + Queued(m)' + streamSpent.faults
             <= runsOf[m] + Queued(m) + streamSpent'.faults
      BY <1>2, <3>2
    <3> QED
      BY <1>0, <1>9, <1>10, <3>1, <3>3, QueueKept DEF StreamInvariant
  <2>2. ASSUME NEW m \in Messages, m = msg
        PROVE  (runsOf[m] + Queued(m) + Cardinality(Holding(m)) <= 1 + streamSpent.faults)'
    <3>1. m \in ready
      BY <1>0, <1>1, <1>10, <2>2 DEF ConsumerShape
    <3>2. Queued(m) = 1 /\ Queued(m)' = 0
      BY <1>1, <2>2, <3>1 DEF Queued
    <3>3. c \notin Holding(m) /\ Holding(m)' = Holding(m) \cup {c}
      BY <1>0, <1>2, <1>5, <1>6, <2>2 DEF Holding, Handling
    <3>4. Cardinality(Holding(m)') = Cardinality(Holding(m)) + 1
      BY <3>3, StreamCounts, FS_AddElement
    <3>5. runsOf[m] + Queued(m) + Cardinality(Holding(m)) <= 1 + streamSpent.faults
      BY <1>10 DEF StreamInvariant, QueueBound
    <3>6. runsOf[m] \in Nat /\ streamSpent.faults \in Nat
      BY <1>0 DEF StreamShape
    <3> QED
      BY <1>2, <3>2, <3>4, <3>5, <3>6, StreamCounts
  <2> QED
    BY <1>2, <1>9, <1>10, <2>1, <2>2 DEF StreamInvariant, QueueBound
<1>11. CASE kind \notin Durable
  <2>1. OnePerWorker' /\ \A m \in Messages : Awaiting(m)' \subseteq Awaiting(m)
    BY <1>8, <1>11, MovedPending DEF StreamInvariant
  <2>2. SpreadBound'
    BY <1>2, <1>9, <1>11, <2>1, SpreadKept DEF StreamInvariant, SpreadBound
  <2> QED
    BY <1>2, <1>9, <1>11, <2>1, <2>2 DEF StreamInvariant
<1> QED
  BY <1>10, <1>11

\* A step of several consumers that creates no run and only takes from them.
LEMMA Dwindles ==
    ASSUME StreamInvariant, StreamShape', kind' = kind, runsOf' = runsOf,
           \A c \in Consumers :
              /\ consumer'[c].pc \in Handling =>
                    consumer[c].pc \in Handling /\ consumer'[c].msg = consumer[c].msg
              /\ \A m \in Messages : Pending(consumer'[c], m) =>
                    Pending(consumer[c], m) /\ consumer'[c].worker = consumer[c].worker,
           \A m \in Messages : Queued(m)' + streamSpent.faults <= Queued(m) + streamSpent'.faults
    PROVE  StreamInvariant'
<1>1. CASE kind \in Durable
  <2>1. ASSUME NEW m \in Messages
        PROVE  (runsOf[m] + Queued(m) + Cardinality(Holding(m)) <= 1 + streamSpent.faults)'
    <3>1. Holding(m)' \subseteq Holding(m)
      BY DEF Holding
    <3>2. /\ runsOf[m] \in Nat /\ streamSpent.faults \in Nat /\ streamSpent'.faults \in Nat
      BY DEF StreamInvariant, StreamShape
    <3>3. Queued(m) \in Nat /\ Queued(m)' \in Nat
      BY DEF Queued
    <3>4. runsOf'[m] + Queued(m)' + streamSpent.faults
             <= runsOf[m] + Queued(m) + streamSpent'.faults
      BY <3>2, <3>3
    <3> QED
      BY <1>1, <3>1, <3>4, QueueKept DEF StreamInvariant
  <2> QED
    BY <1>1, <2>1 DEF StreamInvariant, QueueBound
<1>2. CASE kind \notin Durable
  <2>1. \A m \in Messages, d \in Consumers : Pending(consumer[d], m)' <=> Pending(consumer'[d], m)
    BY DEF Pending
  <2>2. OnePerWorker'
    BY <1>2, <2>1 DEF StreamInvariant, OnePerWorker
  <2>3. \A m \in Messages : Awaiting(m)' \subseteq Awaiting(m)
    BY <2>1 DEF Awaiting
  <2>4. SpreadBound'
    BY <1>2, <2>3, SpreadKept DEF StreamInvariant, SpreadBound
  <2> QED
    BY <1>2, <2>2, <2>4 DEF StreamInvariant
<1> QED
  BY <1>1, <1>2

LEMMA SyncKeeps ==
    ASSUME StreamInvariant, NEW i \in Workers, Sync(i)
    PROVE  StreamInvariant'
<1>0. StreamShape /\ consumer \in [Consumers -> ConsumerRecords]
  BY DEF StreamInvariant, StreamShape
<1>1. /\ kind' = kind /\ doc' = doc /\ ready' = ready /\ published' = published
      /\ runsOf' = runsOf /\ streamSpent' = streamSpent
  BY DEF Sync
<1>2. PICK c \in Consumers \cup {Nothing} :
        /\ \A d \in Consumers : d # c => consumer'[d] =
              IF d = subscribed[i].consumer THEN [consumer[d] EXCEPT !.live = FALSE] ELSE consumer[d]
        /\ c # Nothing => consumer'[c] = [Unused EXCEPT !.pc = "dialing", !.worker = i, !.live = TRUE]
        /\ \E ver \in Nat : subscribed' = [subscribed EXCEPT ![i] = [consumer |-> c, ver |-> ver]]
        /\ consumer' = [d \in Consumers |-> consumer'[d]]
  <2>1. CASE Wanted /\ ~Current(i) /\ Idle # {}
    <3>1. PICK c \in Consumers : c = CHOOSE d \in Idle : TRUE
      BY <2>1 DEF Idle
    <3>2. /\ consumer' = [Cancelled(i) EXCEPT ![c] =
                [Unused EXCEPT !.pc = "dialing", !.worker = i, !.live = TRUE]]
          /\ subscribed' = [subscribed EXCEPT ![i] = [consumer |-> c, ver |-> doc.ver]]
      BY <2>1, <3>1 DEF Sync, StopStale, Wanted
    <3>3. doc.ver \in Nat
      BY <1>0 DEF StreamShape
    <3> QED
      BY <3>2, <3>3 DEF Cancelled
  <2>2. CASE ~Wanted /\ subscribed[i].consumer # Nothing
    <3>1. /\ consumer' = Cancelled(i)
          /\ subscribed' = [subscribed EXCEPT ![i] = [consumer |-> Nothing, ver |-> 0]]
      BY <2>2 DEF Sync, Untracked
    <3> QED
      BY <3>1, StreamAssumption DEF Cancelled
  <2> QED
    BY <2>1, <2>2 DEF Sync
<1>3. ASSUME NEW d \in Consumers, d # c
      PROVE  /\ consumer'[d] \in ConsumerRecords /\ ConsumerShape(d, consumer[d])'
             /\ consumer'[d].pc = consumer[d].pc /\ consumer'[d].msg = consumer[d].msg
             /\ consumer'[d].worker = consumer[d].worker /\ consumer'[d].inbox = consumer[d].inbox
             /\ consumer'[d].live => consumer[d].live
  <2>1. /\ consumer'[d] \in ConsumerRecords
        /\ consumer'[d].pc = consumer[d].pc /\ consumer'[d].msg = consumer[d].msg
        /\ consumer'[d].worker = consumer[d].worker /\ consumer'[d].inbox = consumer[d].inbox
        /\ consumer'[d].live <=> (consumer[d].live /\ d # subscribed[i].consumer)
    <3>1. consumer[d] \in ConsumerRecords
      BY <1>0
    <3>2. CASE d = subscribed[i].consumer
      <4>1. consumer'[d] = [consumer[d] EXCEPT !.live = FALSE]
        BY <1>2, <1>3, <3>2
      <4> QED
        BY <3>1, <3>2, <4>1 DEF ConsumerRecords
    <3>3. CASE d # subscribed[i].consumer
      <4>1. consumer'[d] = consumer[d]
        BY <1>2, <1>3, <3>3
      <4> QED
        BY <3>1, <3>3, <4>1
    <3> QED
      BY <3>2, <3>3
  <2>2. ConsumerShape(d, consumer[d])
    BY <1>0 DEF StreamShape
  <2>3. consumer'[d].live => subscribed'[consumer'[d].worker].consumer = d
    BY <1>0, <1>2, <2>1, <2>2 DEF ConsumerShape, StreamShape
  <2>4. ConsumerShape(d, consumer[d])'
    BY <1>1, <2>1, <2>2, <2>3 DEF ConsumerShape
  <2> QED
    BY <2>1, <2>4
<1>4. ASSUME c # Nothing
      PROVE  /\ consumer'[c] \in ConsumerRecords /\ ConsumerShape(c, consumer[c])'
             /\ consumer'[c].pc = "dialing" /\ consumer'[c].inbox = {}
  <2>1. /\ consumer'[c] = [Unused EXCEPT !.pc = "dialing", !.worker = i, !.live = TRUE]
        /\ subscribed'[i].consumer = c
    BY <1>0, <1>2, <1>4 DEF StreamShape
  <2>2. /\ consumer'[c] \in ConsumerRecords /\ consumer'[c].pc = "dialing"
        /\ consumer'[c].inbox = {} /\ consumer'[c].worker = i /\ consumer'[c].msg = Nothing
    BY <2>1 DEF Unused, ConsumerRecords
  <2>3. ConsumerShape(c, consumer[c])'
    BY <2>1, <2>2 DEF ConsumerShape, Handling
  <2> QED
    BY <2>2, <2>3
<1>5. StreamShape'
  <2>1. consumer' \in [Consumers -> ConsumerRecords]
    BY <1>2, <1>3, <1>4, StreamAssumption
  <2>2. (\A d \in Consumers : ConsumerShape(d, consumer[d]))'
    BY <1>3, <1>4, StreamAssumption
  <2>3. subscribed' \in [Workers -> [consumer : Consumers \cup {Nothing}, ver : Nat]]
    BY <1>0, <1>2 DEF StreamShape
  <2> QED
    BY <1>0, <1>1, <2>1, <2>2, <2>3 DEF StreamShape, ConsumerRecords
<1>6. ASSUME NEW d \in Consumers
      PROVE  /\ consumer'[d].pc \in Handling =>
                   consumer[d].pc \in Handling /\ consumer'[d].msg = consumer[d].msg
             /\ \A m \in Messages : Pending(consumer'[d], m) =>
                   Pending(consumer[d], m) /\ consumer'[d].worker = consumer[d].worker
  BY <1>3, <1>4, StreamAssumption DEF Handling, Pending
<1>7. \A m \in Messages : Queued(m)' + streamSpent.faults <= Queued(m) + streamSpent'.faults
  BY <1>0, <1>1 DEF Queued, StreamShape
<1> QED
  BY <1>1, <1>5, <1>6, <1>7, Dwindles

LEMMA RestartKeeps ==
    ASSUME StreamInvariant, NEW i \in Workers, WorkerRestarts(i)
    PROVE  StreamInvariant'
<1>0. StreamShape /\ consumer \in [Consumers -> ConsumerRecords]
  BY DEF StreamInvariant, StreamShape
<1>1. /\ kind' = kind /\ doc' = doc /\ published' = published /\ runsOf' = runsOf
      /\ streamSpent' \in [edits : Nat, faults : Nat]
      /\ streamSpent'.faults = streamSpent.faults + 1 /\ streamSpent.faults \in Nat
  BY <1>0 DEF WorkerRestarts, StreamFault, StreamShape
<1>2. /\ consumer' = [c \in Consumers |-> IF consumer[c].worker = i THEN Unused ELSE consumer[c]]
      /\ subscribed' = [subscribed EXCEPT ![i] = Untracked]
  BY DEF WorkerRestarts
<1>3. ready' \subseteq published /\ (kind \notin Durable => ready' = ready)
  BY <1>0 DEF WorkerRestarts, Durable, StreamShape, ConsumerShape
<1>4. Unused \in ConsumerRecords /\ Unused.pc = "unused" /\ ~Unused.live /\ Unused.msg = Nothing
      /\ Unused.inbox = {}
  BY DEF Unused, ConsumerRecords
<1>5. StreamShape'
  <2>1. consumer' \in [Consumers -> ConsumerRecords]
    BY <1>0, <1>2, <1>4
  <2>2. ASSUME NEW d \in Consumers PROVE ConsumerShape(d, consumer[d])'
    <3>1. CASE consumer[d].worker = i
      BY <1>2, <1>4, <3>1 DEF ConsumerShape, Handling
    <3>2. CASE consumer[d].worker # i
      BY <1>0, <1>1, <1>2, <3>2 DEF StreamShape, ConsumerShape
    <3> QED
      BY <3>1, <3>2
  <2>3. subscribed' \in [Workers -> [consumer : Consumers \cup {Nothing}, ver : Nat]]
    BY <1>0, <1>2 DEF StreamShape, Untracked
  <2> QED
    BY <1>0, <1>1, <1>3, <2>1, <2>2, <2>3 DEF StreamShape, ConsumerRecords
<1>6. ASSUME NEW d \in Consumers
      PROVE  /\ consumer'[d].pc \in Handling =>
                   consumer[d].pc \in Handling /\ consumer'[d].msg = consumer[d].msg
             /\ \A m \in Messages : Pending(consumer'[d], m) =>
                   Pending(consumer[d], m) /\ consumer'[d].worker = consumer[d].worker
  BY <1>2, <1>4 DEF Handling, Pending
<1>7. \A m \in Messages : Queued(m)' + streamSpent.faults <= Queued(m) + streamSpent'.faults
  BY <1>1 DEF Queued
<1> QED
  BY <1>1, <1>5, <1>6, <1>7, Dwindles

LEMMA EditKeeps == ASSUME StreamInvariant, EditStream PROVE StreamInvariant'
<1>0. StreamShape
  BY DEF StreamInvariant
<1>1. /\ kind' = kind /\ subscribed' = subscribed /\ consumer' = consumer /\ ready' = ready
      /\ published' = published /\ runsOf' = runsOf
  BY DEF EditStream
<1>2. /\ streamSpent' \in [edits : Nat, faults : Nat] /\ streamSpent'.faults = streamSpent.faults
      /\ doc' \in [exists : BOOLEAN, enabled : BOOLEAN, ver : Nat] /\ streamSpent.faults \in Nat
  BY <1>0 DEF EditStream, StreamShape
<1>3. StreamShape'
  BY <1>0, <1>1, <1>2 DEF StreamShape, ConsumerShape, ConsumerRecords
<1>4. \A m \in Messages : Queued(m)' + streamSpent.faults <= Queued(m) + streamSpent'.faults
  BY <1>1, <1>2 DEF Queued
<1> QED
  BY <1>1, <1>3, <1>4, Dwindles

\* A new message is nowhere yet.
LEMMA NewMessage ==
    ASSUME StreamShape, NEW m \in Messages, m \notin published
    PROVE  /\ runsOf[m] = 0 /\ m \notin ready /\ Holding(m) = {}
           /\ \A c \in Consumers : consumer[c].msg # m /\ m \notin consumer[c].inbox
<1>1. runsOf[m] \in Nat
  BY DEF StreamShape
<1>2. m # Nothing
  BY StreamAssumption
<1> QED
  BY <1>1, <1>2 DEF StreamShape, ConsumerShape, Holding

LEMMA PublishKeeps ==
    ASSUME StreamInvariant, NEW msg \in Messages, Publish(msg)
    PROVE  StreamInvariant'
<1>0. /\ StreamShape /\ consumer \in [Consumers -> ConsumerRecords] /\ runsOf \in [Messages -> Nat]
      /\ streamSpent.faults \in Nat
  BY DEF StreamInvariant, StreamShape
<1>1. /\ kind' = kind /\ doc' = doc /\ subscribed' = subscribed /\ runsOf' = runsOf
      /\ streamSpent' = streamSpent /\ published' = published \cup {msg} /\ msg \notin published
  BY DEF Publish
<1>2. CASE kind \in Durable
  <2>1. ready' = ready \cup {msg} /\ consumer' = consumer
    BY <1>2 DEF Publish
  <2>2. StreamShape'
    BY <1>0, <1>1, <1>2, <2>1 DEF StreamShape, ConsumerShape, ConsumerRecords
  <2>3. ASSUME NEW m \in Messages
        PROVE  (runsOf[m] + Queued(m) + Cardinality(Holding(m)) <= 1 + streamSpent.faults)'
    <3>1. Holding(m)' = Holding(m)
      BY <2>1 DEF Holding
    <3>2. CASE m = msg
      <4>1. runsOf'[m] = 0 /\ Holding(m)' = {} /\ Queued(m)' \in {0, 1}
        BY <1>0, <1>1, <3>1, <3>2, NewMessage DEF Queued
      <4>2. Cardinality(Holding(m)') = 0
        BY <4>1, FS_EmptySet
      <4> QED
        BY <1>0, <1>1, <4>1, <4>2
    <3>3. CASE m # msg
      <4>1. Queued(m)' = Queued(m) /\ Queued(m) \in Nat
        BY <2>1, <3>3 DEF Queued
      <4>2. runsOf'[m] + Queued(m)' + streamSpent.faults
               <= runsOf[m] + Queued(m) + streamSpent'.faults
        BY <1>0, <1>1, <4>1
      <4> QED
        BY <1>0, <1>2, <2>2, <3>1, <4>2, QueueKept DEF StreamInvariant
    <3> QED
      BY <3>2, <3>3
  <2> QED
    BY <1>1, <1>2, <2>2, <2>3 DEF StreamInvariant, QueueBound
<1>3. CASE kind \notin Durable
  <2>1. /\ ready' = ready
        /\ consumer' = [c \in Consumers |->
               IF consumer[c].up THEN [consumer[c] EXCEPT !.inbox = @ \cup {msg}] ELSE consumer[c]]
    BY <1>3 DEF Publish
  <2>2. ASSUME NEW c \in Consumers
        PROVE  /\ consumer'[c] \in ConsumerRecords
               /\ consumer'[c].pc = consumer[c].pc /\ consumer'[c].worker = consumer[c].worker
               /\ consumer'[c].live = consumer[c].live /\ consumer'[c].msg = consumer[c].msg
               /\ consumer'[c].inbox \in {consumer[c].inbox, consumer[c].inbox \cup {msg}}
    BY <1>0, <2>1 DEF ConsumerRecords
  <2>3. \A c \in Consumers : consumer[c].msg # msg /\ msg \notin consumer[c].inbox
    BY <1>0, <1>1, NewMessage
  <2>4. StreamShape'
    <3>1. ASSUME NEW c \in Consumers PROVE ConsumerShape(c, consumer[c])'
      BY <1>0, <1>1, <1>3, <2>2, <2>3 DEF StreamShape, ConsumerShape
    <3>2. consumer' \in [Consumers -> ConsumerRecords]
      BY <2>1, <2>2
    <3> QED
      BY <1>0, <1>1, <2>1, <3>1, <3>2 DEF StreamShape, ConsumerRecords
  <2>5. \A m \in Messages, c \in Consumers :
           /\ Pending(consumer[c], m)' <=> Pending(consumer'[c], m)
           /\ m # msg => (Pending(consumer'[c], m) <=> Pending(consumer[c], m))
           /\ Pending(consumer'[c], msg) => consumer[c].live
    BY <2>2, <2>3 DEF Pending
  <2>6. \A c, d \in Consumers :
           consumer[c].live /\ consumer[d].live /\ consumer[c].worker = consumer[d].worker => c = d
    BY <1>0 DEF StreamShape, ConsumerShape
  <2>7. OnePerWorker'
    <3>1. ASSUME NEW m \in Messages, NEW c \in Consumers, NEW d \in Consumers,
                 Pending(consumer'[c], m), Pending(consumer'[d], m),
                 consumer'[c].worker = consumer'[d].worker
          PROVE  c = d
      <4>1. consumer[c].worker = consumer[d].worker
        BY <2>2, <3>1
      <4> QED
        BY <1>3, <2>5, <2>6, <3>1, <4>1 DEF StreamInvariant, OnePerWorker
    <3> QED
      BY <2>5, <3>1 DEF OnePerWorker
  <2>8. ASSUME NEW m \in Messages
        PROVE  (runsOf[m] + Cardinality(Awaiting(m)) <= Cardinality(Workers))'
    <3>1. CASE m = msg
      <4>1. runsOf'[m] = 0
        BY <1>0, <1>1, <3>1, NewMessage
      <4> QED
        BY <4>1, StreamCounts
    <3>2. CASE m # msg
      <4>1. Awaiting(m)' \subseteq Awaiting(m)
        BY <2>2, <2>5, <3>2 DEF Awaiting
      <4> QED
        BY <1>0, <1>1, <1>3, <2>4, <4>1, SpreadKept DEF StreamInvariant
    <3> QED
      BY <3>1, <3>2
  <2> QED
    BY <1>1, <1>3, <2>4, <2>7, <2>8 DEF StreamInvariant, SpreadBound
<1> QED
  BY <1>2, <1>3

LEMMA InitiallySilent == StreamInit => StreamInvariant
<1> SUFFICES ASSUME StreamInit PROVE StreamInvariant
  OBVIOUS
<1>1. StreamShape
  BY DEF StreamInit, StreamShape, ConsumerShape, ConsumerRecords, Unused, Untracked, Handling
<1>2. ASSUME NEW m \in Messages
      PROVE  runsOf[m] = 0 /\ Queued(m) = 0 /\ Holding(m) = {} /\ Awaiting(m) = {}
  BY DEF StreamInit, Queued, Holding, Awaiting, Pending, Unused, Handling
<1>3. QueueBound
  BY <1>1, <1>2, FS_EmptySet DEF QueueBound, StreamInit
<1>4. OnePerWorker
  BY DEF StreamInit, OnePerWorker, Pending, Unused, Handling
<1>5. SpreadBound
  BY <1>2, FS_EmptySet, StreamCounts DEF SpreadBound
<1> QED
  BY <1>1, <1>3, <1>4, <1>5 DEF StreamInvariant

LEMMA StreamSteps == StreamInvariant /\ [StreamNext]_streamVars => StreamInvariant'
<1> SUFFICES ASSUME StreamInvariant, [StreamNext]_streamVars PROVE StreamInvariant'
  OBVIOUS
<1>1. CASE UNCHANGED streamVars
  BY <1>1 DEF streamVars, StreamInvariant, StreamShape, ConsumerShape, ConsumerRecords,
     QueueBound, Queued, Holding, OnePerWorker, Pending, SpreadBound, Awaiting
<1>2. ASSUME NEW c \in Consumers, Consumes(c) \/ Handles(c) PROVE StreamInvariant'
  BY <1>2, ConnectionSteps, MessageSteps, LosesConnection, TakesMessage
     DEF Consumes, Handles, ConsumeOnce, SubscribeOnce, WSSubscribeOnce, ConsumeLoop,
         SubscribeLoop, WSSubscribeLoop, ProcessDelivery, ProcessRedisMessage, ProcessWSMessage
<1> QED
  BY <1>1, <1>2, SyncKeeps, RestartKeeps, EditKeeps, PublishKeeps
     DEF StreamNext, SyncRMQConsumers, SyncRedisSubscribers, SyncWSSubscribers

\* A message of a queue becomes at most one run, and one more for each fault that
\* hid a stored run or lost a connection; a message sent to every subscriber becomes
\* at most one run per worker, also while consumers are replaced (processDelivery,
\* processRedisMessage, processWSMessage).
THEOREM MessagesDispatchAtMost == StreamSpec => []DispatchedAtMost
<1>1. StreamInvariant => DispatchedAtMost
  <2> SUFFICES ASSUME StreamInvariant, NEW m \in Messages
               PROVE  runsOf[m] <= IF kind \in Durable THEN 1 + streamSpent.faults
                                   ELSE Cardinality(Workers)
    BY DEF DispatchedAtMost
  <2>1. runsOf[m] \in Nat /\ streamSpent.faults \in Nat
    BY DEF StreamInvariant, StreamShape
  <2>2. CASE kind \in Durable
    <3>1. Queued(m) \in Nat
      BY DEF Queued
    <3> QED
      BY <2>1, <2>2, <3>1, StreamCounts DEF StreamInvariant, QueueBound
  <2>3. CASE kind \notin Durable
    BY <2>1, <2>3, StreamCounts DEF StreamInvariant, SpreadBound
  <2> QED
    BY <2>2, <2>3
<1> QED
  BY <1>1, InitiallySilent, StreamSteps, PTL DEF StreamSpec
=============================================================================
