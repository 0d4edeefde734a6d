---------------------------- MODULE SandboxPool ----------------------------
(***************************************************************************)
(* The sandbox of one process: a pool of warm containers (docker) or pods  *)
(* (k3s) keyed by image and envelope, the requests that take one or create *)
(* one, and the removal of what a crashed process left.                    *)
(*                                                                         *)
(* Every goroutine of the code is an entry of its own: a replenishment not *)
(* yet checked, one that creates, one that holds a container it has not    *)
(* added, a removal, a request.  The lock of the pool makes Acquire,       *)
(* addToKey and Close one step each; nothing else is atomic.               *)
(***************************************************************************)
EXTENDS Integers, Sequences, FiniteSets

CONSTANTS
  Keys,             \* pool keys: language, image, network and sizes
  DefaultKeys,      \* the sequence of keys Warm fills at the start
  Containers,       \* the containers the daemon can hold
  Requests,         \* requests served at a time
  MaxWarm, MaxKeys, \* the pool's own limits
  MaxReplenish,     \* bound: replenishments in flight for a key
  MaxSandboxFaults  \* bound: crashes, other processes started, lost answers

ASSUME PoolLimits ==
    MaxWarm \in Nat /\ MaxKeys \in Nat \ {0} /\ DefaultKeys \in Seq(Keys)

VARIABLES
  backend,      \* "docker" or "k3s"
  exists,       \* containers the daemon holds
  alive,        \* those that can still be attached to
  warm,         \* the pool: key -> sequence of containers
  keyOrder,     \* keys, the least recently touched first
  closed,
  pending,      \* replenishments that have not looked at the pool yet
  creating,     \* replenishments inside createWarm, before the daemon's answer
  warmTodo,     \* what Warm has left to create
  fresh,        \* containers created for the pool and not yet added
  removing,     \* containers whose removal is under way
  request,
  phase,        \* of the process: "down", "cleaning", "serving", "closing"
  orphans,      \* left-overs its own start has listed
  listed,       \* containers another process' start has listed
  strays,       \* containers nobody in the process knows any more
  sandboxFaults

poolVars == <<warm, keyOrder, closed, pending, creating, warmTodo, fresh, removing>>
daemonVars == <<exists, alive, strays>>
otherVars == <<listed, sandboxFaults>>
sandboxVars == <<backend, daemonVars, poolVars, request, phase, orphans, otherVars>>

Idle == [at |-> "idle"]
Slot(k) == IF k \in DOMAIN warm THEN warm[k] ELSE <<>>
Elements(s) == {s[i] : i \in DOMAIN s}

(***************************************************************************)
(* Who holds a container: a slot of the pool, a goroutine about to add it, *)
(* a removal, or a request.                                                *)
(***************************************************************************)
Pooled == UNION {Elements(warm[k]) : k \in DOMAIN warm}
InUse == {request[r].id : r \in {q \in Requests : request[q].at \in
                                   {"check", "attach", "wait", "leave"}}}
Held == Pooled \cup {f.id : f \in fresh} \cup removing \cup InUse
Free == Containers \ (exists \cup Held)

SandboxInit ==
    /\ backend \in {"docker", "k3s"}
    /\ exists = {} /\ alive = {} /\ strays = {}
    /\ warm = <<>> /\ keyOrder = <<>> /\ closed = FALSE
    /\ pending = [k \in Keys |-> 0] /\ creating = [k \in Keys |-> 0]
    /\ warmTodo = <<>> /\ fresh = {} /\ removing = {}
    /\ request = [r \in Requests |-> Idle]
    /\ phase = "down" /\ orphans = {} /\ listed = {} /\ sandboxFaults = 0

Running == phase \in {"serving", "closing"}

----------------------------------------------------------------------------
(***************************************************************************)
(* addToKey: refused when the pool is closed or the slot is full; a new    *)
(* key evicts the least recently touched one when there are MaxKeys.       *)
(***************************************************************************)
Refuses(k) == closed \/ Len(Slot(k)) >= MaxWarm

Evicts(k) == k \notin DOMAIN warm /\ Len(keyOrder) >= MaxKeys
VictimsForgotten(k) == {}
Victims(k) == IF Evicts(k) THEN Elements(warm[Head(keyOrder)]) ELSE {}

AddToKey(k, c) ==
    LET evicted == IF Evicts(k) THEN {Head(keyOrder)} ELSE {}
    IN /\ warm' = [x \in (DOMAIN warm \ evicted) \cup {k} |->
                     IF x = k THEN Append(Slot(k), c) ELSE warm[x]]
       /\ keyOrder' = IF k \in DOMAIN warm THEN keyOrder
                      ELSE Append(IF Evicts(k) THEN Tail(keyOrder) ELSE keyOrder, k)

TouchKey(k) ==
    IF k \notin Elements(keyOrder) THEN keyOrder
    ELSE LET p == CHOOSE i \in DOMAIN keyOrder : keyOrder[i] = k
         IN  Append([i \in 1 .. Len(keyOrder) - 1 |-> keyOrder[IF i < p THEN i ELSE i + 1]], k)

(***************************************************************************)
(* createWarm.  Docker answers with the container; a pod is waited for and *)
(* deleted if it never runs.  An answer that is lost leaves a container    *)
(* nobody knows.                                                           *)
(***************************************************************************)
Created(k, c, by) ==
    /\ exists' = exists \cup {c} /\ alive' = alive \cup {c}
    /\ fresh' = fresh \cup {[key |-> k, id |-> c, by |-> by, ready |-> backend = "docker"]}

CreateWarm(k, c) ==
    /\ Running /\ creating[k] > 0 /\ c \in Free
    /\ creating' = [creating EXCEPT ![k] = @ - 1]
    /\ Created(k, c, "replenish")
    /\ UNCHANGED <<backend, strays, warm, keyOrder, closed, pending, warmTodo, removing,
                   request, phase, orphans, otherVars>>

CreateWarmFails(k, c) ==
    /\ Running /\ creating[k] > 0
    /\ creating' = [creating EXCEPT ![k] = @ - 1]
    /\ \/ UNCHANGED <<daemonVars, sandboxFaults>>
       \/ /\ c \in Free /\ sandboxFaults < MaxSandboxFaults
          /\ sandboxFaults' = sandboxFaults + 1
          /\ exists' = exists \cup {c} /\ alive' = alive \cup {c} /\ strays' = strays \cup {c}
    /\ UNCHANGED <<backend, warm, keyOrder, closed, pending, warmTodo, fresh, removing,
                   request, phase, orphans, listed>>

PodReady(f) ==
    /\ Running /\ f \in fresh /\ ~f.ready
    /\ \/ /\ f.id \in alive
          /\ fresh' = (fresh \ {f}) \cup {[f EXCEPT !.ready = TRUE]}
          /\ UNCHANGED <<exists, alive>>
       \/ /\ fresh' = fresh \ {f}
          /\ exists' = exists \ {f.id} /\ alive' = alive \ {f.id}
    /\ UNCHANGED <<backend, strays, warm, keyOrder, closed, pending, creating, warmTodo, removing,
                   request, phase, orphans, otherVars>>

(***************************************************************************)
(* replenish looks at the pool, unlocks, creates, and adds; a container    *)
(* the pool refuses is removed in the background.  Warm adds the same way  *)
(* but does not look at the answer of addToKey.                            *)
(***************************************************************************)
ReplenishChecks(k) ==
    /\ Running /\ pending[k] > 0
    /\ pending' = [pending EXCEPT ![k] = @ - 1]
    /\ creating' = IF Refuses(k) THEN creating ELSE [creating EXCEPT ![k] = @ + 1]
    /\ UNCHANGED <<backend, daemonVars, warm, keyOrder, closed, warmTodo, fresh, removing,
                   request, phase, orphans, otherVars>>

Dropped(f) == f.by = "replenish"

Replenish(f) ==
    /\ Running /\ f \in fresh /\ f.ready
    /\ fresh' = fresh \ {f}
    /\ IF Refuses(f.key)
       THEN /\ removing' = IF Dropped(f) THEN removing \cup {f.id} ELSE removing
            /\ strays' = IF Dropped(f) THEN strays ELSE strays \cup ({f.id} \cap exists)
            /\ UNCHANGED <<warm, keyOrder>>
       ELSE /\ AddToKey(f.key, f.id)
            /\ removing' = removing \cup Victims(f.key)
            /\ UNCHANGED strays
    /\ UNCHANGED <<backend, exists, alive, closed, pending, creating, warmTodo,
                   request, phase, orphans, otherVars>>

Warm(c) ==
    /\ Running /\ warmTodo # <<>> /\ ~\E f \in fresh : f.by = "warm"
    /\ warmTodo' = Tail(warmTodo)
    /\ \/ UNCHANGED <<exists, alive, fresh>>                 \* createWarm failed
       \/ c \in Free /\ Created(Head(warmTodo), c, "warm")
    /\ UNCHANGED <<backend, strays, warm, keyOrder, closed, pending, creating, removing,
                   request, phase, orphans, otherVars>>

(***************************************************************************)
(* The removals, each a call whose error is ignored.                       *)
(***************************************************************************)
Removed(c) == exists' = exists \ {c} /\ alive' = alive \ {c} /\ strays' = strays \ {c}

RemovalLost(c) ==
    /\ sandboxFaults < MaxSandboxFaults /\ sandboxFaults' = sandboxFaults + 1
    /\ strays' = strays \cup ({c} \cap exists) /\ UNCHANGED <<exists, alive>>

Remove(c) ==
    /\ Running /\ c \in removing
    /\ removing' = removing \ {c}
    /\ \/ Removed(c) /\ UNCHANGED sandboxFaults
       \/ RemovalLost(c)
    /\ UNCHANGED <<backend, warm, keyOrder, closed, pending, creating, warmTodo, fresh,
                   request, phase, orphans, listed>>

----------------------------------------------------------------------------
(***************************************************************************)
(* Acquire: take the head of the slot, touch the key and replenish; an     *)
(* empty slot is a cold start.  A pod is looked at after the unlock, and a *)
(* dead one is deleted and the next one tried.                             *)
(***************************************************************************)
Replenishes(k) == pending' = [pending EXCEPT ![k] = @ + 1]
MayReplenish(k) == pending[k] + creating[k] < MaxReplenish

TakesHead(k) ==
    /\ warm' = [warm EXCEPT ![k] = Tail(@)]
    /\ keyOrder' = TouchKey(k)

Holds(r, at, k, c) == request' = [request EXCEPT ![r] = [at |-> at, key |-> k, id |-> c]]
Misses(r, k) == request' = [request EXCEPT ![r] = [at |-> "create", key |-> k]]

Acquire(r, k) ==
    /\ phase = "serving" /\ request[r] = Idle /\ backend = "docker"
    /\ MayReplenish(k) /\ Replenishes(k)
    /\ IF Slot(k) = <<>>
       THEN Misses(r, k) /\ UNCHANGED <<warm, keyOrder>>
       ELSE TakesHead(k) /\ Holds(r, "attach", k, Head(Slot(k)))
    /\ UNCHANGED <<backend, daemonVars, closed, creating, warmTodo, fresh, removing,
                   phase, orphans, otherVars>>

AcquirePod(r, k) ==
    /\ backend = "k3s"
    /\ \/ phase = "serving" /\ request[r] = Idle
       \/ Running /\ request[r] = [at |-> "acquire", key |-> k]
    /\ IF Slot(k) = <<>>
       THEN /\ MayReplenish(k) /\ Replenishes(k)
            /\ Misses(r, k) /\ UNCHANGED <<warm, keyOrder>>
       ELSE TakesHead(k) /\ Holds(r, "check", k, Head(Slot(k))) /\ UNCHANGED pending
    /\ UNCHANGED <<backend, daemonVars, closed, creating, warmTodo, fresh, removing,
                   phase, orphans, otherVars>>

CheckPod(r) ==
    /\ Running /\ request[r].at = "check"
    /\ LET k == request[r].key
       IN /\ MayReplenish(k) /\ Replenishes(k)
          /\ IF request[r].id \in alive
             THEN request' = [request EXCEPT ![r].at = "attach"] /\ UNCHANGED removing
             ELSE /\ removing' = removing \cup {request[r].id}
                  /\ request' = [request EXCEPT ![r] = [at |-> "acquire", key |-> k]]
    /\ UNCHANGED <<backend, daemonVars, warm, keyOrder, closed, creating, warmTodo, fresh,
                   phase, orphans, otherVars>>

ColdStart(r, c) ==
    /\ Running /\ request[r].at = "create"
    /\ \/ /\ c \in Free
          /\ exists' = exists \cup {c} /\ alive' = alive \cup {c}
          /\ Holds(r, "attach", request[r].key, c)
       \/ request' = [request EXCEPT ![r] = Idle] /\ UNCHANGED <<exists, alive>>
    /\ UNCHANGED <<backend, strays, poolVars, phase, orphans, otherVars>>

(***************************************************************************)
(* Attach, start and write the payload; then wait.  Run waits for the end, *)
(* its timeout or the daemon's error and kills.  StreamRun under docker    *)
(* copies the output to its end before the timeout starts to count, so it  *)
(* leaves only once the program has ended (or its container has).          *)
(***************************************************************************)
Waits == [at : {"wait"}, id : Containers, streamed : BOOLEAN, endless : BOOLEAN]
Leaves(r) == request' = [request EXCEPT ![r] = [at |-> "leave", id |-> @.id]]

Attach(r) ==
    /\ Running /\ request[r].at = "attach"
    /\ \/ /\ request[r].id \in alive
          /\ \E w \in Waits : w.id = request[r].id /\ request' = [request EXCEPT ![r] = w]
       \/ Leaves(r)
    /\ UNCHANGED <<backend, daemonVars, poolVars, phase, orphans, otherVars>>

ProgramEnds(r) == ~request[r].endless \/ request[r].id \notin alive
StdCopied(r) == ProgramEnds(r)
TimesOutNever(r) == Running /\ request[r].at = "idle"
TimesOut(r) == Running /\ request[r].at = "wait"

Waited(r) ==
    /\ Running /\ request[r] \in Waits /\ Leaves(r)
    /\ UNCHANGED <<backend, daemonVars, poolVars, phase, orphans, otherVars>>

Run(r) ==
    /\ Waited(r) /\ ~request[r].streamed
    /\ ProgramEnds(r) \/ TimesOut(r)

StreamRun(r) ==
    /\ Waited(r) /\ request[r].streamed /\ backend = "docker"
    /\ StdCopied(r) /\ (ProgramEnds(r) \/ TimesOut(r))

StreamPod(r) ==
    /\ Waited(r) /\ request[r].streamed /\ backend = "k3s"
    /\ ProgramEnds(r) \/ TimesOut(r)

Release(r) ==
    /\ Running /\ request[r].at = "leave"
    /\ request' = [request EXCEPT ![r] = Idle]
    /\ \/ Removed(request[r].id) /\ UNCHANGED sandboxFaults
       \/ RemovalLost(request[r].id)
    /\ UNCHANGED <<backend, poolVars, phase, orphans, listed>>

----------------------------------------------------------------------------
(***************************************************************************)
(* A start lists every sandbox container and removes what it listed, then  *)
(* makes a pool and warms it.  The list has no owner in it: a start of     *)
(* another process lists the containers of this one.                       *)
(***************************************************************************)
StartProcess ==
    /\ phase = "down"
    /\ phase' = "cleaning" /\ orphans' = exists
    /\ UNCHANGED <<backend, daemonVars, poolVars, request, otherVars>>

CleanupOrphans(c) ==
    /\ phase = "cleaning" /\ c \in orphans
    /\ orphans' = orphans \ {c}
    /\ \/ Removed(c) /\ UNCHANGED sandboxFaults
       \/ RemovalLost(c)
    /\ UNCHANGED <<backend, poolVars, request, phase, listed>>

NewPool ==
    /\ phase = "cleaning" /\ orphans = {}
    /\ phase' = "serving" /\ warmTodo' = DefaultKeys
    /\ closed' = FALSE
    /\ UNCHANGED <<backend, daemonVars, warm, keyOrder, pending, creating, fresh, removing,
                   request, orphans, otherVars>>

OtherStarts ==
    /\ Running /\ listed = {} /\ exists # {} /\ sandboxFaults < MaxSandboxFaults
    /\ listed' = exists /\ sandboxFaults' = sandboxFaults + 1
    /\ UNCHANGED <<backend, daemonVars, poolVars, request, phase, orphans>>

OtherCleans(c) ==
    /\ c \in listed
    /\ listed' = listed \ {c}
    /\ Removed(c)
    /\ UNCHANGED <<backend, poolVars, request, phase, orphans, sandboxFaults>>

(***************************************************************************)
(* An idle pod can die under the pool: evicted, out of memory, a node      *)
(* restarted.                                                              *)
(***************************************************************************)
PodDies(c) ==
    /\ backend = "k3s" /\ c \in alive \cap Pooled /\ sandboxFaults < MaxSandboxFaults
    /\ sandboxFaults' = sandboxFaults + 1
    /\ alive' = alive \ {c}
    /\ UNCHANGED <<backend, exists, strays, poolVars, request, phase, orphans, listed>>

(***************************************************************************)
(* Close empties the pool under its lock, and removes what was in it; what *)
(* the other goroutines hold when the process exits is left to the next    *)
(* start, and so is everything when it is killed.                          *)
(***************************************************************************)
ClosePool ==
    /\ phase = "serving"
    /\ phase' = "closing" /\ closed' = TRUE
    /\ warm' = <<>> /\ keyOrder' = <<>>
    /\ removing' = removing \cup Pooled
    /\ UNCHANGED <<backend, daemonVars, pending, creating, warmTodo, fresh,
                   request, orphans, otherVars>>

Gone ==
    /\ phase' = "down" /\ closed' = FALSE
    /\ warm' = <<>> /\ keyOrder' = <<>> /\ warmTodo' = <<>> /\ fresh' = {} /\ removing' = {}
    /\ pending' = [k \in Keys |-> 0] /\ creating' = [k \in Keys |-> 0]
    /\ request' = [r \in Requests |-> Idle]
    /\ strays' = exists /\ orphans' = {}
    /\ UNCHANGED <<backend, exists, alive, listed>>

Exit == phase = "closing" /\ Gone /\ UNCHANGED sandboxFaults

Killed ==
    /\ phase # "down" /\ sandboxFaults < MaxSandboxFaults
    /\ sandboxFaults' = sandboxFaults + 1
    /\ Gone

----------------------------------------------------------------------------
Replenishment ==
    \/ \E k \in Keys : ReplenishChecks(k)
    \/ \E k \in Keys, c \in Containers : CreateWarm(k, c) \/ CreateWarmFails(k, c)
    \/ \E f \in fresh : PodReady(f) \/ Replenish(f)
    \/ \E c \in Containers : Warm(c) \/ Remove(c)

Requested(r) ==
    \/ \E k \in Keys : Acquire(r, k) \/ AcquirePod(r, k)
    \/ CheckPod(r)
    \/ \E c \in Containers : ColdStart(r, c)

Served(r) == Attach(r) \/ Run(r) \/ StreamRun(r) \/ StreamPod(r) \/ Release(r)

Lifecycle ==
    \/ StartProcess \/ NewPool \/ ClosePool \/ Exit \/ Killed \/ OtherStarts
    \/ \E c \in Containers : CleanupOrphans(c) \/ OtherCleans(c) \/ PodDies(c)

SandboxNext ==
    \/ Replenishment \/ Lifecycle
    \/ \E r \in Requests : Requested(r) \/ Served(r)

SandboxSpec == SandboxInit /\ [][SandboxNext]_sandboxVars

----------------------------------------------------------------------------
(***************************************************************************)
(* A container has one owner: it is in one place of the pool, or held by   *)
(* one goroutine; and one the daemon still holds while this process runs   *)
(* has an owner, unless an answer, a removal or Warm's own refusal lost it *)
(* (then only a later start finds it).                                     *)
(***************************************************************************)
Places(c) ==
    Cardinality({p \in Keys \X (1..MaxWarm) : p[2] \in DOMAIN Slot(p[1]) /\ Slot(p[1])[p[2]] = c})
    + Cardinality({f \in fresh : f.id = c})
    + Cardinality({x \in removing : x = c})
    + Cardinality({r \in Requests : request[r].at \in {"check", "attach", "wait", "leave"}
                                    /\ request[r].id = c})

OneOwner ==
    /\ \A c \in Containers : Places(c) <= 1
    /\ Running => \A c \in exists \ strays : Places(c) = 1

(***************************************************************************)
(* However many replenishments overlap with evictions and with Close, no   *)
(* slot and no pool outgrows its limit, the eviction order lists exactly   *)
(* the keys of the pool, and a closed pool stays empty.                    *)
(***************************************************************************)
PoolBounded ==
    /\ \A k \in DOMAIN warm : Len(warm[k]) <= MaxWarm
    /\ Cardinality(DOMAIN warm) <= MaxKeys
    /\ Elements(keyOrder) = DOMAIN warm /\ Len(keyOrder) = Cardinality(DOMAIN warm)
    /\ closed => warm = <<>>

\* A container is neither lost nor shared, and the pool keeps to its limits.
PoolSound == OneOwner /\ PoolBounded

(***************************************************************************)
(* A request leaves its container, whatever the program does, unless it    *)
(* streams an endless program from docker.                                 *)
(***************************************************************************)
RequestsLeave ==
    \A r \in Requests :
       (request[r] \in Waits /\ ~(backend = "docker" /\ request[r].streamed /\ request[r].endless))
          ~> request[r] = Idle
============================================================================
