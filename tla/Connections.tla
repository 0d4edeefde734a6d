---------------------------- MODULE Connections ----------------------------
(***************************************************************************)
(* One connection of a tenant: its record, the handlers that edit it, and  *)
(* the clients that each process keeps for it (ConnectionResolver).  A     *)
(* resolver looks in its cache under the mutex, and loads, dials, pings    *)
(* and stores outside of it or in another critical section.  The handlers  *)
(* invalidate the cache of their own process only.                         *)
(***************************************************************************)
EXTENDS Integers, Sequences, FiniteSets

CONSTANTS
  Processes,        \* each with a resolver of its own
  ApiProcess,              \* the one that serves the handlers
  Steps,            \* nodes that resolve the connection
  Editors,          \* requests that save or delete it
  MaxEdits,         \* bound: saves and deletions
  MaxClients        \* bound: clients dialled

ASSUME ApiProcessIsOne == ApiProcess \in Processes

VARIABLES
  record,           \* the stored config, 0 when there is none
  edits,            \* saves and deletions so far
  editor,           \* request -> where it stands
  client,           \* client -> [process, config, open], in order of dialling
  cached,           \* process -> client in its cache, 0 without one
  step,             \* node -> where its Resolve stands
  outrun,           \* history: clients stored after an edit they had not loaded, or
                    \* cached when an edit landed that its request took for failed
  displaced         \* history: clients another one took the place of

connectionVars == <<record, edits, editor, client, cached, step, outrun, displaced>>

Dialled == DOMAIN client
NoClient == 0
AtRest == [at |-> "idle"]

ConnectionsInit ==
    /\ record = 0 /\ edits = 0
    /\ editor = [e \in Editors |-> "idle"]
    /\ client = <<>>
    /\ cached = [p \in Processes |-> NoClient]
    /\ step = [s \in Steps |-> AtRest]
    /\ outrun = {} /\ displaced = {}

----------------------------------------------------------------------------
(***************************************************************************)
(* Resolve: a hit is the cached client.  A miss loads the record, dials    *)
(* and pings, and stores the client over whatever the cache holds by then. *)
(***************************************************************************)
ResolveHit(s, p) ==
    /\ step[s] = AtRest /\ cached[p] # NoClient
    /\ step' = [step EXCEPT ![s] = [at |-> "use", process |-> p, client |-> cached[p]]]
    /\ UNCHANGED <<record, edits, editor, client, cached, outrun, displaced>>

ResolveMiss(s, p) ==
    /\ step[s] = AtRest /\ cached[p] = NoClient
    /\ step' = [step EXCEPT ![s] = [at |-> "load", process |-> p]]
    /\ UNCHANGED <<record, edits, editor, client, cached, outrun, displaced>>

LoadConnection(s) ==
    /\ step[s].at = "load"
    /\ step' = [step EXCEPT ![s] =
                  IF record = 0 THEN AtRest     \* not found: the node fails
                  ELSE [at |-> "dial", process |-> @.process, config |-> record]]
    /\ UNCHANGED <<record, edits, editor, client, cached, outrun, displaced>>

Dial(s) ==
    /\ step[s].at = "dial" /\ Len(client) < MaxClients
    /\ client' = Append(client, [process |-> step[s].process, config |-> step[s].config,
                                 open |-> TRUE])
    /\ step' = [step EXCEPT ![s] = [at |-> "store", process |-> @.process,
                                    client |-> Len(client) + 1]]
    /\ UNCHANGED <<record, edits, editor, cached, outrun, displaced>>

DialFails(s) ==      \* or the ping: the client is closed, the node fails
    /\ step[s].at = "dial"
    /\ step' = [step EXCEPT ![s] = AtRest]
    /\ UNCHANGED <<record, edits, editor, client, cached, outrun, displaced>>

StoreClient(s) ==
    /\ step[s].at = "store"
    /\ LET p == step[s].process
           c == step[s].client
       IN /\ cached' = [cached EXCEPT ![p] = c]
          /\ displaced' = displaced \cup ({cached[p]} \ {NoClient})
          /\ outrun' = IF client[c].config # record THEN outrun \cup {c} ELSE outrun
    /\ step' = [step EXCEPT ![s].at = "use"]
    /\ UNCHANGED <<record, edits, editor, client>>

StepEnds(s) ==
    /\ step[s].at = "use"
    /\ step' = [step EXCEPT ![s] = AtRest]
    /\ UNCHANGED <<record, edits, editor, client, cached, outrun, displaced>>

----------------------------------------------------------------------------
(***************************************************************************)
(* UpsertConnection and DeleteConnection, of the tenant that owns the id:  *)
(* the write, then Invalidate.  A request may end between the two: when    *)
(* the process dies, and then the cache is gone with it (ProcessRestarts), *)
(* or when the write landed and its answer was lost.                       *)
(***************************************************************************)
ForgetsCache == "idle"
AfterWrite == "invalidate"

UpsertConnection(e) ==
    /\ editor[e] = "idle" /\ edits < MaxEdits
    /\ edits' = edits + 1 /\ record' = edits + 1
    /\ editor' = [editor EXCEPT ![e] = AfterWrite]
    /\ UNCHANGED <<client, cached, step, outrun, displaced>>

DeleteConnection(e) ==
    /\ editor[e] = "idle" /\ edits < MaxEdits /\ record # 0
    /\ edits' = edits + 1 /\ record' = 0
    /\ editor' = [editor EXCEPT ![e] = AfterWrite]
    /\ UNCHANGED <<client, cached, step, outrun, displaced>>

Dropped(c) == client
Disconnected(c) == IF c = NoClient THEN client ELSE [client EXCEPT ![c].open = FALSE]

Invalidate(e) ==
    /\ editor[e] = "invalidate"
    /\ client' = Disconnected(cached[ApiProcess])
    /\ cached' = [cached EXCEPT ![ApiProcess] = NoClient]
    /\ editor' = [editor EXCEPT ![e] = "idle"]
    /\ UNCHANGED <<record, edits, step, outrun, displaced>>

EditLandsUnanswered(e) ==    \* the handler answers 500 and leaves the cache
    /\ editor[e] = "invalidate"
    /\ editor' = [editor EXCEPT ![e] = "idle"]
    /\ outrun' = outrun \cup {c \in Dialled : cached[ApiProcess] = c
                                             /\ client[c].config # record}
    /\ UNCHANGED <<record, edits, client, cached, step, displaced>>

(***************************************************************************)
(* A process ends (here, once it has something to lose): its resolver      *)
(* closes what it caches, and its other sockets go with it.                *)
(***************************************************************************)
ProcessRestarts(p) ==
    /\ cached[p] # NoClient
    /\ client' = [c \in Dialled |-> IF client[c].process = p
                                    THEN [client[c] EXCEPT !.open = FALSE] ELSE client[c]]
    /\ cached' = [cached EXCEPT ![p] = NoClient]
    /\ step' = [s \in Steps |-> IF step[s] # AtRest /\ step[s].process = p THEN AtRest
                                ELSE step[s]]
    /\ editor' = IF p = ApiProcess THEN [e \in Editors |-> "idle"] ELSE editor
    /\ UNCHANGED <<record, edits, outrun, displaced>>

ConnectionsNext ==
    \/ \E s \in Steps :
          \/ \E p \in Processes : ResolveHit(s, p) \/ ResolveMiss(s, p)
          \/ LoadConnection(s) \/ Dial(s) \/ DialFails(s) \/ StoreClient(s) \/ StepEnds(s)
    \/ \E e \in Editors : UpsertConnection(e) \/ DeleteConnection(e) \/ Invalidate(e)
                           \/ EditLandsUnanswered(e)
    \/ \E p \in Processes : ProcessRestarts(p)

ConnectionsSpec == ConnectionsInit /\ [][ConnectionsNext]_connectionVars

----------------------------------------------------------------------------
(***************************************************************************)
(* In the process that serves the handlers, an edit reaches the next       *)
(* Resolve: its cache shows an older config only while the edit has not    *)
(* invalidated yet, through a client that was being dialled meanwhile, or  *)
(* when the answer of the write was lost and nothing was invalidated.      *)
(* (Of the other processes nothing of the kind holds: none invalidates.)   *)
(***************************************************************************)
EditReachesApi ==
    LET c == cached[ApiProcess]
    IN c # NoClient /\ client[c].config # record =>
          c \in outrun \/ \E e \in Editors : editor[e] = "invalidate"

(***************************************************************************)
(* No client is forgotten open: one that is neither cached nor in the      *)
(* hands of a node was displaced, by a miss that overlapped another.       *)
(***************************************************************************)
NoClientForgotten ==
    \A c \in Dialled : client[c].open =>
        \/ c \in displaced
        \/ \E p \in Processes : cached[p] = c
        \/ \E s \in Steps : step[s].at = "store" /\ step[s].client = c

\* What a process keeps of a connection: it is current, and it can be closed.
CacheSound == EditReachesApi /\ NoClientForgotten
============================================================================
