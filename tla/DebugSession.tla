---------------------------- MODULE DebugSession ----------------------------
(***************************************************************************)
(* A debug session of the sandbox: the handler that owns the browser's     *)
(* WebSocket, the container it starts on a port of the allocator, the      *)
(* client of the debug adapter (DAP for Python, CDP for JavaScript) and    *)
(* the goroutines between them.                                            *)
(*                                                                         *)
(* The handler is one goroutine (session[s].at), the client's readLoop a   *)
(* second, the relay of events to the browser a third, and every pause of  *)
(* the program starts one more, which asks for stack and variables before  *)
(* it emits the event.  They share two channels: events, which readLoop    *)
(* closes, and done, which Close closes and, in the CDP client, readLoop   *)
(* too.  A send on a closed channel and a second close end the process.    *)
(***************************************************************************)
EXTENDS Integers, Sequences, FiniteSets

CONSTANTS
  Sessions,        \* browser connections
  Ports,           \* the allocator's range
  EventBuffer,     \* capacity of the channel of events
  MaxRetries,      \* attempts to reach the adapter
  MaxPauses,       \* bound: pauses whose goroutine is under way
  MaxDebugFaults   \* bound: failed calls to the daemon

VARIABLES
  adapterKind,     \* "dap" or "cdp"
  debugBackend,    \* "docker" or "k3s"
  session,         \* the handler: where it is, its port and its retries
  usedPorts,       \* the allocator
  boundPorts,      \* ports of containers the daemon could not remove
  adapter,         \* "none", "up", "initialized", "running", "paused", "gone"
  reader,          \* readLoop: "none", "reads", "ends", "closes", "ended"
  holding,         \* the event readLoop is about to put on the channel
  done, eventsClosed, events,
  pauses,          \* goroutines of handleStoppedEvent: "asks" or "emits"
  relay,           \* "none", "relays", "ended"
  browser,         \* the WebSocket: "open" or "closed"
  panicked,        \* the process is gone
  debugFaults

clientVars == <<reader, holding, done, eventsClosed, events, pauses, relay>>
portVars == <<usedPorts, boundPorts>>
debugVars == <<adapterKind, debugBackend, session, portVars, adapter, clientVars, browser,
               panicked, debugFaults>>
kinds == <<adapterKind, debugBackend>>

Off == [at |-> "idle"]
At(s) == ~panicked /\ session[s] # Off
Goes(s, at) == session' = [session EXCEPT ![s].at = at]
Fault == debugFaults < MaxDebugFaults /\ debugFaults' = debugFaults + 1

DebugInit ==
    /\ adapterKind \in {"dap", "cdp"} /\ debugBackend \in {"docker", "k3s"}
    /\ session = [s \in Sessions |-> Off]
    /\ usedPorts = {} /\ boundPorts = {}
    /\ adapter = [s \in Sessions |-> "none"]
    /\ reader = [s \in Sessions |-> "none"]
    /\ holding = [s \in Sessions |-> "nothing"]
    /\ done = [s \in Sessions |-> FALSE] /\ eventsClosed = [s \in Sessions |-> FALSE]
    /\ events = [s \in Sessions |-> <<>>]
    /\ pauses = [s \in Sessions |-> [asks |-> 0, emits |-> 0]]
    /\ relay = [s \in Sessions |-> "none"]
    /\ browser = [s \in Sessions |-> "closed"]
    /\ panicked = FALSE /\ debugFaults = 0

----------------------------------------------------------------------------
(***************************************************************************)
(* StartDebug: a port, a container, its attachment and start (and under    *)
(* k3s the forwarded port), then the entry in the table of sessions.  A    *)
(* step that fails undoes what was done.                                   *)
(***************************************************************************)
IsPortFree(p) == p \notin boundPorts

AcquirePort(s, p) ==
    /\ ~panicked /\ session[s] = Off
    /\ p \notin usedPorts /\ IsPortFree(p)
    /\ usedPorts' = usedPorts \cup {p}
    /\ session' = [session EXCEPT ![s] = [at |-> "create", port |-> p, tries |-> 0]]
    /\ browser' = [browser EXCEPT ![s] = "open"]
    /\ UNCHANGED <<kinds, boundPorts, adapter, clientVars, panicked, debugFaults>>

ReleasePort(s) == usedPorts' = usedPorts \ {session[s].port}

GivesUp(s) ==
    /\ ReleasePort(s)
    /\ session' = [session EXCEPT ![s] = Off]
    /\ browser' = [browser EXCEPT ![s] = "closed"]
    /\ adapter' = [adapter EXCEPT ![s] = "none"]

CreateDebug(s) ==
    /\ At(s) /\ session[s].at = "create"
    /\ \/ Goes(s, "attach") /\ UNCHANGED <<usedPorts, adapter, browser, debugFaults>>
       \/ Fault /\ GivesUp(s)
    /\ UNCHANGED <<kinds, boundPorts, clientVars, panicked>>

AttachDebug(s) ==
    /\ At(s) /\ session[s].at = "attach"
    /\ \/ /\ Goes(s, IF debugBackend = "k3s" THEN "forward" ELSE "connect")
          /\ adapter' = [adapter EXCEPT ![s] = "up"]
          /\ UNCHANGED <<usedPorts, browser, debugFaults>>
       \/ Fault /\ GivesUp(s)
    /\ UNCHANGED <<kinds, boundPorts, clientVars, panicked>>

StartPortForward(s) ==
    /\ At(s) /\ session[s].at = "forward"
    /\ \/ Goes(s, "connect") /\ UNCHANGED <<usedPorts, adapter, browser, debugFaults>>
       \/ Fault /\ GivesUp(s)
    /\ UNCHANGED <<kinds, boundPorts, clientVars, panicked>>

(***************************************************************************)
(* StopDebug, deferred by the handler: kill and remove, whose errors are   *)
(* ignored, then the port is free again.                                   *)
(***************************************************************************)
StopDebug(s) ==
    /\ At(s) /\ session[s].at = "stop"
    /\ GivesUp(s)
    /\ \/ UNCHANGED <<boundPorts, debugFaults>>
       \/ Fault /\ boundPorts' = boundPorts \cup {session[s].port}
    /\ UNCHANGED <<kinds, clientVars, panicked>>

----------------------------------------------------------------------------
(***************************************************************************)
(* connectAndProxy: dial until the adapter answers, initialize, start, and *)
(* then read the browser's commands.  A request to the adapter waits for   *)
(* its response, its timeout or done; readLoop hands responses over while  *)
(* it reads.                                                               *)
(***************************************************************************)
Answers(s) == adapter[s] # "gone" /\ reader[s] = "reads" /\ holding[s] = "nothing"

NewClient(s) ==
    /\ reader' = [reader EXCEPT ![s] = "reads"]
    /\ done' = [done EXCEPT ![s] = FALSE]
    /\ eventsClosed' = [eventsClosed EXCEPT ![s] = FALSE]
    /\ events' = [events EXCEPT ![s] = <<>>]
    /\ relay' = [relay EXCEPT ![s] = "none"]

Settled(s) == reader[s] \in {"none", "ended"} /\ relay[s] # "relays"
              /\ pauses[s] = [asks |-> 0, emits |-> 0]

Connect(s) ==
    /\ At(s) /\ session[s].at = "connect" /\ Settled(s)
    /\ \/ adapter[s] = "up" /\ NewClient(s) /\ Goes(s, "initialize")
       \/ /\ session[s].tries < MaxRetries
          /\ session' = [session EXCEPT ![s].tries = @ + 1]
          /\ UNCHANGED <<reader, done, eventsClosed, events, relay>>
       \/ /\ session[s].tries = MaxRetries /\ Goes(s, "stop")
          /\ UNCHANGED <<reader, done, eventsClosed, events, relay>>
    /\ UNCHANGED <<kinds, portVars, adapter, holding, pauses, browser, panicked, debugFaults>>

(***************************************************************************)
(* Initialize; the first breakpoints may fail without stopping the         *)
(* session, so nothing depends on them here.                               *)
(***************************************************************************)
Initialized(s) ==
    /\ At(s) /\ session[s].at = "initialize"
    /\ \/ Answers(s) /\ Goes(s, "start")
       \/ Goes(s, "close")
    /\ UNCHANGED <<kinds, portVars, adapter, clientVars, browser, panicked, debugFaults>>

Initialize(s) == adapterKind = "dap" /\ Initialized(s)
Enable(s) == adapterKind = "cdp" /\ Initialized(s)

(***************************************************************************)
(* dapProxy.Start: attach, wait for the initialized event, breakpoints,    *)
(* configurationDone.  cdpProxy.Start: let the program run to its first    *)
(* pause, taking events off the channel until it sees that one, and resume *)
(* it; after ten seconds go on without.                                    *)
(***************************************************************************)
StartsRelay(s) == Goes(s, "relay") /\ relay' = [relay EXCEPT ![s] = "relays"]

StartDAP(s) ==
    /\ At(s) /\ session[s].at = "start" /\ adapterKind = "dap"
    /\ \/ /\ adapter[s] = "initialized" /\ Answers(s)
          /\ adapter' = [adapter EXCEPT ![s] = "running"] /\ StartsRelay(s)
       \/ Goes(s, "close") /\ UNCHANGED <<adapter, relay>>
    /\ UNCHANGED <<kinds, portVars, reader, holding, done, eventsClosed, events, pauses, browser,
                   panicked, debugFaults>>

StartCDP(s) ==
    /\ At(s) /\ session[s].at = "start" /\ adapterKind = "cdp"
    /\ \/ /\ adapter[s] = "up" /\ Answers(s)
          /\ adapter' = [adapter EXCEPT ![s] = "running"] /\ Goes(s, "first pause")
       \/ Goes(s, "close") /\ UNCHANGED adapter
    /\ UNCHANGED <<kinds, portVars, clientVars, browser, panicked, debugFaults>>

TakesEvent(s) == events' = [events EXCEPT ![s] = Tail(@)]

FirstPause(s) ==
    /\ At(s) /\ session[s].at = "first pause"
    /\ \/ /\ events[s] # <<>> /\ Head(events[s]) = "stopped" /\ TakesEvent(s)
          /\ \/ /\ Answers(s) /\ StartsRelay(s)
                /\ adapter' = [adapter EXCEPT ![s] = IF @ = "paused" THEN "running" ELSE @]
             \/ Goes(s, "close") /\ UNCHANGED <<adapter, relay>>
       \/ /\ events[s] # <<>> /\ Head(events[s]) # "stopped" /\ TakesEvent(s)
          /\ UNCHANGED <<session, adapter, relay>>
       \/ /\ events[s] = <<>> /\ eventsClosed[s] /\ Goes(s, "close")
          /\ UNCHANGED <<events, adapter, relay>>
       \/ /\ events[s] = <<>> /\ ~eventsClosed[s] /\ StartsRelay(s)      \* ten seconds
          /\ UNCHANGED <<events, adapter>>
    /\ UNCHANGED <<kinds, portVars, reader, holding, done, eventsClosed, pauses, browser,
                   panicked, debugFaults>>

(***************************************************************************)
(* The handler's loop over the browser's messages: a command lets a paused *)
(* program run on; a disconnect or a closed WebSocket ends the loop.       *)
(***************************************************************************)
Commands(s) == At(s) /\ session[s].at = "relay" /\ browser[s] = "open"

Resumes(s) ==
    /\ adapter[s] = "paused" /\ adapter' = [adapter EXCEPT ![s] = "running"]
    /\ UNCHANGED <<kinds, portVars, session, clientVars, browser, panicked, debugFaults>>

Continue(s) == Commands(s) /\ adapterKind = "dap" /\ Resumes(s)
Resume(s) == Commands(s) /\ adapterKind = "cdp" /\ Answers(s) /\ Resumes(s)

Disconnect(s) ==
    /\ Commands(s) /\ Goes(s, "close")
    /\ UNCHANGED <<kinds, portVars, adapter, clientVars, browser, panicked, debugFaults>>

LoopEnds(s) ==
    /\ At(s) /\ session[s].at = "relay" /\ browser[s] = "closed"
    /\ Goes(s, "close")
    /\ UNCHANGED <<kinds, portVars, adapter, clientVars, browser, panicked, debugFaults>>

BrowserLeaves(s) ==
    /\ At(s) /\ browser[s] = "open"
    /\ browser' = [browser EXCEPT ![s] = "closed"]
    /\ UNCHANGED <<kinds, portVars, session, adapter, clientVars, panicked, debugFaults>>

(***************************************************************************)
(* Close looks whether done is closed, and closes it: two steps.           *)
(***************************************************************************)
ChecksDone(s) ==
    /\ At(s) /\ session[s].at = "close"
    /\ Goes(s, IF done[s] THEN "stop" ELSE "close done")
    /\ UNCHANGED <<kinds, portVars, adapter, clientVars, browser, panicked, debugFaults>>

ClosesDone(s) ==
    /\ panicked' = done[s]
    /\ done' = [done EXCEPT ![s] = TRUE]

Close(s) ==
    /\ At(s) /\ session[s].at = "close done"
    /\ ClosesDone(s) /\ Goes(s, "stop")
    /\ UNCHANGED <<kinds, portVars, adapter, reader, holding, eventsClosed, events, pauses, relay,
                   browser, debugFaults>>

----------------------------------------------------------------------------
(***************************************************************************)
(* The adapter: it is initialized, runs and pauses; its program ends with  *)
(* a message, or it is gone without one.  readLoop reads one message at a  *)
(* time and none while it holds an event the channel has no room for.      *)
(***************************************************************************)
Reads(s) == ~panicked /\ reader[s] = "reads" /\ holding[s] = "nothing"

AdapterInitialized(s) ==
    /\ Reads(s) /\ adapterKind = "dap" /\ adapter[s] = "up" /\ session[s] # Off
    /\ session[s].at = "start"
    /\ adapter' = [adapter EXCEPT ![s] = "initialized"]
    /\ UNCHANGED <<kinds, portVars, session, clientVars, browser, panicked, debugFaults>>

Pauses(s) ==
    /\ Reads(s) /\ adapter[s] = "running" /\ pauses[s].asks + pauses[s].emits < MaxPauses
    /\ adapter' = [adapter EXCEPT ![s] = "paused"]
    /\ pauses' = [pauses EXCEPT ![s].asks = @ + 1]
    /\ UNCHANGED <<kinds, portVars, session, reader, holding, done, eventsClosed, events, relay,
                   browser, panicked, debugFaults>>

Receives(s) ==
    /\ Reads(s)
    /\ holding' = [holding EXCEPT ![s] = "output"]
    /\ UNCHANGED <<kinds, portVars, session, adapter, reader, done, eventsClosed, events, pauses,
                   relay, browser, panicked, debugFaults>>

Outputs(s) == adapter[s] = "running" /\ Receives(s)

(***************************************************************************)
(* A response nobody waits for (an evaluated expression) becomes an event. *)
(***************************************************************************)
Evaluated(s) == At(s) /\ session[s].at = "relay" /\ adapter[s] = "paused" /\ Receives(s)

HandleResponse(s) == adapterKind = "dap" /\ Evaluated(s)
HandleCDPResponse(s) == adapterKind = "cdp" /\ Evaluated(s)

Terminates(s) ==
    /\ Reads(s) /\ adapter[s] \in {"running", "paused"}
    /\ adapter' = [adapter EXCEPT ![s] = "gone"]
    /\ holding' = [holding EXCEPT ![s] = "terminated"]
    /\ UNCHANGED <<kinds, portVars, session, reader, done, eventsClosed, events, pauses,
                   relay, browser, panicked, debugFaults>>

AdapterCrashes(s) ==
    /\ ~panicked /\ adapter[s] \in {"up", "initialized", "running", "paused"}
    /\ adapter' = [adapter EXCEPT ![s] = "gone"]
    /\ UNCHANGED <<kinds, portVars, session, clientVars, browser, panicked, debugFaults>>

(***************************************************************************)
(* handleEvent puts the event on the channel unless done is closed.        *)
(***************************************************************************)
HasRoom(s) == ~eventsClosed[s] /\ Len(events[s]) < EventBuffer
Puts(s, e) == events' = [events EXCEPT ![s] = Append(@, e)]

Handled(s) ==
    /\ ~panicked /\ holding[s] # "nothing"
    /\ \/ HasRoom(s) /\ Puts(s, holding[s])
       \/ done[s] /\ UNCHANGED events
    /\ holding' = [holding EXCEPT ![s] = "nothing"]
    /\ UNCHANGED <<kinds, portVars, session, adapter, reader, done, eventsClosed, pauses, relay,
                   browser, panicked, debugFaults>>

HandleEvent(s) == adapterKind = "dap" /\ Handled(s)
HandleCDPEvent(s) == adapterKind = "cdp" /\ Handled(s)

(***************************************************************************)
(* The end of readLoop.  DAP closes events; CDP first closes done, with    *)
(* the same two steps as Close, and then events.                           *)
(***************************************************************************)
ReadFails(s) == Reads(s) /\ (adapter[s] \in {"gone", "none"} \/ done[s])

ReadLoopEnds(s, at) ==
    /\ ReadFails(s)
    /\ reader' = [reader EXCEPT ![s] = at]
    /\ UNCHANGED <<kinds, portVars, session, adapter, holding, done, eventsClosed, events, pauses,
                   relay, browser, panicked, debugFaults>>

ReadLoop(s) == adapterKind = "dap" /\ ReadLoopEnds(s, "ends")
ReadLoopCDP(s) ==
    adapterKind = "cdp" /\ ReadLoopEnds(s, IF done[s] THEN "ends" ELSE "closes done")

ReaderClosesDone(s) ==
    /\ ~panicked /\ reader[s] = "closes done"
    /\ ClosesDone(s)
    /\ reader' = [reader EXCEPT ![s] = "ends"]
    /\ UNCHANGED <<kinds, portVars, session, adapter, holding, eventsClosed, events, pauses,
                   relay, browser, debugFaults>>

ReaderEnds(s) ==
    /\ ~panicked /\ reader[s] = "ends"
    /\ reader' = [reader EXCEPT ![s] = "ended"]
    /\ eventsClosed' = [eventsClosed EXCEPT ![s] = TRUE]
    /\ UNCHANGED <<kinds, portVars, session, adapter, holding, done, events, pauses,
                   relay, browser, panicked, debugFaults>>

(***************************************************************************)
(* handleStoppedEvent and handlePausedEvent: ask for the stack and the     *)
(* variables (answered, timed out or closed), then a select between the    *)
(* send and done.  A send on a closed channel is a ready case of it.       *)
(***************************************************************************)
PauseAsked(s) ==
    /\ ~panicked /\ pauses[s].asks > 0
    /\ pauses' = [pauses EXCEPT ![s] = [asks |-> @.asks - 1, emits |-> @.emits + 1]]
    /\ UNCHANGED <<kinds, portVars, session, adapter, reader, holding, done, eventsClosed, events,
                   relay, browser, panicked, debugFaults>>

PauseEmitted(s) ==
    /\ ~panicked /\ pauses[s].emits > 0
    /\ pauses' = [pauses EXCEPT ![s].emits = @ - 1]
    /\ \/ HasRoom(s) /\ Puts(s, "stopped") /\ UNCHANGED panicked
       \/ eventsClosed[s] /\ panicked' = TRUE /\ UNCHANGED events
       \/ done[s] /\ UNCHANGED <<events, panicked>>
    /\ UNCHANGED <<kinds, portVars, session, adapter, reader, holding, done, eventsClosed,
                   relay, browser, debugFaults>>

HandleStoppedEvent(s) == adapterKind = "dap" /\ (PauseAsked(s) \/ PauseEmitted(s))
HandlePausedEvent(s) == adapterKind = "cdp" /\ (PauseAsked(s) \/ PauseEmitted(s))

(***************************************************************************)
(* The relay: events to the browser until "terminated" or the end of the   *)
(* channel, and then the browser's WebSocket is closed, which ends the     *)
(* handler's loop.                                                         *)
(***************************************************************************)
HangsUp(s) ==
    /\ relay' = [relay EXCEPT ![s] = "ended"]
    /\ browser' = [browser EXCEPT ![s] = "closed"]

ChannelEndsUnseen(s) ==
    eventsClosed[s] /\ relay' = [relay EXCEPT ![s] = "ended"] /\ UNCHANGED browser
ChannelEnds(s) == eventsClosed[s] /\ HangsUp(s)

Relay(s) ==
    /\ ~panicked /\ relay[s] = "relays"
    /\ \/ /\ events[s] # <<>> /\ TakesEvent(s)
          /\ IF Head(events[s]) = "terminated" THEN HangsUp(s) ELSE UNCHANGED <<relay, browser>>
       \/ events[s] = <<>> /\ ChannelEnds(s) /\ UNCHANGED events
    /\ UNCHANGED <<kinds, portVars, session, adapter, reader, holding, done, eventsClosed, pauses,
                   panicked, debugFaults>>

HandlerStep(s) ==
    \/ CreateDebug(s) \/ AttachDebug(s) \/ StartPortForward(s) \/ StopDebug(s)
    \/ Connect(s) \/ Initialize(s) \/ Enable(s) \/ StartDAP(s) \/ StartCDP(s) \/ FirstPause(s)
    \/ LoopEnds(s) \/ ChecksDone(s) \/ Close(s)

ClientStep(s) ==
    \/ HandleEvent(s) \/ HandleCDPEvent(s) \/ ReadLoop(s) \/ ReadLoopCDP(s)
    \/ ReaderClosesDone(s) \/ ReaderEnds(s) \/ HandleStoppedEvent(s) \/ HandlePausedEvent(s)

AdapterStep(s) ==
    \/ AdapterInitialized(s) \/ Pauses(s) \/ Outputs(s) \/ HandleResponse(s)
    \/ HandleCDPResponse(s) \/ Terminates(s) \/ AdapterCrashes(s)

UserStep(s) == Continue(s) \/ Resume(s) \/ Disconnect(s) \/ BrowserLeaves(s)

----------------------------------------------------------------------------
(***************************************************************************)
(* A session whose adapter is gone ends: the browser is told, the          *)
(* container removed and the port free, unless the process went down.      *)
(***************************************************************************)
SessionsEnd == \A s \in Sessions : adapter[s] = "gone" ~> (session[s] = Off \/ panicked)

(***************************************************************************)
(* "Adapter crashed - notify browser": the process survives every order of *)
(* the ends of a session.                                                  *)
(***************************************************************************)
ProcessSurvives == ~panicked
=============================================================================
