------------------------------- MODULE ToolFan -------------------------------
(***************************************************************************)
(* One call of fan_out by an agent: the catalog of tools the agent was     *)
(* given (internal/workflow/agent.go, buildAgentToolCatalog), the calls    *)
(* that fan_out makes of it side by side (agent_tools.go), and the gates   *)
(* of the nodes behind them, which wait on what the run has only one of:   *)
(* its continueCh, its approval channel, its pending_approval.             *)
(*                                                                         *)
(* A tool is its name; arguments fit its schema or do not.  What a node    *)
(* does is left out.  Breakpoints, cancellation, the gap between the tee's *)
(* flag and its token, and orphaned decisions are in LiveGate.             *)
(***************************************************************************)
EXTENDS Integers, Sequences, FiniteSets

CONSTANTS
  FanAgents,        \* agents: [edges, skills, allowed]: the tool edges (sequence of
                    \* [node, name, optedIn]), the skill tools (sequence of names)
                    \* and data.allowed_tools (set, empty: open)
  FanNodes,         \* nodes of the workflow
  FanGated,         \* nodes with require_node_approval
  Schemaless,       \* tools without a schema that compiles
  FanRequests,      \* what the model may ask: sequences of [tool, fits]
  AskedInFlight,    \* the parallelism it may ask for
  NoTool,           \* the empty name
  MaxFanClicks, MaxVerdicts    \* bounds

ASSUME FanInputs ==
    /\ AskedInFlight \subseteq Int
    /\ \A calls \in FanRequests : Len(calls) \in Nat /\ DOMAIN calls = 1 .. Len(calls)

FanModes == {"live", "block", "yield"}

VARIABLES
  fan,              \* the call of fan_out: agent, calls, parallelism, mode, next, returned
  callAt,           \* call -> its stage
  result,           \* call -> what fan_out reports of it
  open, entry,      \* subscriptions of the gates; the one the registry knows (0: none)
  inbox,            \* call -> decisions its subscription received
  refused,          \* call -> oobRejected
  tokens,           \* continueCh
  shownCall,        \* the call whose gate pending_approval shows (0: none)
  fanSent,          \* clicks and decisions made
  trail,            \* node -> step_start sent; step_done sent and step recorded
  toolsRun          \* history: calls whose tool ran

gatesOfFan == <<open, entry, inbox, refused, tokens, shownCall>>
fanVars == <<fan, callAt, result, gatesOfFan, fanSent, trail, toolsRun>>

FanCalls == DOMAIN fan.calls
ToolOf(i) == fan.calls[i].tool

----------------------------------------------------------------------------
(***************************************************************************)
(* The catalog: built-ins, then skill tools, then the nodes that opted in. *)
(* Add drops a name it has already; FilterAllowed drops what the agent may *)
(* not call, handler included.                                             *)
(***************************************************************************)
NoNode == "none"
BuiltIn(name) == [name |-> name, node |-> NoNode]
OptedIn(edge) == edge.node \in FanNodes /\ edge.optedIn

Offered(agent) ==
    <<BuiltIn("code_execute"), BuiltIn("fan_out")>>
    \o [k \in DOMAIN agent.skills |-> BuiltIn(agent.skills[k])]
    \o SelectSeq(agent.edges, OptedIn)

Added(agent) ==
    {k \in DOMAIN Offered(agent) :
        \A j \in 1 .. k - 1 : Offered(agent)[j].name # Offered(agent)[k].name}

FilterDefs(agent, name) == TRUE      \* an altered FilterAllowed: it keeps the handlers
FilterAllowed(agent, name) == agent.allowed = {} \/ name \in agent.allowed

Catalog(agent) ==
    {Offered(agent)[k] : k \in {j \in Added(agent) : FilterAllowed(agent, Offered(agent)[j].name)}}

(***************************************************************************)
(* toolNameToNodeID is made before the filter.                             *)
(***************************************************************************)
NodeOf(agent, name) ==
    LET named == {k \in Added(agent) : Offered(agent)[k].name = name}
    IN  IF named = {} THEN NoNode ELSE Offered(agent)[CHOOSE k \in named : TRUE].node

Node(i) == NodeOf(fan.agent, ToolOf(i))
Known(i) == \E tool \in Catalog(fan.agent) : tool.name = ToolOf(i)
Valid(i) == fan.calls[i].fits \/ ToolOf(i) \in Schemaless
Gates(i) == Known(i) /\ Node(i) \in FanGated

Parallelism(asked) ==
    IF asked <= 0 THEN 5 ELSE IF asked > 10 THEN 10 ELSE asked

FanInit ==
    /\ \E agent \in FanAgents, calls \in FanRequests, asked \in AskedInFlight, mode \in FanModes :
          fan = [agent |-> agent, calls |-> calls, parallelism |-> Parallelism(asked),
                 mode |-> mode, next |-> 1, returned |-> FALSE]
    /\ callAt = [i \in FanCalls |-> "waiting"]
    /\ result = [i \in FanCalls |-> "none"]
    /\ open = {} /\ entry = 0 /\ tokens = 0 /\ shownCall = 0
    /\ inbox = [i \in FanCalls |-> <<>>] /\ refused = [i \in FanCalls |-> FALSE]
    /\ fanSent = [clicks |-> 0, verdicts |-> 0, approvals |-> 0]
    /\ trail = [n \in FanNodes |-> [starts |-> 0, dones |-> 0]]
    /\ toolsRun = {}

----------------------------------------------------------------------------
(***************************************************************************)
(* The calls are started in order, each when a slot is free.               *)
(***************************************************************************)
Executing == {i \in FanCalls : callAt[i] \notin {"waiting", "returned"}}
CallGoes(i, stage) == callAt' = [callAt EXCEPT ![i] = stage]
Reports(i, outcome) == CallGoes(i, "returned") /\ result' = [result EXCEPT ![i] = outcome]

Launch ==
    /\ fan.next \in FanCalls /\ Cardinality(Executing) < fan.parallelism
    /\ fan' = [fan EXCEPT !.next = @ + 1]
    /\ CallGoes(fan.next, "execute")
    /\ UNCHANGED <<result, gatesOfFan, fanSent, trail, toolsRun>>

(***************************************************************************)
(* Execute.  An unknown name and arguments that do not fit end the call    *)
(* before its handler; for the latter fan_out itself leaves the step of    *)
(* the node.  A gate opens in the way the run was started.                 *)
(***************************************************************************)
StepStarted == [starts |-> 1, dones |-> 0]
StepDone == [starts |-> 0, dones |-> 1]
Synthetic == [starts |-> 1, dones |-> 1]
Recorded(n, step) ==
    trail' = IF n \notin FanNodes THEN trail
             ELSE [trail EXCEPT ![n] = [starts |-> @.starts + step.starts,
                                        dones |-> @.dones + step.dones]]

Refuse(i) ==
    /\ callAt[i] = "execute" /\ (ToolOf(i) = NoTool \/ ~Known(i))
    /\ Reports(i, "error")
    /\ UNCHANGED <<fan, gatesOfFan, fanSent, trail, toolsRun>>

Misfit(i) ==
    /\ callAt[i] = "execute" /\ ToolOf(i) # NoTool /\ Known(i) /\ ~Valid(i)
    /\ Reports(i, "error") /\ Recorded(Node(i), Synthetic)
    /\ UNCHANGED <<fan, gatesOfFan, fanSent, toolsRun>>

Admit(i) ==
    /\ callAt[i] = "execute" /\ ToolOf(i) # NoTool /\ Known(i) /\ Valid(i)
    /\ CallGoes(i, IF ~Gates(i) THEN "start" ELSE IF fan.mode = "block" THEN "register" ELSE "mirror")
    /\ UNCHANGED <<fan, result, gatesOfFan, fanSent, trail, toolsRun>>

(***************************************************************************)
(* preExecApproval: without a channel the gate is shown and the yield      *)
(* returned as an error, which fan_out takes for the result of the call.   *)
(* Else the gate is shown and subscribed (waitNodeApproval: the other way  *)
(* around); the registry keeps one entry for a run.                        *)
(***************************************************************************)
PersistMirror(i) ==
    /\ callAt[i] = "mirror"
    /\ shownCall' = i
    /\ IF fan.mode = "yield" THEN Reports(i, "yield")
       ELSE CallGoes(i, IF fan.mode = "live" THEN "register" ELSE "paused") /\ UNCHANGED result
    /\ UNCHANGED <<fan, open, entry, inbox, refused, tokens, fanSent, trail, toolsRun>>

SubscribeFor(i) ==
    /\ callAt[i] = "register"
    /\ CallGoes(i, IF fan.mode = "live" THEN "paused" ELSE "mirror")
    /\ open' = open \cup {i} /\ entry' = i
    /\ UNCHANGED <<fan, result, inbox, refused, tokens, shownCall, fanSent, trail, toolsRun>>

(***************************************************************************)
(* A live gate's tee makes a token of a decision; the wait takes one and   *)
(* drains the others.  A blocking gate reads its decision itself.          *)
(***************************************************************************)
Receives(i) == inbox[i] # <<>> /\ inbox' = [inbox EXCEPT ![i] = Tail(@)]

Tee(i) ==
    /\ fan.mode = "live" /\ callAt[i] = "paused" /\ Receives(i)
    /\ refused' = [refused EXCEPT ![i] = @ \/ ~Head(inbox[i])]
    /\ tokens' = tokens + 1
    /\ UNCHANGED <<fan, callAt, result, open, entry, shownCall, fanSent, trail, toolsRun>>

UnsubscribeEntry ==
    /\ open' = open \ {entry} /\ entry' = 0

WaitAtGateOf(i) ==
    /\ callAt[i] = "paused" /\ shownCall' = 0 /\ UnsubscribeEntry
    /\ IF fan.mode = "live"
       THEN /\ tokens > 0 /\ tokens' = 0 /\ UNCHANGED <<inbox, refused, trail>>
            /\ IF refused[i] THEN Reports(i, "error") ELSE CallGoes(i, "start") /\ UNCHANGED result
       ELSE /\ Receives(i) /\ UNCHANGED <<refused, tokens>>
            /\ IF Head(inbox[i]) THEN CallGoes(i, "start") /\ UNCHANGED <<result, trail>>
               ELSE Reports(i, "error") /\ Recorded(Node(i), Synthetic)
    /\ UNCHANGED <<fan, fanSent, toolsRun>>

(***************************************************************************)
(* The tool runs; a failure is its own, and stops none of the others.      *)
(***************************************************************************)
StartTool(i) ==
    /\ callAt[i] = "start" /\ CallGoes(i, "running")
    /\ Recorded(Node(i), StepStarted) /\ toolsRun' = toolsRun \cup {i}
    /\ UNCHANGED <<fan, result, gatesOfFan, fanSent>>

EndTool(i) ==
    /\ callAt[i] = "running"
    /\ Reports(i, "output") \/ Reports(i, "error")
    /\ Recorded(Node(i), StepDone)
    /\ UNCHANGED <<fan, gatesOfFan, fanSent, toolsRun>>

ReturnFan ==
    /\ ~fan.returned /\ fan.next \notin FanCalls /\ Executing = {}
    /\ fan' = [fan EXCEPT !.returned = TRUE]
    /\ UNCHANGED <<callAt, result, gatesOfFan, fanSent, trail, toolsRun>>

(***************************************************************************)
(* The people: Continue on the canvas, or a decision on the gate shown,    *)
(* which every subscription of the run receives.                           *)
(***************************************************************************)
ClickContinue ==
    /\ fan.mode = "live" /\ fanSent.clicks < MaxFanClicks
    /\ tokens' = tokens + 1
    /\ fanSent' = [fanSent EXCEPT !.clicks = @ + 1, !.approvals = @ + 1]
    /\ UNCHANGED <<fan, callAt, result, open, entry, inbox, refused, shownCall, trail, toolsRun>>

SubmitVerdict(approved) ==
    /\ shownCall # 0 /\ open # {} /\ fanSent.verdicts < MaxVerdicts
    /\ inbox' = [i \in FanCalls |-> IF i \in open THEN Append(inbox[i], approved) ELSE inbox[i]]
    /\ fanSent' = [fanSent EXCEPT !.verdicts = @ + 1,
                                  !.approvals = IF approved THEN @ + 1 ELSE @]
    /\ UNCHANGED <<fan, callAt, result, open, entry, refused, tokens, shownCall, trail, toolsRun>>

FanNext ==
    \/ Launch \/ ReturnFan \/ ClickContinue
    \/ \E approved \in BOOLEAN : SubmitVerdict(approved)
    \/ \E i \in FanCalls :
          \/ Refuse(i) \/ Misfit(i) \/ Admit(i) \/ PersistMirror(i) \/ SubscribeFor(i)
          \/ Tee(i) \/ WaitAtGateOf(i) \/ StartTool(i) \/ EndTool(i)

FanSpec == FanInit /\ [][FanNext]_fanVars

----------------------------------------------------------------------------
(***************************************************************************)
(* fan_out keeps what the agent may do and what it is told: it never runs  *)
(* more tools at once than it may, nor a tool outside allowed_tools or     *)
(* with arguments that do not fit; when it returns nothing is still        *)
(* running, every call has its result, and every step_start of a node has  *)
(* its step_done and its recorded step.                                    *)
(***************************************************************************)
FanSound ==
    /\ Cardinality(Executing) <= fan.parallelism
    /\ \A i \in toolsRun :
          /\ Valid(i)
          /\ fan.agent.allowed # {} => ToolOf(i) \in fan.agent.allowed
    /\ fan.returned =>
          /\ \A i \in FanCalls : callAt[i] = "returned" /\ result[i] # "none"
          /\ \A n \in FanNodes : trail[n].starts = trail[n].dones

(***************************************************************************)
(* agent_tools.go: in fan_out "cycle / depth / output_transform / approval *)
(* all carry through unchanged".  So a gate would take a click or an       *)
(* approval of its own.                                                    *)
(***************************************************************************)
ApprovalCarries ==
    Cardinality({i \in toolsRun : Gates(i)}) <= fanSent.approvals
=============================================================================
