----------------------------- MODULE AgentLoop -----------------------------
(***************************************************************************)
(* The AI agents of one run: the loop of runAIAgent (internal/workflow/    *)
(* agent.go), its per-call approval gate, the gate of a tool's own node,   *)
(* the snapshot an agent leaves on the run when it yields, and how the     *)
(* next pass takes it up again.                                            *)
(*                                                                         *)
(* Abstractions.  The workflow is a chain of steps, each an agent node or  *)
(* a for_each over items whose body is one.  Prompts, messages, arguments, *)
(* results and costs are left out: a turn of the model is the sequence of  *)
(* the tools it calls, a call is known by its turn and its place there.    *)
(* A database read and the write it leads to are one step, and one worker  *)
(* at a time runs the run: WorkflowRun takes both apart.  A worker has the *)
(* control bridge, so the gate of a tool's node waits in its process.      *)
(***************************************************************************)
EXTENDS Naturals, Sequences, FiniteSets

CONSTANTS
    Agents,
    Plan,         \* the steps: records [agent, items], items = 0 for no loop
    Guarded,      \* agents with require_approval
    Structured,   \* agents with an output_schema
    Continues,    \* agents with on_error: continue
    Tools,
    NodeGated,    \* tools whose node has require_node_approval
    Recoverable,  \* tools whose node has on_error: continue
    Final,        \* submit_final_answer
    MaxIters,     \* max_iterations
    MaxCalls,     \* max_tool_calls_per_iter
    None,
    MaxTurns, MaxCrashes, MaxFaults, MaxDecisions     \* bounds

Steps == 1 .. Len(Plan)
Turns == 1 .. MaxTurns
Calls == Turns \X (1 .. MaxCalls)
Verdicts == {"approved", "rejected"}
AllTools == Tools \cup {Final}

ASSUME PlanAssumption ==
    Plan \in Seq([agent: Agents, items: Nat])
ASSUME AgentBoundsAssumption ==
    /\ MaxIters \in Nat \ {0} /\ MaxCalls \in Nat \ {0} /\ MaxTurns \in Nat
    /\ MaxCrashes \in Nat /\ MaxFaults \in Nat /\ MaxDecisions \in Nat
ASSUME FinalAssumption == Final \notin Tools
\* A step is a node of the graph, and a pass visits a node once.
ASSUME NodesAssumption ==
    \A s, t \in Steps : Plan[s].agent = Plan[t].agent => s = t

(***************************************************************************)
(* What is kept: the gate the UI shows (PendingApproval), the gate a yield *)
(* left in execution_state (Pending), and the agent's snapshot             *)
(* (AgentPauseState): where it was in its turn, and the approvals given in *)
(* this turn, by the name of the tool.                                     *)
(***************************************************************************)
Approvals == [AllTools -> Verdicts \cup {None}]
Unasked == [tool \in AllTools |-> None]

TurnsTaken == UNION {[1 .. n -> AllTools] : n \in 1 .. MaxCalls}

ShownGates == [kind: {"tool_call", "node"}, call: Calls, tool: AllTools]
Pendings == [call: Calls, tool: AllTools, decision: Verdicts \cup {None}]
Snapshots ==
    [agent: Agents, iter: 0 .. MaxIters, turn: Turns, calls: TurnsTaken,
     next: 1 .. MaxCalls, approved: Approvals]

ASSUME NoneAssumption ==
    /\ None \notin Verdicts /\ None \notin Pendings
    /\ None \notin ShownGates /\ None \notin Snapshots

VARIABLES
    run,      \* the run document
    pc,       \* where its worker is, "idle" if there is none
    me,       \* the memory of the pass (runEnv and runAIAgent)
    turns,    \* turns the models took
    ran,      \* history: how often each call was executed
    asked,    \* history: how often a person was asked about each call
    verdict,  \* history: the last verdict on the gate of each call
    used      \* how much of each bound is spent; lost: passes cut off by a
              \* decision; astray: a gate and its shown image came apart

vars == <<run, pc, me, turns, ran, asked, verdict, used>>
ghosts == <<ran, asked, verdict>>

Idle == [at |-> 1, item |-> 0, resume |-> None, iter |-> 0, turn |-> 0,
         calls |-> <<>>, next |-> 1, approved |-> Unasked,
         answered |-> FALSE, outcome |-> "success", failed |-> FALSE]

Init ==
    /\ run = [status |-> "queued", lease |-> "none", at |-> 0, pending |-> None,
              gate |-> None, paused |-> None]
    /\ pc = "idle"
    /\ me = Idle
    /\ turns = 0
    /\ ran = [c \in Calls |-> 0]
    /\ asked = [c \in Calls |-> 0]
    /\ verdict = [c \in Calls |-> None]
    /\ used = [crashes |-> 0, faults |-> 0, decisions |-> 0, lost |-> 0,
               astray |-> FALSE]

Fault == used.faults < MaxFaults

Agent == Plan[me.at].agent
Tool == me.calls[me.next]
Call == <<me.turn, me.next>>
InLoop == Plan[me.at].items > 0

\* The pass is over; whoever claims the run starts from the document.
Leave ==
    /\ pc' = "idle"
    /\ me' = Idle

-----------------------------------------------------------------------------
(***************************************************************************)
(* A pass.  at = 0 on the document: there is no checkpoint yet.            *)
(***************************************************************************)
\* Mistake: the lease of a dead worker counts for ever.
ClaimableUnleased ==
    /\ run.status \in {"queued", "running"}
    /\ run.lease = "none"

Claimable ==
    /\ run.status \in {"queued", "running"}
    /\ run.lease = "none" \/ (run.lease = "lapsed" /\ run.at > 0)

\* A decision recorded in the checkpoint answers for the tool's name.
Hydrated(pending) ==
    IF pending # None /\ pending.decision # None
    THEN [Unasked EXCEPT ![pending.tool] = pending.decision]
    ELSE Unasked

Claim ==
    /\ pc = "idle"
    /\ Claimable
    /\ run' = [run EXCEPT !.status = "running", !.lease = "held"]
    /\ pc' = "step"
    /\ me' = [Idle EXCEPT !.at = IF run.at = 0 THEN 1 ELSE run.at,
                          !.resume = run.paused,
                          !.approved = Hydrated(run.pending)]
    /\ UNCHANGED <<turns, ghosts, used>>

\* A run whose worker died before any checkpoint is given up.
Sweep ==
    /\ run.status \in {"running", "pending_approval"}
    /\ run.lease = "lapsed"
    /\ run.at = 0
    /\ run' = [run EXCEPT !.status = "error", !.gate = None, !.paused = None]
    /\ UNCHANGED <<pc, me, turns, ghosts, used>>

\* What the snapshot says was decided, unless decided since.
Merged(snapshot) ==
    [tool \in AllTools |->
        IF me.approved[tool] # None THEN me.approved[tool]
                                    ELSE snapshot.approved[tool]]

\* Mistakes: the turn is dispatched from its first call; the approvals of the
\* snapshot are not taken over.
ResumeTurnFromFirst(snapshot) ==
    [me EXCEPT !.iter = snapshot.iter, !.turn = snapshot.turn,
               !.calls = snapshot.calls, !.next = 1,
               !.approved = Merged(snapshot), !.answered = FALSE]

ResumeTurnUnapproved(snapshot) ==
    [me EXCEPT !.iter = snapshot.iter, !.turn = snapshot.turn,
               !.calls = snapshot.calls, !.next = snapshot.next,
               !.approved = Unasked, !.answered = FALSE]

ResumeTurn(snapshot) ==
    [me EXCEPT !.iter = snapshot.iter, !.turn = snapshot.turn,
               !.calls = snapshot.calls, !.next = snapshot.next,
               !.approved = Merged(snapshot), !.answered = FALSE]

Enter ==
    /\ pc = "step"
    /\ me.at \in Steps
    /\ IF me.resume # None /\ me.resume.agent = Agent
       THEN me' = ResumeTurn(me.resume) /\ pc' = "dispatch"
       ELSE me' = [me EXCEPT !.iter = 0, !.answered = FALSE] /\ pc' = "think"
    /\ UNCHANGED <<run, turns, ghosts, used>>

-----------------------------------------------------------------------------
(***************************************************************************)
(* The loop: the model is asked ...                                        *)
(***************************************************************************)
Return(outcome) ==
    /\ pc' = "left"
    /\ me' = [me EXCEPT !.outcome = outcome]

\* ... and calls tools,
Think ==
    /\ pc = "think"
    /\ me.iter < MaxIters
    /\ turns < MaxTurns
    /\ turns' = turns + 1
    /\ \E calls \in TurnsTaken :
          /\ Agent \notin Structured => \A i \in DOMAIN calls : calls[i] # Final
          /\ me' = [me EXCEPT !.turn = turns + 1, !.calls = calls, !.next = 1]
    /\ pc' = "dispatch"
    /\ UNCHANGED <<run, ghosts, used>>

\* or answers; where the answer must be a call, it is asked again.
Answer ==
    /\ pc = "think"
    /\ me.iter < MaxIters
    /\ IF Agent \in Structured
       THEN me' = [me EXCEPT !.iter = @ + 1] /\ UNCHANGED pc
       ELSE Return("success")
    /\ UNCHANGED <<run, turns, ghosts, used>>

\* The provider fails, or the iterations are used up.
NoAnswer ==
    /\ pc = "think"
    /\ Return("error")
    /\ UNCHANGED <<run, turns, ghosts, used>>

\* Mistake: the approvals outlive the turn.
TurnOverSticky == me

TurnOver == [me EXCEPT !.approved = Unasked]

\* All calls of the turn are done.
EndTurn ==
    /\ pc = "dispatch"
    /\ me.next > Len(me.calls)
    /\ IF me.answered
       THEN Return("success")
       ELSE me' = [TurnOver EXCEPT !.iter = @ + 1] /\ pc' = "think"
    /\ UNCHANGED <<run, turns, ghosts, used>>

-----------------------------------------------------------------------------
(***************************************************************************)
(* The gate of the agent: a call by a guarded agent needs an approval of   *)
(* its tool in this turn.  Without one the pass yields.                    *)
(***************************************************************************)
AtCall == pc = "dispatch" /\ me.next <= Len(me.calls)
Rejected == Agent \in Guarded /\ me.approved[Tool] = "rejected"
Needed == Agent \in Guarded /\ me.approved[Tool] = None

RejectCall ==
    /\ AtCall
    /\ Rejected
    /\ Return("error")
    /\ UNCHANGED <<run, turns, ghosts, used>>

Shown(kind) == [kind |-> kind, call |-> Call, tool |-> Tool]

\* Mistakes: the snapshot points behind the call that waits, or behind the turn.
SnapshotPastCall ==
    [agent |-> Agent, iter |-> me.iter, turn |-> me.turn, calls |-> me.calls,
     next |-> IF me.next < Len(me.calls) THEN me.next + 1 ELSE me.next,
     approved |-> me.approved]

Snapshot ==
    [agent |-> Agent, iter |-> me.iter, turn |-> me.turn, calls |-> me.calls,
     next |-> me.next, approved |-> me.approved]

Mirror ==
    /\ AtCall
    /\ Needed
    /\ run' = [run EXCEPT !.status = "pending_approval",
                          !.gate = Shown("tool_call"), !.paused = Snapshot]
    /\ asked' = [asked EXCEPT ![Call] = @ + 1]
    /\ pc' = "yield"
    /\ UNCHANGED <<me, turns, ran, verdict, used>>

\* A mirror that cannot be written is only logged.
MirrorFails ==
    /\ AtCall
    /\ Needed
    /\ Fault
    /\ used' = [used EXCEPT !.faults = @ + 1, !.astray = TRUE]
    /\ pc' = "yield"
    /\ UNCHANGED <<run, me, turns, ghosts>>

\* The step is queued again and the lease given up; a pass that has lost its
\* lease leaves.
Yield ==
    /\ pc = "yield"
    /\ ~InLoop
    /\ Leave
    /\ run' = IF run.lease = "held"
              THEN [run EXCEPT !.status = "pending_approval", !.at = me.at,
                               !.pending = [call |-> Call, tool |-> Tool,
                                            decision |-> None],
                               !.lease = "none"]
              ELSE run
    /\ UNCHANGED <<turns, ghosts, used>>

\* The checkpoint of the yield fails: the pass ends with that error, written
\* as the end of the run unless the mirror already shows the gate.
YieldFails ==
    /\ pc = "yield"
    /\ ~InLoop
    /\ run.lease = "held"
    /\ Fault
    /\ used' = [used EXCEPT !.faults = @ + 1]
    /\ Leave
    /\ run' = IF run.status = "pending_approval"
              THEN [run EXCEPT !.lease = "none"]
              ELSE [run EXCEPT !.status = "error", !.at = 0, !.pending = None,
                               !.gate = None, !.paused = None, !.lease = "none"]
    /\ UNCHANGED <<turns, ghosts>>

\* The body of a for_each takes the yield for an error of its node.
YieldInLoop ==
    /\ pc = "yield"
    /\ InLoop
    /\ Return("error")
    /\ UNCHANGED <<run, turns, ghosts, used>>

-----------------------------------------------------------------------------
(***************************************************************************)
(* The gate of the tool's node: the pass waits for a click on the canvas,  *)
(* or a decision passed to it out of band.                                 *)
(***************************************************************************)
Permitted == Agent \in Guarded => me.approved[Tool] = "approved"

OpenNodeGate ==
    /\ AtCall
    /\ Permitted
    /\ Tool \in NodeGated
    /\ run' = [run EXCEPT !.status = "pending_approval", !.gate = Shown("node")]
    /\ pc' = "gate"
    /\ UNCHANGED <<me, turns, ghosts, used>>

CloseGate == run' = [run EXCEPT !.status = "running", !.gate = None]

\* An answer to the model, or the end of the agent.
ToolFailed ==
    IF Tool \in Recoverable
    THEN me' = [me EXCEPT !.next = @ + 1] /\ pc' = "dispatch"
    ELSE Return("error")

Click ==
    /\ pc = "gate"
    /\ CloseGate
    /\ pc' = "call"
    /\ UNCHANGED <<me, turns, ghosts, used>>

\* The call is made; submit_final_answer ends the loop with this turn.
Execute ==
    /\ \/ AtCall /\ Permitted /\ Tool \notin NodeGated
       \/ pc = "call"
    /\ ran' = [ran EXCEPT ![Call] = @ + 1]
    /\ \/ ToolFailed
       \/ /\ me' = [me EXCEPT !.next = @ + 1, !.answered = @ \/ Tool = Final]
          /\ pc' = "dispatch"
    /\ UNCHANGED <<run, turns, asked, verdict, used>>

-----------------------------------------------------------------------------
(***************************************************************************)
(* The agent returned: the next item of a loop, or the end of the step.    *)
(***************************************************************************)
Fatal == me.outcome = "error" /\ Agent \notin Continues

NextItem ==
    /\ pc = "left"
    /\ InLoop
    /\ ~Fatal
    /\ me.item + 1 < Plan[me.at].items
    /\ me' = [me EXCEPT !.item = @ + 1]
    /\ pc' = "step"
    /\ UNCHANGED <<run, turns, ghosts, used>>

\* A step that failed has no success edge to follow.
EndStep ==
    /\ pc = "left"
    /\ Fatal \/ me.item + 1 >= Plan[me.at].items
    /\ me' = [me EXCEPT !.at = IF Fatal THEN Len(Plan) + 1 ELSE @ + 1,
                        !.item = 0, !.failed = @ \/ Fatal]
    /\ pc' = "saving"
    /\ UNCHANGED <<run, turns, ghosts, used>>

Checkpoint ==
    /\ pc = "saving"
    /\ IF run.lease = "held"
       THEN /\ run' = [run EXCEPT !.at = me.at, !.pending = None]
            /\ pc' = "step"
            /\ UNCHANGED me
       ELSE Leave /\ UNCHANGED run
    /\ UNCHANGED <<turns, ghosts, used>>

CheckpointFails ==
    /\ pc = "saving"
    /\ run.lease = "held"
    /\ Fault
    /\ used' = [used EXCEPT !.faults = @ + 1]
    /\ pc' = "step"
    /\ UNCHANGED <<run, me, turns, ghosts>>

\* The queue is empty.  A run that shows a gate by now is taken for one that
\* yielded; else its end is written, lease or not.
Finish ==
    /\ pc = "step"
    /\ me.at \notin Steps
    /\ Leave
    /\ run' =
         LET lease == IF run.lease = "held" THEN "none" ELSE run.lease
         IN  IF run.status = "pending_approval"
             THEN [run EXCEPT !.lease = lease]
             ELSE [status |-> IF me.failed THEN "error" ELSE "success",
                   lease |-> lease, at |-> 0, pending |-> None, gate |-> None,
                   paused |-> None]
    /\ UNCHANGED <<turns, ghosts, used>>

-----------------------------------------------------------------------------
(***************************************************************************)
(* People decide about the gate they are shown; the handler passes the     *)
(* decision to the checkpoint, to the pass that listens, or gives the run  *)
(* up as orphaned.                                                         *)
(***************************************************************************)
Decision(v) ==
    /\ run.status = "pending_approval"
    /\ run.gate # None
    /\ used.decisions < MaxDecisions
    /\ verdict' = IF run.gate.kind = "tool_call"
                  THEN [verdict EXCEPT ![run.gate.call] = v]
                  ELSE verdict

DecideYielded(v) ==
    /\ Decision(v)
    /\ run.pending # None
    /\ run' = [run EXCEPT !.pending.decision = v, !.status = "running",
                          !.lease = "none"]
    /\ used' = [used EXCEPT !.decisions = @ + 1,
                            !.lost = IF pc = "idle" THEN @ ELSE @ + 1,
                            !.astray = @ \/ run.gate.call # run.pending.call]
    /\ UNCHANGED <<pc, me, turns, ran, asked>>

DecideListening(v) ==
    /\ Decision(v)
    /\ run.pending = None
    /\ pc = "gate"
    /\ CloseGate
    /\ IF v = "approved" THEN pc' = "call" /\ UNCHANGED me ELSE ToolFailed
    /\ used' = [used EXCEPT !.decisions = @ + 1]
    /\ UNCHANGED <<turns, ran, asked>>

DecideOrphan(v) ==
    /\ Decision(v)
    /\ run.pending = None
    /\ pc # "gate"
    /\ run' = [run EXCEPT !.status = "error", !.gate = None]
    /\ used' = [used EXCEPT !.decisions = @ + 1]
    /\ UNCHANGED <<pc, me, turns, ran, asked>>

\* The worker dies and its lease lapses.
Crash ==
    /\ pc # "idle"
    /\ used.crashes < MaxCrashes
    /\ used' = [used EXCEPT !.crashes = @ + 1]
    /\ run' = IF run.lease = "held" THEN [run EXCEPT !.lease = "lapsed"] ELSE run
    /\ Leave
    /\ UNCHANGED <<turns, ghosts>>

\* The heartbeat finds the lease gone and cancels the pass.
Cancelled ==
    /\ pc # "idle"
    /\ run.lease # "held"
    /\ Leave
    /\ UNCHANGED <<run, turns, ghosts, used>>

-----------------------------------------------------------------------------
Work ==
    \/ Claim \/ Sweep \/ Enter
    \/ Think \/ Answer \/ NoAnswer \/ EndTurn
    \/ RejectCall \/ Mirror \/ Yield \/ YieldInLoop
    \/ OpenNodeGate \/ Execute
    \/ NextItem \/ EndStep \/ Checkpoint \/ Finish \/ Cancelled

Decide == \E v \in Verdicts : DecideYielded(v) \/ DecideListening(v) \/ DecideOrphan(v)

Next ==
    \/ Work
    \/ MirrorFails \/ YieldFails \/ CheckpointFails
    \/ Click
    \/ Decide
    \/ Crash

Spec == Init /\ [][Next]_vars

\* The worker goes on, claims are attempted at every tick, the sweep runs on a
\* ticker; people and faults get no fairness.
FairSpec == Spec /\ WF_vars(Work)
-----------------------------------------------------------------------------
(***************************************************************************)
(* Type invariant.                                                         *)
(***************************************************************************)
Documents ==
    [status: {"queued", "running", "pending_approval", "success", "error"},
     lease: {"none", "held", "lapsed"}, at: 0 .. Len(Plan) + 1,
     pending: Pendings \cup {None}, gate: ShownGates \cup {None},
     paused: Snapshots \cup {None}]

Passes ==
    [at: 1 .. Len(Plan) + 1, item: Nat, resume: Snapshots \cup {None},
     iter: 0 .. MaxIters, turn: 0 .. MaxTurns, calls: TurnsTaken \cup {<<>>},
     next: 1 .. MaxCalls + 1, approved: Approvals, answered: BOOLEAN,
     outcome: {"success", "error"}, failed: BOOLEAN]

Budgets == [crashes: Nat, faults: Nat, decisions: Nat, lost: Nat, astray: BOOLEAN]

TypeOK ==
    /\ run \in Documents
    /\ pc \in {"idle", "step", "think", "dispatch", "yield", "gate", "call",
              "left", "saving"}
    /\ me \in Passes
    /\ turns \in 0 .. MaxTurns
    /\ ran \in [Calls -> Nat] /\ asked \in [Calls -> Nat]
    /\ verdict \in [Calls -> Verdicts \cup {None}]
    /\ used \in Budgets

\* What may have been cut off in the middle, to be done again.
Setbacks == used.crashes + used.faults + used.lost

\* A call of a guarded agent is executed only if a person approved the gate of
\* that tool in that turn: the approvals that outlive a yield (by name, in the
\* checkpoint and in the snapshot) do not outlive the turn they were given in.
RunsOnlyApproved ==
    [][ran' # ran /\ Agent \in Guarded /\ ~used.astray =>
         \E i \in DOMAIN me.calls :
            me.calls[i] = Tool /\ verdict[<<me.turn, i>>] = "approved"]_vars

\* A resumed turn does not execute again what it had executed before it
\* yielded: a call runs once, and once more per pass that was cut off.
RanOnce == \A c \in Calls : ran[c] <= 1 + Setbacks

\* ... and leaves none out: the calls before the one being dispatched have run,
\* if their node's own gate did not stop them; so have those a snapshot skips.
NothingSkipped ==
    LET Done(turn, calls, next) ==
            \A i \in 1 .. next - 1 :
               \/ ran[<<turn, i>>] > 0
               \/ calls[i] \in NodeGated \cap Recoverable
    IN  /\ pc \in {"dispatch", "yield", "gate", "call"} =>
              Done(me.turn, me.calls, me.next)
        /\ run.paused # None =>
              Done(run.paused.turn, run.paused.calls, run.paused.next)

\* No loop of approving and yielding: a person is asked once about a call, and
\* once more per pass that was cut off.
GateAskedOnce == \A c \in Calls : asked[c] <= 1 + Setbacks

\* A run ends or waits for a person, whatever its agents do.
RunSettles ==
    run.status \in {"queued", "running"} ~>
        run.status \in {"success", "error", "pending_approval"}
=============================================================================
