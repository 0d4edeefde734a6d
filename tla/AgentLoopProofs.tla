--------------------------- MODULE AgentLoopProofs ---------------------------
(***************************************************************************)
(* What a run can rely on when its agents yield and are taken up again     *)
(* (AgentLoop), for any plan, agents, tools and bounds: no call is left    *)
(* out, and with at most one item around a guarded agent no call is        *)
(* executed, and nobody asked about one, more than once per pass that was  *)
(* cut off and once; and what a guarded agent executes was approved.       *)
(*                                                                         *)
(* The argument: the place where a turn stopped travels from the memory of *)
(* a pass to the document, to the memory of the next pass and back into    *)
(* its turn.  What lies behind that place has run, wherever it is at the   *)
(* moment; what lies ahead of it has not, and is ahead in one place only.  *)
(***************************************************************************)
EXTENDS AgentLoop, SequenceTheorems, TLAPS

InTurn == pc \in {"dispatch", "yield", "gate", "call"}

\* A snapshot is of a guarded agent, at a call of a turn that was taken.
SnapshotOK(snapshot) == snapshot # None =>
    /\ snapshot.agent \in Guarded
    /\ snapshot.iter < MaxIters
    /\ snapshot.turn <= turns
    /\ snapshot.next <= Len(snapshot.calls)

PlaceOK ==
    /\ run.lease = "lapsed" => pc = "idle"
    /\ pc \in {"think", "dispatch", "yield", "gate", "call", "left"} => me.at \in Steps
    /\ InTurn =>
          /\ me.turn \in 1 .. turns /\ me.calls \in TurnsTaken
          /\ me.next <= Len(me.calls) + 1 /\ me.iter < MaxIters
    /\ pc \in {"yield", "gate", "call"} => me.next <= Len(me.calls)
    /\ pc \in {"gate", "call"} => Tool \in NodeGated
    /\ pc = "yield" => Agent \in Guarded
    /\ SnapshotOK(run.paused) /\ SnapshotOK(me.resume)

Placed == TypeOK /\ PlaceOK

-----------------------------------------------------------------------------
(***************************************************************************)
(* The values of the model.                                                *)
(***************************************************************************)
\* A turn is a sequence of at least one and at most MaxCalls calls.
LEMMA TurnIsSequence ==
    ASSUME NEW calls \in TurnsTaken
    PROVE  /\ calls \in Seq(AllTools) /\ Len(calls) \in 1 .. MaxCalls
           /\ \A i \in 1 .. Len(calls) : calls[i] \in AllTools
<1>1. PICK n \in 1 .. MaxCalls : calls \in [1 .. n -> AllTools]  BY DEF TurnsTaken
<1>2. n \in Nat  BY <1>1, AgentBoundsAssumption
<1>3. calls \in Seq(AllTools) /\ Len(calls) = n
  BY <1>1, <1>2, SeqDef, LenProperties
<1> QED  BY <1>1, <1>3

LEMMA PlanTypes ==
    /\ Len(Plan) \in Nat
    /\ \A s \in Steps : Plan[s].agent \in Agents /\ Plan[s].items \in Nat
<1> DEFINE Step == [agent: Agents, items: Nat]
<1>1. Plan \in Seq(Step)  BY PlanAssumption
<1>2. Len(Plan) \in Nat /\ Plan \in [1 .. Len(Plan) -> Step]  BY <1>1, LenProperties
<1>3. \A s \in Steps : Plan[s] \in Step  BY <1>2 DEF Steps
<1> QED  BY <1>2, <1>3

\* The tool of the call being dispatched.
LEMMA ToolOfCall ==
    ASSUME Placed, InTurn, me.next <= Len(me.calls)
    PROVE  Tool \in AllTools /\ Call \in Calls /\ me.next \in 1 .. MaxCalls
           /\ me.turn \in Turns
<1>1. Len(me.calls) \in 1 .. MaxCalls /\ \A i \in 1 .. Len(me.calls) : me.calls[i] \in AllTools
  BY TurnIsSequence DEF Placed, PlaceOK
<1>2. me.next \in 1 .. Len(me.calls)  BY <1>1, AgentBoundsAssumption DEF Placed, TypeOK, Passes
<1>3. me.next \in 1 .. MaxCalls  BY <1>1, <1>2, AgentBoundsAssumption
<1>4. me.turn \in Turns  BY AgentBoundsAssumption DEF Placed, TypeOK, PlaceOK, Turns
<1> QED  BY <1>1, <1>2, <1>3, <1>4 DEF Tool, Call, Calls
-----------------------------------------------------------------------------
(***************************************************************************)
(* Types and places.                                                       *)
(***************************************************************************)
LEMMA IdleOK == Idle \in Passes
<1> USE PlanTypes, AgentBoundsAssumption
<1>1. Unasked \in Approvals  BY DEF Unasked, Approvals
<1> QED  BY <1>1 DEF Idle, Passes

LEMMA InitPlaced == Init => Placed
<1> SUFFICES ASSUME Init PROVE Placed  OBVIOUS
<1> USE PlanTypes, AgentBoundsAssumption
<1>1. TypeOK  BY IdleOK DEF Init, TypeOK, Documents, Budgets
<1>2. PlaceOK  BY DEF Init, PlaceOK, SnapshotOK, InTurn, Idle
<1> QED  BY <1>1, <1>2 DEF Placed

\* A pass that ends, whatever becomes of the document.
LEMMA LeavePlaced ==
    ASSUME Placed, Leave, turns' = turns, ran' = ran, asked' = asked, verdict' = verdict,
           run' \in Documents, run'.paused \in {run.paused, None}, used' \in Budgets
    PROVE  Placed'
<1> USE PlanTypes, AgentBoundsAssumption
<1>1. TypeOK'  BY IdleOK DEF TypeOK, Placed, Leave
<1>2. PlaceOK'  BY DEF Placed, PlaceOK, SnapshotOK, Leave, Idle, InTurn
<1> QED  BY <1>1, <1>2 DEF Placed

\* Steps by which the pass ends, and those taken while there is none.
LEMMA OutsidePlaced ==
    ASSUME Placed,
           Claim \/ Sweep \/ Yield \/ YieldFails \/ Finish \/ Crash \/ Cancelled
    PROVE  Placed'
<1> USE PlanTypes, AgentBoundsAssumption
<1>0. run \in Documents /\ used \in Budgets  BY DEF Placed, TypeOK
<1>1. CASE Claim
  <2>1. Hydrated(run.pending) \in Approvals
    BY DEF Placed, TypeOK, Documents, Pendings, Hydrated, Unasked, Approvals
  <2>2. me' \in Passes
    <3>1. run.paused \in Snapshots \cup {None} /\ run.at \in 0 .. Len(Plan) + 1
      BY DEF Placed, TypeOK, Documents
    <3>2. (IF run.at = 0 THEN 1 ELSE run.at) \in 1 .. Len(Plan) + 1  BY <3>1
    <3>3. me' = [Idle EXCEPT !.at = IF run.at = 0 THEN 1 ELSE run.at,
                          !.resume = run.paused, !.approved = Hydrated(run.pending)]
      BY <1>1 DEF Claim
    <3> QED  BY <2>1, <3>1, <3>2, <3>3, IdleOK DEF Passes
  <2>3. TypeOK'  BY <1>1, <2>2 DEF Placed, TypeOK, Claim, ghosts, Documents
  <2>4. PlaceOK'
    BY <1>1 DEF Placed, TypeOK, PlaceOK, SnapshotOK, Claim, Claimable, InTurn, Idle, ghosts, Documents
  <2> QED  BY <2>3, <2>4 DEF Placed
<1>2. CASE Sweep
  <2>1. TypeOK'  BY <1>2 DEF Placed, TypeOK, Sweep, ghosts, Documents
  <2>2. PlaceOK'
    BY <1>2 DEF Placed, TypeOK, PlaceOK, SnapshotOK, Sweep, InTurn, ghosts, Documents, Tool, Agent
  <2> QED  BY <2>1, <2>2 DEF Placed
<1>3. CASE Yield
  <2>1. Tool \in AllTools /\ Call \in Calls
    BY <1>3, ToolOfCall DEF Yield, InTurn, Placed, PlaceOK
  <2> DEFINE gated == [call |-> Call, tool |-> Tool, decision |-> None]
  <2>a. gated \in Pendings  BY <2>1 DEF Pendings
  <2>b. me.at \in 0 .. Len(Plan) + 1  BY DEF Placed, TypeOK, Passes
  <2>c. run \in Documents  BY DEF Placed, TypeOK
  <2>d. run' = [run EXCEPT !.status = "pending_approval", !.at = me.at, !.pending = gated,
                           !.lease = "none"] \/ run' = run
    BY <1>3 DEF Yield
  <2> HIDE DEF gated
  <2>2. run' \in Documents
    BY <2>a, <2>b, <2>c, <2>d DEF Documents
  <2> QED  BY <1>3, <2>2, LeavePlaced DEF Yield, ghosts, Placed, TypeOK, Documents
<1>4. CASE YieldFails
  <2>1. run' = [run EXCEPT !.lease = "none"]
        \/ run' = [run EXCEPT !.status = "error", !.at = 0, !.pending = None,
                              !.gate = None, !.paused = None, !.lease = "none"]
    BY <1>4 DEF YieldFails
  <2>2. run' \in Documents /\ run'.paused \in {run.paused, None}
    <3>0. 0 \in 0 .. Len(Plan) + 1  OBVIOUS
    <3>1. CASE run' = [run EXCEPT !.lease = "none"]  BY <1>0, <3>1 DEF Documents
    <3>2. CASE run' = [run EXCEPT !.status = "error", !.at = 0, !.pending = None,
                              !.gate = None, !.paused = None, !.lease = "none"]
      BY <1>0, <3>0, <3>2 DEF Documents
    <3> QED  BY <2>1, <3>1, <3>2
  <2>3. used' \in Budgets  BY <1>0, <1>4 DEF YieldFails, Budgets
  <2> QED  BY <1>4, <2>2, <2>3, LeavePlaced DEF YieldFails, ghosts
<1>5. CASE Finish
  <2> DEFINE status == IF me.failed THEN "error" ELSE "success"
             lease == IF run.lease = "held" THEN "none" ELSE run.lease
             ended == [status |-> status, lease |-> lease, at |-> 0, pending |-> None,
                       gate |-> None, paused |-> None]
  <2>0. run' = IF run.status = "pending_approval" THEN [run EXCEPT !.lease = lease] ELSE ended
    BY <1>5 DEF Finish
  <2>1. run' = [run EXCEPT !.lease = lease] \/ run' = ended
    BY <2>0
  <2>2. status \in {"error", "success"} /\ lease \in {"none", "held", "lapsed"}
    BY <1>0 DEF Documents
  <2> HIDE DEF status, lease
  <2>3. run' \in Documents /\ run'.paused \in {run.paused, None}
    BY <1>0, <2>1, <2>2 DEF Documents
  <2> QED  BY <1>0, <1>5, <2>3, LeavePlaced DEF Finish, ghosts
<1>6. CASE Crash
  <2>1. run' = [run EXCEPT !.lease = "lapsed"] \/ run' = run
    BY <1>6 DEF Crash
  <2>2. run' \in Documents /\ run'.paused \in {run.paused, None}
    <3>1. CASE run' = run  BY <1>0, <3>1
    <3>2. CASE run' = [run EXCEPT !.lease = "lapsed"]
      BY <1>0, <3>2 DEF Documents
    <3> QED  BY <2>1, <3>1, <3>2
  <2>3. used' \in Budgets  BY <1>0, <1>6 DEF Crash, Budgets
  <2> QED  BY <1>6, <2>2, <2>3, LeavePlaced DEF Crash, ghosts
<1>7. CASE Cancelled
  BY <1>7, LeavePlaced DEF Cancelled, ghosts, Placed, TypeOK, Documents
<1> QED  BY <1>1, <1>2, <1>3, <1>4, <1>5, <1>6, <1>7

\* The parts of the memory of a pass.
LEMMA PassFields ==
    ASSUME Placed
    PROVE  /\ me.at \in 1 .. Len(Plan) + 1 /\ me.item \in Nat
           /\ me.resume \in Snapshots \cup {None} /\ me.iter \in 0 .. MaxIters
           /\ me.turn \in 0 .. MaxTurns /\ me.next \in 1 .. MaxCalls + 1
           /\ me.approved \in Approvals /\ me.answered \in BOOLEAN
           /\ me.outcome \in {"success", "error"} /\ me.failed \in BOOLEAN
           /\ me.calls \in TurnsTaken \cup {<<>>}
  BY DEF Placed, TypeOK, Passes

LEMMA SnapshotFields ==
    ASSUME NEW snapshot \in Snapshots
    PROVE  /\ snapshot.iter \in 0 .. MaxIters /\ snapshot.turn \in Turns
           /\ snapshot.calls \in TurnsTaken /\ snapshot.next \in 1 .. MaxCalls
           /\ snapshot.approved \in Approvals
  BY DEF Snapshots

\* The turns that were taken stay taken.
LEMMA SnapshotKept ==
    ASSUME NEW snapshot \in Snapshots \cup {None}, SnapshotOK(snapshot), Placed,
           turns' \in Nat, turns' >= turns
    PROVE  SnapshotOK(snapshot)'
<1>1. turns \in Nat  BY AgentBoundsAssumption DEF Placed, TypeOK
<1>2. CASE snapshot # None
  <2>1. snapshot.turn \in Nat  BY <1>2, SnapshotFields, AgentBoundsAssumption DEF Turns
  <2> QED  BY <1>1, <1>2, <2>1 DEF SnapshotOK
<1> QED  BY <1>2 DEF SnapshotOK

\* A step inside a pass that writes neither the lease nor a snapshot.
LEMMA StayPlaced ==
    ASSUME Placed, pc # "idle", pc' # "idle",
           run' \in Documents, run'.lease = run.lease, run'.paused = run.paused,
           me' \in Passes, me'.resume = me.resume, used' \in Budgets,
           turns' \in 0 .. MaxTurns, turns' >= turns,
           ran' \in [Calls -> Nat], asked' = asked, verdict' \in [Calls -> Verdicts \cup {None}],
           pc' \in {"step", "think", "dispatch", "yield", "gate", "call", "left", "saving"},
           pc' \in {"think", "dispatch", "yield", "gate", "call", "left"} => me'.at \in Steps,
           InTurn' => /\ me'.turn \in 1 .. turns' /\ me'.calls \in TurnsTaken
                      /\ me'.next <= Len(me'.calls) + 1 /\ me'.iter < MaxIters,
           pc' \in {"yield", "gate", "call"} => me'.next <= Len(me'.calls),
           pc' \in {"gate", "call"} => me'.calls[me'.next] \in NodeGated,
           pc' = "yield" => Plan[me'.at].agent \in Guarded
    PROVE  Placed'
<1>1. turns' \in Nat  BY AgentBoundsAssumption
<1>2. TypeOK'  BY DEF Placed, TypeOK
<1>3. SnapshotOK(run.paused)' /\ SnapshotOK(me.resume)'
  <2>1. run.paused \in Snapshots \cup {None} /\ me.resume \in Snapshots \cup {None}
    BY PassFields DEF Placed, TypeOK, Documents
  <2>2. SnapshotOK(run.paused) /\ SnapshotOK(me.resume)  BY DEF Placed, PlaceOK
  <2>3. \A s \in Snapshots \cup {None} : SnapshotOK(s) => (s # None =>
           s.agent \in Guarded /\ s.iter < MaxIters /\ s.turn <= turns' /\ s.next <= Len(s.calls))
    BY <1>1, SnapshotKept DEF SnapshotOK
  <2> QED  BY <2>1, <2>2, <2>3 DEF SnapshotOK
<1>4. run'.lease = "lapsed" => pc' = "idle"  BY DEF Placed, PlaceOK
<1>5. PlaceOK'  BY <1>3, <1>4 DEF PlaceOK, Tool, Agent
<1> QED  BY <1>2, <1>5 DEF Placed

\* Entering a step, or taking up the turn of a snapshot.
LEMMA EnterPlaced == ASSUME Placed, Enter PROVE Placed'
<1> USE PlanTypes, AgentBoundsAssumption
<1>0. me \in Passes  BY DEF Placed, TypeOK
<1>1. /\ run' = run /\ turns' = turns /\ used' = used
      /\ ran' = ran /\ asked' = asked /\ verdict' = verdict
  BY DEF Enter, ghosts
<1>2. run \in Documents /\ used \in Budgets /\ turns \in 0 .. MaxTurns /\ turns >= turns
      /\ ran \in [Calls -> Nat] /\ verdict \in [Calls -> Verdicts \cup {None}]
  BY DEF Placed, TypeOK
<1>3. pc = "step" /\ me.at \in Steps  BY DEF Enter
<1>4. CASE me' = ResumeTurn(me.resume) /\ pc' = "dispatch" /\ me.resume # None
  <2>1. me.resume \in Snapshots  BY <1>4, PassFields
  <2>2. Merged(me.resume) \in Approvals
    BY <2>1, PassFields, SnapshotFields DEF Merged, Approvals
  <2>3. /\ me.resume.iter \in 0 .. MaxIters /\ me.resume.turn \in 0 .. MaxTurns
        /\ me.resume.calls \in TurnsTaken /\ me.resume.next \in 1 .. MaxCalls + 1
    BY <2>1, SnapshotFields DEF Turns
  <2>4. me' \in Passes  BY <1>0, <1>4, <2>2, <2>3 DEF ResumeTurn, Passes
  <2>5. /\ me'.at = me.at /\ me'.resume = me.resume /\ me'.turn = me.resume.turn
        /\ me'.calls = me.resume.calls /\ me'.next = me.resume.next /\ me'.iter = me.resume.iter
    BY <1>0, <1>4 DEF ResumeTurn, Passes
  <2>6. SnapshotOK(me.resume)  BY DEF Placed, PlaceOK
  <2>7. Len(me.resume.calls) \in Nat  BY <2>3, TurnIsSequence
  <2>8. me.resume.turn \in 1 .. turns /\ me.resume.next <= Len(me.resume.calls) + 1
        /\ me.resume.iter < MaxIters
    BY <1>4, <2>1, <2>3, <2>6, <2>7, SnapshotFields, <1>2 DEF SnapshotOK, Turns
  <2> QED  BY <1>1, <1>2, <1>3, <1>4, <2>3, <2>4, <2>5, <2>8, StayPlaced
<1>5. CASE me' = [me EXCEPT !.iter = 0, !.answered = FALSE] /\ pc' = "think"
  <2>0. 0 \in 0 .. MaxIters  OBVIOUS
  <2>1. me' \in Passes  BY <1>0, <1>5, <2>0 DEF Passes
  <2>a. me'.resume = me.resume /\ me'.at = me.at  BY <1>0, <1>5 DEF Passes
  <2>2. ~InTurn'  BY <1>5 DEF InTurn
  <2> QED  BY <1>1, <1>2, <1>3, <1>5, <2>1, <2>a, <2>2, StayPlaced
<1> QED  BY <1>4, <1>5 DEF Enter

\* What the model says.
LEMMA TurnPlaced == ASSUME Placed, Think \/ Answer \/ EndTurn PROVE Placed'
<1> USE PlanTypes, AgentBoundsAssumption
<1>0. me \in Passes  BY DEF Placed, TypeOK
<1>1. run' = run /\ used' = used /\ ran' = ran /\ asked' = asked /\ verdict' = verdict
  BY DEF Think, Answer, EndTurn, ghosts
<1>2. run \in Documents /\ used \in Budgets /\ turns \in 0 .. MaxTurns /\ turns >= turns
      /\ ran \in [Calls -> Nat] /\ verdict \in [Calls -> Verdicts \cup {None}]
  BY DEF Placed, TypeOK
<1>3. pc \in {"think", "dispatch"} /\ me.at \in Steps /\ me.iter \in 0 .. MaxIters - 1
  <2>1. (pc = "think" /\ me.iter < MaxIters) \/ pc = "dispatch"
    BY DEF Think, Answer, EndTurn
  <2>2. me.at \in Steps /\ me.iter < MaxIters  BY <2>1 DEF Placed, PlaceOK, InTurn
  <2> QED  BY <2>1, <2>2, PassFields
<1>4. CASE Think
  <2>1. PICK calls \in TurnsTaken : me' = [me EXCEPT !.turn = turns + 1, !.calls = calls, !.next = 1]
    BY <1>4 DEF Think
  <2>2. turns' = turns + 1 /\ turns < MaxTurns /\ pc' = "dispatch"  BY <1>4 DEF Think
  <2>3. turns' \in 0 .. MaxTurns /\ turns' >= turns /\ turns' \in 1 .. turns'  BY <1>2, <2>2
  <2>4. Len(calls) \in 1 .. MaxCalls  BY TurnIsSequence
  <2>5. 1 \in 1 .. MaxCalls + 1 /\ 1 <= Len(calls) + 1  BY <2>4
  <2>6. me' \in Passes  BY <1>0, <2>1, <2>2, <2>3, <2>5 DEF Passes
  <2>7. me'.turn = turns' /\ me'.calls = calls /\ me'.next = 1 /\ me'.iter = me.iter
        /\ me'.at = me.at /\ me'.resume = me.resume
    BY <1>0, <2>1, <2>2 DEF Passes
  <2> QED  BY <1>1, <1>2, <1>3, <2>2, <2>3, <2>5, <2>6, <2>7, StayPlaced
<1>5. CASE Return("success") /\ turns' = turns
  <2>1. me' \in Passes /\ me'.resume = me.resume /\ me'.at = me.at
    BY <1>0, <1>5 DEF Passes, Return
  <2>2. ~InTurn' /\ pc' = "left"  BY <1>5 DEF InTurn, Return
  <2> QED  BY <1>1, <1>2, <1>3, <1>5, <2>1, <2>2, StayPlaced
<1>6. CASE turns' = turns /\ pc' = "think"
           /\ (me' = [me EXCEPT !.iter = @ + 1] \/ me' = [TurnOver EXCEPT !.iter = @ + 1])
  <2>1. Unasked \in Approvals  BY DEF Unasked, Approvals
  <2>2. me.iter + 1 \in 0 .. MaxIters  BY <1>3
  <2>3. me' = [me EXCEPT !.iter = me.iter + 1]
        \/ me' = [me EXCEPT !.approved = Unasked, !.iter = me.iter + 1]
    BY <1>0, <1>6 DEF TurnOver, Passes
  <2>4. me' \in Passes /\ me'.resume = me.resume /\ me'.at = me.at
    BY <1>0, <2>1, <2>2, <2>3 DEF Passes
  <2>5. ~InTurn'  BY <1>6 DEF InTurn
  <2> QED  BY <1>1, <1>2, <1>3, <1>6, <2>4, <2>5, StayPlaced
<1>7. Answer => (<1>5!1 \/ <1>6!1)  BY <1>3 DEF Answer
<1>8. EndTurn => (<1>5!1 \/ <1>6!1)  BY <1>3 DEF EndTurn
<1> QED  BY <1>4, <1>5, <1>6, <1>7, <1>8

\* The agent returns.
LEMMA ReturnPlaced ==
    ASSUME Placed, NEW outcome \in {"success", "error"}, Return(outcome), me.at \in Steps,
           pc # "idle", run' \in Documents, run'.lease = run.lease, run'.paused = run.paused,
           turns' = turns, ran' \in [Calls -> Nat], asked' = asked,
           verdict' \in [Calls -> Verdicts \cup {None}], used' \in Budgets
    PROVE  Placed'
<1> USE PlanTypes, AgentBoundsAssumption
<1>1. me \in Passes /\ turns \in 0 .. MaxTurns  BY DEF Placed, TypeOK
<1>2. me' \in Passes /\ me'.resume = me.resume /\ me'.at = me.at /\ pc' = "left"
  BY <1>1 DEF Passes, Return
<1>3. ~InTurn' /\ turns' >= turns  BY <1>1, <1>2 DEF InTurn
<1> QED  BY <1>1, <1>2, <1>3, StayPlaced

\* One more call of the turn is behind the agent.
LEMMA NextCallPlaced ==
    ASSUME Placed, InTurn, me.next <= Len(me.calls), NEW answered \in BOOLEAN,
           me' = [me EXCEPT !.next = @ + 1, !.answered = answered], pc' = "dispatch",
           run' \in Documents, run'.lease = run.lease, run'.paused = run.paused,
           turns' = turns, ran' \in [Calls -> Nat], asked' = asked,
           verdict' \in [Calls -> Verdicts \cup {None}], used' \in Budgets
    PROVE  Placed'
<1> USE PlanTypes, AgentBoundsAssumption
<1>1. me \in Passes /\ turns \in 0 .. MaxTurns  BY DEF Placed, TypeOK
<1>2. me.next + 1 \in 1 .. MaxCalls + 1  BY ToolOfCall
<1>3. me' \in Passes  BY <1>1, <1>2 DEF Passes
<1>4. /\ me'.at = me.at /\ me'.resume = me.resume /\ me'.turn = me.turn /\ me'.iter = me.iter
      /\ me'.calls = me.calls /\ me'.next = me.next + 1
  BY <1>1 DEF Passes
<1>5. /\ me.turn \in 1 .. turns /\ me.calls \in TurnsTaken /\ me.iter < MaxIters
      /\ me.at \in Steps /\ pc # "idle"
  BY DEF Placed, PlaceOK, InTurn
<1>6. Len(me.calls) \in Nat  BY <1>5, TurnIsSequence
<1>7. me.next + 1 <= Len(me.calls) + 1 /\ turns' >= turns
  <2>1. me.next \in Nat /\ turns \in Nat  BY <1>1, PassFields
  <2> QED  BY <1>6, <2>1
<1> QED  BY <1>1, <1>3, <1>4, <1>5, <1>7, StayPlaced

LEMMA ToolFailedPlaced ==
    ASSUME Placed, InTurn, me.next <= Len(me.calls), ToolFailed,
           run' \in Documents, run'.lease = run.lease, run'.paused = run.paused,
           turns' = turns, ran' \in [Calls -> Nat], asked' = asked,
           verdict' \in [Calls -> Verdicts \cup {None}], used' \in Budgets
    PROVE  Placed'
<1>1. me \in Passes /\ me.at \in Steps /\ pc # "idle"
  BY DEF Placed, TypeOK, PlaceOK, InTurn
<1>2. CASE Return("error")  BY <1>1, <1>2, ReturnPlaced
<1>3. CASE me' = [me EXCEPT !.next = @ + 1] /\ pc' = "dispatch"
  <2>1. me.answered \in BOOLEAN  BY PassFields
  <2>2. me' = [me EXCEPT !.next = @ + 1, !.answered = me.answered]
    BY <1>1, <1>3 DEF Passes
  <2> QED  BY <1>3, <2>1, <2>2, NextCallPlaced
<1> QED  BY <1>2, <1>3 DEF ToolFailed

\* The gates.
LEMMA GatePlaced ==
    ASSUME Placed, Mirror \/ MirrorFails \/ OpenNodeGate \/ Click
    PROVE  Placed'
<1> USE PlanTypes, AgentBoundsAssumption
<1>0. run \in Documents /\ me \in Passes  BY DEF Placed, TypeOK
<1>1. turns' = turns /\ me' = me /\ ran' = ran /\ verdict' = verdict
  BY DEF Mirror, MirrorFails, OpenNodeGate, Click, ghosts
<1>2. used \in Budgets /\ turns \in 0 .. MaxTurns /\ turns >= turns
      /\ ran \in [Calls -> Nat] /\ verdict \in [Calls -> Verdicts \cup {None}]
  BY DEF Placed, TypeOK
<1>3. InTurn /\ me.next <= Len(me.calls) /\ (pc = "gate" => Tool \in NodeGated)
  BY DEF Mirror, MirrorFails, OpenNodeGate, Click, AtCall, InTurn, Placed, PlaceOK
<1>4. /\ Tool \in AllTools /\ Call \in Calls /\ me.next \in 1 .. MaxCalls
      /\ me.turn \in Turns
  BY <1>3, ToolOfCall
<1>5. /\ me.turn \in 1 .. turns /\ me.calls \in TurnsTaken /\ me.next <= Len(me.calls) + 1
      /\ me.iter < MaxIters /\ me.at \in Steps /\ pc # "idle"
  BY <1>3 DEF Placed, PlaceOK, InTurn
<1>6. CASE MirrorFails
  <2>1. used' \in Budgets
    <3>1. used' = [used EXCEPT !.faults = used.faults + 1, !.astray = TRUE]
      BY <1>2, <1>6 DEF MirrorFails, Budgets
    <3>2. used.faults + 1 \in Nat  BY <1>2 DEF Budgets
    <3> QED  BY <1>2, <3>1, <3>2 DEF Budgets
  <2>2. run' = run /\ asked' = asked /\ pc' = "yield" /\ Agent \in Guarded
    BY <1>6 DEF MirrorFails, ghosts, Needed
  <2> QED  BY <1>0, <1>1, <1>2, <1>3, <1>5, <2>1, <2>2, StayPlaced DEF Agent
<1>7. CASE OpenNodeGate
  <2>1. Shown("node") \in ShownGates  BY <1>4 DEF Shown, ShownGates
  <2>2. /\ run' = [run EXCEPT !.status = "pending_approval", !.gate = Shown("node")]
        /\ pc' = "gate" /\ asked' = asked /\ used' = used /\ Tool \in NodeGated
    BY <1>7 DEF OpenNodeGate, ghosts
  <2>3. run' \in Documents /\ run'.paused = run.paused /\ run'.lease = run.lease
    BY <1>0, <2>1, <2>2 DEF Documents
  <2> QED  BY <1>0, <1>1, <1>2, <1>3, <1>5, <2>2, <2>3, StayPlaced DEF Tool
<1>8. CASE Click
  <2>1. run' \in Documents /\ run'.paused = run.paused /\ run'.lease = run.lease
    BY <1>0, <1>8 DEF Click, CloseGate, Documents
  <2>2. pc' = "call" /\ asked' = asked /\ used' = used /\ pc = "gate"
    BY <1>8 DEF Click, ghosts
  <2> QED  BY <1>0, <1>1, <1>2, <1>3, <1>5, <2>1, <2>2, StayPlaced DEF Tool
<1>9. CASE Mirror
  <2>1. /\ run' = [run EXCEPT !.status = "pending_approval", !.gate = Shown("tool_call"),
                              !.paused = Snapshot]
        /\ asked' = [asked EXCEPT ![Call] = @ + 1] /\ pc' = "yield" /\ used' = used
        /\ Agent \in Guarded
    BY <1>9 DEF Mirror, Needed
  <2>2. Agent \in Agents /\ me.iter \in 0 .. MaxIters /\ me.approved \in Approvals
    BY <1>5, PassFields DEF Agent
  <2>3. Snapshot \in Snapshots  BY <1>4, <1>5, <2>2 DEF Snapshot, Snapshots
  <2>4. Shown("tool_call") \in ShownGates  BY <1>4 DEF Shown, ShownGates
  <2>5. run' \in Documents  BY <1>0, <2>1, <2>3, <2>4 DEF Documents
  <2>6. asked' \in [Calls -> Nat]  BY <1>4, <2>1 DEF Placed, TypeOK
  <2>7. TypeOK'  BY <1>1, <2>1, <2>5, <2>6 DEF Placed, TypeOK
  <2>8. run'.paused = Snapshot /\ run'.lease = run.lease  BY <1>0, <2>1 DEF Documents
  <2>9. SnapshotOK(run.paused)'
    <3>1. /\ Snapshot.agent = Agent /\ Snapshot.iter = me.iter /\ Snapshot.turn = me.turn
          /\ Snapshot.next = me.next /\ Snapshot.calls = me.calls
      BY DEF Snapshot
    <3>2. me.turn <= turns  BY <1>2, <1>5
    <3> QED  BY <1>1, <1>3, <1>5, <2>1, <2>8, <3>1, <3>2 DEF SnapshotOK
  <2>10. SnapshotOK(me.resume)'  BY <1>1 DEF Placed, PlaceOK, SnapshotOK
  <2>11. InTurn'  BY <2>1 DEF InTurn
  <2>12. PlaceOK'
    BY <1>1, <1>3, <1>5, <2>1, <2>8, <2>9, <2>10 DEF PlaceOK, Placed, Agent
  <2> QED  BY <2>7, <2>12 DEF Placed
<1> QED  BY <1>6, <1>7, <1>8, <1>9

\* A call, and what the agent and the steps around it do.
LEMMA ExecutePlaced == ASSUME Placed, Execute PROVE Placed'
<1>1. InTurn /\ me.next <= Len(me.calls)
  BY DEF Execute, AtCall, InTurn, Placed, PlaceOK
<1>2. /\ run \in Documents /\ used \in Budgets /\ ran \in [Calls -> Nat]
      /\ verdict \in [Calls -> Verdicts \cup {None}] /\ me \in Passes
  BY DEF Placed, TypeOK
<1>3. ran' \in [Calls -> Nat]
  <2>1. Call \in Calls  BY <1>1, ToolOfCall
  <2>2. ran' = [ran EXCEPT ![Call] = @ + 1]  BY DEF Execute
  <2> QED  BY <1>2, <2>1, <2>2
<1>4. run' = run /\ turns' = turns /\ asked' = asked /\ verdict' = verdict /\ used' = used
  BY DEF Execute
<1>5. CASE ToolFailed  BY <1>1, <1>2, <1>3, <1>4, <1>5, ToolFailedPlaced
<1>6. CASE me' = [me EXCEPT !.next = @ + 1, !.answered = @ \/ Tool = Final] /\ pc' = "dispatch"
  <2>1. (me.answered \/ Tool = Final) \in BOOLEAN  OBVIOUS
  <2>2. me' = [me EXCEPT !.next = @ + 1, !.answered = me.answered \/ Tool = Final]
    BY <1>2, <1>6 DEF Passes
  <2> QED  BY <1>1, <1>2, <1>3, <1>4, <1>6, <2>1, <2>2, NextCallPlaced
<1> QED  BY <1>5, <1>6 DEF Execute

LEMMA StepEndPlaced ==
    ASSUME Placed, NextItem \/ EndStep \/ Checkpoint \/ CheckpointFails
    PROVE  Placed'
<1> USE PlanTypes, AgentBoundsAssumption
<1>0. run \in Documents /\ me \in Passes /\ used \in Budgets  BY DEF Placed, TypeOK
<1>1. turns' = turns /\ ran' = ran /\ asked' = asked /\ verdict' = verdict
  BY DEF NextItem, EndStep, Checkpoint, CheckpointFails, ghosts
<1>2. /\ turns \in 0 .. MaxTurns /\ turns >= turns
      /\ ran \in [Calls -> Nat] /\ verdict \in [Calls -> Verdicts \cup {None}]
  BY DEF Placed, TypeOK
<1>3. CASE NextItem
  <2>1. me' = [me EXCEPT !.item = me.item + 1] /\ pc' = "step" /\ run' = run /\ used' = used
        /\ pc = "left"
    BY <1>3, <1>0 DEF NextItem, Passes, ghosts
  <2>2. me.item + 1 \in Nat  BY PassFields
  <2>3. me' \in Passes /\ me'.resume = me.resume  BY <1>0, <2>1, <2>2 DEF Passes
  <2>4. ~InTurn'  BY <2>1 DEF InTurn
  <2> QED  BY <1>0, <1>1, <1>2, <2>1, <2>3, <2>4, StayPlaced
<1>4. CASE EndStep
  <2> DEFINE next == IF Fatal THEN Len(Plan) + 1 ELSE me.at + 1
             failed == me.failed \/ Fatal
  <2>1. /\ pc' = "saving" /\ run' = run /\ used' = used /\ pc = "left"
    BY <1>4 DEF EndStep, ghosts
  <2>2. me' = [me EXCEPT !.at = next, !.item = 0, !.failed = failed]
    BY <1>4, <1>0 DEF EndStep, Passes
  <2>3. me.at \in Steps  BY <2>1 DEF Placed, PlaceOK
  <2>4. next \in 1 .. Len(Plan) + 1 /\ failed \in BOOLEAN  BY <2>3 DEF Steps
  <2> HIDE DEF next, failed
  <2>5. me' \in Passes /\ me'.resume = me.resume  BY <1>0, <2>2, <2>4 DEF Passes
  <2>6. ~InTurn'  BY <2>1 DEF InTurn
  <2> QED  BY <1>0, <1>1, <1>2, <2>1, <2>5, <2>6, StayPlaced
<1>5. CASE Checkpoint
  <2>1. CASE Leave /\ run' = run
    BY <1>0, <1>1, <1>5, <2>1, LeavePlaced DEF Checkpoint
  <2>2. CASE /\ run' = [run EXCEPT !.at = me.at, !.pending = None]
             /\ pc' = "step" /\ me' = me
    <3>1. me.at \in 0 .. Len(Plan) + 1  BY PassFields
    <3>2. run' \in Documents /\ run'.paused = run.paused /\ run'.lease = run.lease
      BY <1>0, <2>2, <3>1 DEF Documents
    <3>3. ~InTurn'  BY <2>2 DEF InTurn
    <3>4. pc # "idle" /\ used' = used  BY <1>5 DEF Checkpoint
    <3> QED  BY <1>0, <1>1, <1>2, <2>2, <3>2, <3>3, <3>4, StayPlaced
  <2> QED  BY <1>5, <2>1, <2>2 DEF Checkpoint
<1>6. CASE CheckpointFails
  <2>1. used' \in Budgets  BY <1>0, <1>6 DEF CheckpointFails, Budgets
  <2>2. pc # "idle" /\ pc' = "step" /\ run' = run /\ me' = me
    BY <1>6 DEF CheckpointFails
  <2>3. ~InTurn'  BY <2>2 DEF InTurn
  <2> QED  BY <1>0, <1>1, <1>2, <2>1, <2>2, <2>3, StayPlaced
<1> QED  BY <1>3, <1>4, <1>5, <1>6

\* People.
LEMMA DecidePlaced == ASSUME Placed, Decide PROVE Placed'
<1> USE PlanTypes, AgentBoundsAssumption
<1>0. run \in Documents /\ me \in Passes /\ used \in Budgets  BY DEF Placed, TypeOK
<1>1. PICK v \in Verdicts : DecideYielded(v) \/ DecideListening(v) \/ DecideOrphan(v)
  BY DEF Decide
<1>2. turns' = turns /\ ran' = ran /\ asked' = asked
  BY <1>1 DEF DecideYielded, DecideListening, DecideOrphan
<1>3. /\ turns \in 0 .. MaxTurns /\ turns >= turns
      /\ ran \in [Calls -> Nat] /\ verdict \in [Calls -> Verdicts \cup {None}]
  BY DEF Placed, TypeOK
<1>4. verdict' \in [Calls -> Verdicts \cup {None}]
  <2>1. Decision(v)  BY <1>1 DEF DecideYielded, DecideListening, DecideOrphan
  <2>2. run.gate \in ShownGates  BY <1>0, <2>1 DEF Decision, Documents
  <2>3. run.gate.call \in Calls  BY <2>2 DEF ShownGates
  <2>4. CASE verdict' = verdict  BY <1>3, <2>4
  <2>5. CASE verdict' = [verdict EXCEPT ![run.gate.call] = v]  BY <1>3, <2>3, <2>5
  <2> QED  BY <2>1, <2>4, <2>5 DEF Decision
<1>5. used' \in Budgets
  <2>1. CASE DecideYielded(v)
    <3> DEFINE lost == IF pc = "idle" THEN used.lost ELSE used.lost + 1
               astray == used.astray \/ run.gate.call # run.pending.call
    <3>1. used' = [used EXCEPT !.decisions = used.decisions + 1, !.lost = lost, !.astray = astray]
      BY <1>0, <2>1 DEF DecideYielded, Budgets
    <3>2. used.lost \in Nat /\ used.decisions + 1 \in Nat  BY <1>0 DEF Budgets
    <3>3. lost \in Nat /\ astray \in BOOLEAN  BY <3>2
    <3> HIDE DEF lost, astray
    <3> QED  BY <1>0, <3>1, <3>2, <3>3 DEF Budgets
  <2>2. CASE DecideListening(v) \/ DecideOrphan(v)
    <3>1. used' = [used EXCEPT !.decisions = used.decisions + 1]
      BY <1>0, <2>2 DEF DecideListening, DecideOrphan, Budgets
    <3>2. used.decisions + 1 \in Nat  BY <1>0 DEF Budgets
    <3> QED  BY <1>0, <3>1, <3>2 DEF Budgets
  <2> QED  BY <1>1, <2>1, <2>2
<1>6. CASE DecideListening(v)
  <2>1. run' \in Documents /\ run'.paused = run.paused /\ run'.lease = run.lease
    BY <1>0, <1>6 DEF DecideListening, CloseGate, Documents
  <2>2. InTurn /\ me.next <= Len(me.calls) /\ pc = "gate" /\ Tool \in NodeGated
    BY <1>6 DEF DecideListening, Placed, PlaceOK, InTurn
  <2>3. CASE ToolFailed
    BY <1>2, <1>3, <1>4, <1>5, <2>1, <2>2, <2>3, ToolFailedPlaced
  <2>4. CASE pc' = "call" /\ me' = me
    <3>1. /\ me.turn \in 1 .. turns /\ me.calls \in TurnsTaken /\ me.next <= Len(me.calls) + 1
          /\ me.iter < MaxIters /\ me.at \in Steps
      BY <2>2 DEF Placed, PlaceOK, InTurn
    <3> QED  BY <1>0, <1>2, <1>3, <1>4, <1>5, <2>1, <2>2, <2>4, <3>1, StayPlaced DEF Tool
  <2> QED  BY <1>6, <2>3, <2>4 DEF DecideListening
<1>7. CASE DecideYielded(v) \/ DecideOrphan(v)
  <2>1. pc' = pc /\ me' = me  BY <1>7 DEF DecideYielded, DecideOrphan
  <2>2. run' \in Documents /\ run'.paused = run.paused
    <3>1. CASE DecideOrphan(v)
      BY <1>0, <3>1 DEF DecideOrphan, Documents
    <3>2. CASE DecideYielded(v)
      <4>1. run.pending \in Pendings  BY <1>0, <3>2 DEF DecideYielded, Documents
      <4> DEFINE pending == [run.pending EXCEPT !.decision = v]
      <4>2. pending \in Pendings  BY <4>1 DEF Pendings
      <4>3. run' = [run EXCEPT !.pending = pending, !.status = "running", !.lease = "none"]
        BY <1>0, <3>2 DEF DecideYielded, Documents
      <4> HIDE DEF pending
      <4> QED  BY <1>0, <4>2, <4>3 DEF Documents
    <3> QED  BY <1>7, <3>1, <3>2
  <2>3. run'.lease \in {run.lease, "none"}
    BY <1>0, <1>7 DEF DecideYielded, DecideOrphan, Documents
  <2>4. TypeOK'  BY <1>2, <1>4, <1>5, <2>1, <2>2 DEF Placed, TypeOK
  <2>5. PlaceOK'
    BY <1>2, <2>1, <2>2, <2>3 DEF Placed, PlaceOK, SnapshotOK, InTurn, Tool, Agent
  <2> QED  BY <2>4, <2>5 DEF Placed
<1> QED  BY <1>1, <1>6, <1>7

LEMMA StepPlaced == ASSUME Placed, [Next]_vars PROVE Placed'
<1>1. CASE NoAnswer \/ RejectCall \/ YieldInLoop
  <2>1. Return("error") /\ run' = run /\ turns' = turns /\ ran' = ran /\ asked' = asked
        /\ verdict' = verdict /\ used' = used
    BY <1>1 DEF NoAnswer, RejectCall, YieldInLoop, ghosts
  <2>2. me.at \in Steps /\ pc # "idle"
    BY <1>1 DEF NoAnswer, RejectCall, YieldInLoop, AtCall, Placed, PlaceOK
  <2>3. /\ run \in Documents /\ ran \in [Calls -> Nat]
        /\ verdict \in [Calls -> Verdicts \cup {None}] /\ used \in Budgets
    BY DEF Placed, TypeOK
  <2> QED  BY <2>1, <2>2, <2>3, ReturnPlaced
<1>2. CASE UNCHANGED vars
  BY <1>2 DEF vars, Placed, TypeOK, PlaceOK, SnapshotOK, InTurn, Tool, Agent
<1> QED
  BY <1>1, <1>2, OutsidePlaced, EnterPlaced, TurnPlaced, GatePlaced, ExecutePlaced,
     StepEndPlaced, DecidePlaced DEF Next, Work

\* TypeOK, and where a pass can be.
THEOREM PassesArePlaced == Spec => []TypeOK
<1>1. Spec => []Placed  BY InitPlaced, StepPlaced, PTL DEF Spec
<1>2. Placed => TypeOK  BY DEF Placed
<1> QED  BY <1>1, <1>2, PTL

-----------------------------------------------------------------------------
(***************************************************************************)
(* No call is left out.  A snapshot is carried by the document from the    *)
(* pass that wrote it to the pass that takes it up, so what lies behind it *)
(* has to be known of all three.                                           *)
(***************************************************************************)
Behind(turn, calls, next) ==
    \A i \in 1 .. next - 1 :
       ran[<<turn, i>>] > 0 \/ calls[i] \in NodeGated \cap Recoverable

SnapshotBehind(snapshot) ==
    snapshot # None => Behind(snapshot.turn, snapshot.calls, snapshot.next)

Complete ==
    /\ InTurn => Behind(me.turn, me.calls, me.next)
    /\ SnapshotBehind(run.paused)
    /\ SnapshotBehind(me.resume)

\* Who writes a snapshot, and who takes one up.
LEMMA SnapshotFrame ==
    ASSUME Placed, [Next]_vars
    PROVE  /\ Mirror \/ run'.paused \in {run.paused, None}
           /\ Claim \/ me'.resume \in {me.resume, None}
<1>0. run \in Documents /\ me \in Passes  BY DEF Placed, TypeOK
<1>1. Idle.resume = None  BY DEF Idle
<1>a. CASE Sweep  BY <1>0, <1>a DEF Sweep, Documents
<1>f. CASE Cancelled  BY <1>1, <1>f DEF Cancelled, Leave
<1>g. CASE Crash
  <2>1. run'.paused = run.paused  BY <1>0, <1>g DEF Crash, Documents
  <2>2. me'.resume = None  BY <1>1, <1>g DEF Crash, Leave
  <2> QED  BY <2>1, <2>2
<1>b. CASE Yield
  BY <1>0, <1>1, <1>b DEF Yield, Leave, Documents, Passes
<1>e. CASE YieldFails
  BY <1>0, <1>1, <1>e DEF YieldFails, Leave, Documents, Passes
<1>c. CASE Finish
  BY <1>0, <1>1, <1>c DEF Finish, Leave, Documents, Passes
<1>d. CASE Checkpoint \/ CheckpointFails
  BY <1>0, <1>1, <1>d DEF Checkpoint, CheckpointFails, Leave, Documents, Passes
<1>3. CASE Enter \/ Think \/ Answer \/ NoAnswer \/ EndTurn \/ RejectCall \/ YieldInLoop
  BY <1>0, <1>3
     DEF Enter, Think, Answer, NoAnswer, EndTurn, RejectCall, YieldInLoop, Return,
         ResumeTurn, TurnOver, Passes
<1>4. CASE MirrorFails \/ OpenNodeGate \/ Click
  BY <1>0, <1>4 DEF MirrorFails, OpenNodeGate, Click, CloseGate, Documents
<1>h. CASE Execute
  BY <1>0, <1>h DEF Execute, ToolFailed, Return, Passes
<1>i. CASE NextItem \/ EndStep
  BY <1>0, <1>i DEF NextItem, EndStep, Passes
<1>5. CASE Decide
  <2>1. PICK v \in Verdicts : DecideYielded(v) \/ DecideListening(v) \/ DecideOrphan(v)
    BY <1>5 DEF Decide
  <2>2. CASE DecideYielded(v)  BY <1>0, <2>2 DEF DecideYielded, Documents
  <2>3. CASE DecideListening(v)
    <3>1. run'.paused = run.paused  BY <1>0, <2>3 DEF DecideListening, CloseGate, Documents
    <3>2. me'.resume = me.resume
      BY <1>0, <2>3 DEF DecideListening, ToolFailed, Return, Passes
    <3> QED  BY <3>1, <3>2
  <2>4. CASE DecideOrphan(v)  BY <1>0, <2>4 DEF DecideOrphan, Documents
  <2> QED  BY <2>1, <2>2, <2>3, <2>4
<1>6. CASE Claim
  BY <1>0, <1>6 DEF Claim, Documents
<1>7. CASE Mirror
  BY <1>0, <1>7 DEF Mirror
<1>8. CASE UNCHANGED vars  BY <1>8 DEF vars
<1> QED
  BY <1>a, <1>b, <1>c, <1>d, <1>e, <1>f, <1>g, <1>h, <1>i, <1>3, <1>4, <1>5, <1>6, <1>7,
     <1>8 DEF Next, Work

\* Executions are only ever added.
LEMMA RanGrows ==
    ASSUME Placed, [Next]_vars, NEW c \in Calls
    PROVE  ran'[c] >= ran[c]
<1>0. ran[c] \in Nat  BY DEF Placed, TypeOK
<1>1. CASE Execute
  <2>1. ran' = [ran EXCEPT ![Call] = @ + 1]  BY <1>1 DEF Execute
  <2> QED  BY <1>0, <2>1 DEF Placed, TypeOK
<1>2. CASE ran' = ran  BY <1>0, <1>2
<1>3. Execute \/ ran' = ran
  BY DEF Next, Work, Decide, vars, ghosts, Claim, Sweep, Enter, Think, Answer, NoAnswer,
         EndTurn, RejectCall, Mirror, Yield, YieldInLoop, OpenNodeGate, NextItem, EndStep,
         Checkpoint, Finish, Cancelled, MirrorFails, YieldFails, CheckpointFails, Click, Crash,
         DecideYielded, DecideListening, DecideOrphan
<1> QED  BY <1>1, <1>2, <1>3

LEMMA BehindKept ==
    ASSUME Placed, [Next]_vars, NEW turn \in Turns, NEW calls,
           NEW next \in 1 .. MaxCalls + 1, Behind(turn, calls, next)
    PROVE  \A i \in 1 .. next - 1 :
              ran'[<<turn, i>>] > 0 \/ calls[i] \in NodeGated \cap Recoverable
<1> USE AgentBoundsAssumption
<1> SUFFICES ASSUME NEW i \in 1 .. next - 1
             PROVE  ran'[<<turn, i>>] > 0 \/ calls[i] \in NodeGated \cap Recoverable
  OBVIOUS
<1>1. <<turn, i>> \in Calls  BY DEF Calls
<1>2. ran'[<<turn, i>>] >= ran[<<turn, i>>]  BY <1>1, RanGrows
<1>3. ran[<<turn, i>>] \in Nat /\ ran'[<<turn, i>>] \in Nat
  BY <1>1, StepPlaced DEF Placed, TypeOK
<1> QED  BY <1>2, <1>3 DEF Behind

LEMMA SnapshotBehindKept ==
    ASSUME Placed, [Next]_vars, NEW snapshot \in Snapshots, SnapshotBehind(snapshot),
           snapshot # None
    PROVE  \A i \in 1 .. snapshot.next - 1 :
              \/ ran'[<<snapshot.turn, i>>] > 0
              \/ snapshot.calls[i] \in NodeGated \cap Recoverable
<1>1. snapshot.turn \in Turns /\ snapshot.next \in 1 .. MaxCalls + 1
  BY SnapshotFields, AgentBoundsAssumption
<1> QED  BY <1>1, BehindKept DEF SnapshotBehind

\* What becomes of the turn of a pass.
Same == /\ InTurn
        /\ me'.turn = me.turn /\ me'.calls = me.calls /\ me'.next = me.next
Advanced ==
    /\ InTurn /\ me.next <= Len(me.calls)
    /\ me'.turn = me.turn /\ me'.calls = me.calls /\ me'.next = me.next + 1
    /\ ran' = [ran EXCEPT ![Call] = @ + 1] \/ Tool \in NodeGated \cap Recoverable

LEMMA TurnFrame ==
    ASSUME Placed, [Next]_vars, InTurn'
    PROVE  \/ Think
           \/ Enter /\ me' = ResumeTurn(me.resume) /\ me.resume # None
           \/ Same
           \/ Advanced
<1>0. me \in Passes  BY DEF Placed, TypeOK
<1>1. CASE \/ Claim \/ Yield \/ YieldFails \/ Finish \/ Crash \/ Cancelled \/ Answer \/ NoAnswer
           \/ EndTurn \/ RejectCall \/ YieldInLoop \/ NextItem \/ EndStep \/ Checkpoint
           \/ CheckpointFails
  BY <1>1 DEF Claim, Yield, YieldFails, Finish, Crash, Cancelled, Leave, Answer, NoAnswer,
       EndTurn, RejectCall, YieldInLoop, Return, NextItem, EndStep, Checkpoint,
       CheckpointFails, InTurn
<1>2. CASE Enter  BY <1>2 DEF Enter, InTurn
<1>3. CASE Mirror \/ MirrorFails \/ OpenNodeGate \/ Click
  BY <1>3 DEF Mirror, MirrorFails, OpenNodeGate, Click, AtCall, InTurn, Same
<1>4. CASE Sweep \/ UNCHANGED vars
  BY <1>4 DEF Sweep, vars, InTurn, Same
<1>5. ASSUME me' = [me EXCEPT !.next = @ + 1] \/ \E b \in BOOLEAN :
                me' = [me EXCEPT !.next = @ + 1, !.answered = b]
      PROVE  me'.turn = me.turn /\ me'.calls = me.calls /\ me'.next = me.next + 1
  BY <1>0, <1>5 DEF Passes
<1>6. CASE Execute
  <2>1. InTurn /\ me.next <= Len(me.calls) /\ ran' = [ran EXCEPT ![Call] = @ + 1]
    BY <1>6 DEF Execute, AtCall, InTurn, Placed, PlaceOK
  <2>2. CASE ToolFailed
    <3>1. me' = [me EXCEPT !.next = @ + 1]  BY <2>2 DEF ToolFailed, Return, InTurn
    <3> QED  BY <1>5, <2>1, <3>1 DEF Advanced
  <2>3. CASE me' = [me EXCEPT !.next = @ + 1, !.answered = @ \/ Tool = Final]
    <3>1. me' = [me EXCEPT !.next = @ + 1, !.answered = me.answered \/ Tool = Final]
      BY <1>0, <2>3 DEF Passes
    <3>2. (me.answered \/ Tool = Final) \in BOOLEAN  OBVIOUS
    <3> QED  BY <1>5, <2>1, <3>1, <3>2 DEF Advanced
  <2> QED  BY <1>6, <2>2, <2>3 DEF Execute
<1>7. CASE Decide
  <2>1. PICK v \in Verdicts : DecideYielded(v) \/ DecideListening(v) \/ DecideOrphan(v)
    BY <1>7 DEF Decide
  <2>2. CASE DecideYielded(v) \/ DecideOrphan(v)
    BY <2>2 DEF DecideYielded, DecideOrphan, InTurn, Same
  <2>3. CASE DecideListening(v)
    <3>1. InTurn /\ me.next <= Len(me.calls) /\ Tool \in NodeGated
      BY <2>3 DEF DecideListening, InTurn, Placed, PlaceOK
    <3>2. CASE me' = me  BY <3>1, <3>2 DEF Same
    <3>3. CASE ToolFailed
      <4>1. Tool \in Recoverable /\ me' = [me EXCEPT !.next = @ + 1]
        BY <3>3 DEF ToolFailed, Return, InTurn
      <4> QED  BY <1>5, <3>1, <4>1 DEF Advanced
    <3> QED  BY <2>3, <3>2, <3>3 DEF DecideListening
  <2> QED  BY <2>1, <2>2, <2>3
<1> QED  BY <1>1, <1>2, <1>3, <1>4, <1>6, <1>7 DEF Next, Work

LEMMA CompleteStep ==
    ASSUME Placed, Complete, [Next]_vars
    PROVE  Complete'
<1> USE AgentBoundsAssumption
<1>1. run.paused \in Snapshots \cup {None} /\ me.resume \in Snapshots \cup {None}
      /\ me \in Passes
  BY DEF Placed, TypeOK, Documents, Passes
<1>2. ASSUME InTurn
      PROVE  /\ me.turn \in Turns /\ me.next \in 1 .. MaxCalls + 1
             /\ \A i \in 1 .. me.next - 1 :
                   \/ ran'[<<me.turn, i>>] > 0
                   \/ me.calls[i] \in NodeGated \cap Recoverable
  <2>1. me.turn \in Turns /\ me.next \in 1 .. MaxCalls + 1
    BY <1>2, PassFields DEF Placed, PlaceOK, Turns, TypeOK
  <2> QED  BY <1>2, <2>1, BehindKept DEF Complete
<1>3. ASSUME InTurn'
      PROVE  Behind(me.turn, me.calls, me.next)'
  <2>1. CASE Think
    <3>1. me'.next = 1
      <4>1. PICK calls \in TurnsTaken :
               me' = [me EXCEPT !.turn = turns + 1, !.calls = calls, !.next = 1]
        BY <2>1 DEF Think
      <4> QED  BY <1>1, <4>1 DEF Passes
    <3> QED  BY <3>1 DEF Behind
  <2>2. CASE me' = ResumeTurn(me.resume) /\ me.resume # None
    <3>1. /\ me'.turn = me.resume.turn /\ me'.calls = me.resume.calls
          /\ me'.next = me.resume.next
      BY <1>1, <2>2 DEF ResumeTurn, Passes
    <3> QED  BY <1>1, <2>2, <3>1, SnapshotBehindKept DEF Complete, Behind
  <2>3. CASE Same
    BY <1>2, <2>3 DEF Same, Behind
  <2>4. CASE Advanced
    <3> SUFFICES ASSUME NEW i \in 1 .. me.next
                 PROVE  ran'[<<me.turn, i>>] > 0 \/ me.calls[i] \in NodeGated \cap Recoverable
      BY <1>2, <2>4 DEF Advanced, Behind
    <3>1. InTurn /\ me.next <= Len(me.calls)  BY <2>4 DEF Advanced
    <3>2. CASE i \in 1 .. me.next - 1  BY <1>2, <3>1, <3>2
    <3>3. CASE i = me.next
      <4>1. Call \in Calls /\ Call = <<me.turn, i>>  BY <3>1, <3>3, ToolOfCall DEF Call
      <4>2. CASE ran' = [ran EXCEPT ![Call] = @ + 1]
        <5>1. ran \in [Calls -> Nat]  BY DEF Placed, TypeOK
        <5> QED  BY <4>1, <4>2, <5>1
      <4>3. CASE Tool \in NodeGated \cap Recoverable  BY <3>3, <4>3 DEF Tool
      <4> QED  BY <2>4, <4>2, <4>3 DEF Advanced
    <3> QED  BY <1>2, <3>1, <3>2, <3>3
  <2> QED  BY <1>3, <2>1, <2>2, <2>3, <2>4, TurnFrame
<1>4. SnapshotBehind(run.paused)'
  <2>1. CASE run'.paused \in {run.paused, None}
    BY <1>1, <2>1, SnapshotBehindKept DEF Complete, SnapshotBehind, Behind
  <2>2. CASE Mirror
    <3>1. run'.paused = Snapshot /\ InTurn
      BY <2>2 DEF Mirror, AtCall, InTurn, Placed, TypeOK, Documents
    <3>2. Snapshot.turn = me.turn /\ Snapshot.calls = me.calls /\ Snapshot.next = me.next
      BY DEF Snapshot
    <3> QED  BY <1>2, <3>1, <3>2 DEF SnapshotBehind, Behind
  <2> QED  BY <2>1, <2>2, SnapshotFrame
<1>5. SnapshotBehind(me.resume)'
  <2>1. CASE me'.resume \in {me.resume, None}
    BY <1>1, <2>1, SnapshotBehindKept DEF Complete, SnapshotBehind, Behind
  <2>2. CASE Claim
    <3>1. me'.resume = run.paused  BY <2>2 DEF Claim, Idle
    <3> QED  BY <1>1, <3>1, SnapshotBehindKept DEF Complete, SnapshotBehind, Behind
  <2> QED  BY <2>1, <2>2, SnapshotFrame
<1> QED  BY <1>3, <1>4, <1>5 DEF Complete

\* NothingSkipped: a resumed turn leaves no call out.
THEOREM NoCallIsSkipped == Spec => []NothingSkipped
<1>1. Init => Complete
  BY NoneAssumption DEF Init, Complete, InTurn, SnapshotBehind, Idle
<1>2. Placed /\ Complete /\ [Next]_vars => Placed' /\ Complete'
  BY StepPlaced, CompleteStep
<1>3. Complete => NothingSkipped
  BY DEF Complete, NothingSkipped, InTurn, SnapshotBehind, Behind
<1> QED  BY <1>1, <1>2, <1>3, InitPlaced, PTL DEF Spec

-----------------------------------------------------------------------------
(***************************************************************************)
(* Each call once.  A call is ahead of the run while some pass may still   *)
(* come to it: its turn is not taken, or the pass is before it in its      *)
(* turn, or before it in the turn of a snapshot the run is yet to take up. *)
(* The count of a call is bounded by the passes that were cut off, plus    *)
(* one for the pass that is not; of a call that is ahead, by the former    *)
(* alone.  A pass that runs on without its lease, or from another place    *)
(* than the checkpoint's, owes: it is to be cut off, and its calls count   *)
(* against that already.                                                   *)
(***************************************************************************)
\* A guarded agent in a for_each of several items would take up its snapshot
\* again at each of them: the memory of the pass keeps it.
OneItem == \A s \in Steps : Plan[s].agent \in Guarded => Plan[s].items <= 1

Position == IF run.at = 0 THEN 1 ELSE run.at
Owing ==
    pc # "idle" /\ (run.lease # "held" \/ (pc # "saving" /\ me.at # Position))
Allowance == IF Owing THEN Setbacks ELSE Setbacks + 1

Reached(snapshot, first) ==
    \E s \in Steps : s >= first /\ Plan[s].agent = snapshot.agent

\* The first step the pass can still enter.
Coming == IF pc \in {"step", "saving"} THEN me.at ELSE me.at + 1

\* Snapshots on the document and in the memory that a pass may yet take up.
Stored == pc = "idle" /\ run.paused # None /\ Reached(run.paused, Position)
Carried == pc # "idle" /\ me.resume # None /\ Reached(me.resume, Coming)

RunAhead(c) ==
    \/ c[1] > turns
    \/ InTurn /\ c[1] = me.turn /\ c[2] >= me.next
    \/ Stored /\ c[1] = run.paused.turn /\ c[2] >= run.paused.next
    \/ Carried /\ c[1] = me.resume.turn /\ c[2] >= me.resume.next

\* The call a snapshot waits at has its decision, or is about to get it.
SettledStored ==
    /\ Position \in Steps /\ Plan[Position].agent = run.paused.agent
    /\ run.pending # None /\ run.pending.tool = run.paused.calls[run.paused.next]
    /\ run.pending.decision # None \/ run.status \notin {"queued", "running"}
SettledCarried ==
    /\ pc = "step" /\ me.at \in Steps /\ Plan[me.at].agent = me.resume.agent
    /\ me.approved[me.resume.calls[me.resume.next]] # None

AskAhead(c) ==
    \/ c[1] > turns
    \/ InTurn /\ c[1] = me.turn /\ c[2] > me.next
    \/ /\ pc = "dispatch" /\ c[1] = me.turn /\ c[2] = me.next
       /\ me.next <= Len(me.calls) => me.approved[Tool] = None
    \/ /\ Stored /\ c[1] = run.paused.turn
       /\ c[2] > run.paused.next \/ (c[2] = run.paused.next /\ ~SettledStored)
    \/ /\ Carried /\ c[1] = me.resume.turn
       /\ c[2] > me.resume.next \/ (c[2] = me.resume.next /\ ~SettledCarried)

Counted ==
    \A c \in Calls :
       /\ ran[c] <= Allowance /\ asked[c] <= Allowance
       /\ RunAhead(c) => ran[c] < Allowance
       /\ AskAhead(c) => asked[c] < Allowance

\* A pass is not in the turn of a snapshot it is still to take up.
OneTurn == InTurn /\ Carried => me.resume.turn # me.turn

\* A pass that yields has left its snapshot, or had a mirror that failed.
AtYield ==
    pc = "yield" =>
       run.paused = Snapshot \/ \A c \in Calls : ran[c] <= Setbacks /\ asked[c] <= Setbacks

Once == Placed /\ Counted /\ OneTurn /\ AtYield

\* A step that counts nothing: no call comes to be ahead, or one more pass was
\* cut off.
Forward ==
    \/ Allowance' > Allowance
    \/ /\ Allowance' >= Allowance
       /\ \A c \in Calls : (RunAhead(c)' => RunAhead(c)) /\ (AskAhead(c)' => AskAhead(c))

LEMMA AllowanceType ==
    ASSUME Placed
    PROVE  /\ used.crashes \in Nat /\ used.faults \in Nat /\ used.lost \in Nat
           /\ Setbacks \in Nat /\ Allowance \in Nat
           /\ \A c \in Calls : ran[c] \in Nat /\ asked[c] \in Nat
<1>1. used.crashes \in Nat /\ used.faults \in Nat /\ used.lost \in Nat
  BY DEF Placed, TypeOK, Budgets
<1>2. Setbacks \in Nat  BY <1>1 DEF Setbacks
<1>3. \A c \in Calls : ran[c] \in Nat /\ asked[c] \in Nat  BY DEF Placed, TypeOK
<1>4. Allowance \in Nat  BY <1>1 DEF Allowance, Setbacks
<1> QED  BY <1>1, <1>2, <1>3, <1>4

LEMMA NextAllowanceType ==
    ASSUME Placed'
    PROVE  /\ used'.crashes \in Nat /\ used'.faults \in Nat /\ used'.lost \in Nat
           /\ Setbacks' \in Nat /\ Allowance' \in Nat
           /\ \A c \in Calls : ran'[c] \in Nat /\ asked'[c] \in Nat
<1>1. used'.crashes \in Nat /\ used'.faults \in Nat /\ used'.lost \in Nat
  BY DEF Placed, TypeOK, Budgets
<1>2. Setbacks' \in Nat  BY <1>1 DEF Setbacks
<1>3. \A c \in Calls : ran'[c] \in Nat /\ asked'[c] \in Nat  BY DEF Placed, TypeOK
<1>4. Allowance' \in Nat  BY <1>1 DEF Allowance, Setbacks
<1> QED  BY <1>1, <1>2, <1>3, <1>4

LEMMA ForwardCounts ==
    ASSUME Once, Placed', Forward, ran' = ran, asked' = asked
    PROVE  Counted'
<1>1. /\ Allowance \in Nat /\ Allowance' \in Nat
      /\ \A c \in Calls : ran[c] \in Nat /\ asked[c] \in Nat
  BY AllowanceType, NextAllowanceType DEF Once
<1> SUFFICES ASSUME NEW c \in Calls
             PROVE  /\ ran[c] <= Allowance' /\ asked[c] <= Allowance'
                    /\ RunAhead(c)' => ran[c] < Allowance'
                    /\ AskAhead(c)' => asked[c] < Allowance'
  BY DEF Counted
<1>2. /\ ran[c] <= Allowance /\ asked[c] <= Allowance
      /\ RunAhead(c) => ran[c] < Allowance
      /\ AskAhead(c) => asked[c] < Allowance
  BY DEF Once, Counted
<1>3. CASE Allowance' > Allowance  BY <1>1, <1>2, <1>3
<1>4. CASE /\ Allowance' >= Allowance
           /\ (RunAhead(c)' => RunAhead(c)) /\ (AskAhead(c)' => AskAhead(c))
  BY <1>1, <1>2, <1>4
<1> QED  BY <1>3, <1>4 DEF Forward

\* A pass that ends although it owed, or with one more setback.
LEMMA CutOff ==
    ASSUME Placed, Placed', pc' = "idle", Setbacks' > Setbacks \/ (Owing /\ Setbacks' = Setbacks)
    PROVE  Forward
<1>1. ~Owing'  BY DEF Owing
<1>2. Allowance' > Allowance
  <2>1. CASE Setbacks' > Setbacks
    BY <1>1, <2>1, AllowanceType, NextAllowanceType DEF Allowance, Setbacks
  <2>2. CASE Owing /\ Setbacks' = Setbacks
    BY <1>1, <2>2, AllowanceType, NextAllowanceType DEF Allowance, Setbacks
  <2> QED  BY <2>1, <2>2
<1> QED  BY <1>2 DEF Forward

\* What stays when the plan's place, the lease and the bounds do.
LEMMA AllowanceKept ==
    ASSUME Placed, Placed', pc # "idle", pc' # "idle", run'.lease = run.lease,
           me'.at = me.at, run'.at = run.at, used' = used,
           (pc = "saving") <=> (pc' = "saving")
    PROVE  Allowance' = Allowance /\ Allowance' >= Allowance
<1>1. Owing' <=> Owing  BY DEF Owing, Position
<1>2. Allowance' = Allowance
  <2>1. CASE Owing  BY <1>1, <2>1 DEF Allowance, Setbacks
  <2>2. CASE ~Owing  BY <1>1, <2>2 DEF Allowance, Setbacks
  <2> QED  BY <2>1, <2>2
<1> QED  BY <1>2, AllowanceType

AheadKept ==
    \A c \in Calls : (RunAhead(c)' => RunAhead(c)) /\ (AskAhead(c)' => AskAhead(c))

LEMMA CallParts ==
    ASSUME NEW c \in Calls
    PROVE  c[1] \in Turns /\ c[1] \in Nat /\ c[2] \in Nat /\ c = <<c[1], c[2]>>
  BY AgentBoundsAssumption DEF Calls, Turns

\* A pass goes on: it does not go back in its turn, nor to a step it has left.
LEMMA PassGoesOn ==
    ASSUME Placed, Placed', pc # "idle", pc' # "idle", turns' = turns,
           me'.resume = me.resume,
           me.resume # None /\ Reached(me.resume, Coming)' => Reached(me.resume, Coming),
           InTurn' => InTurn /\ me'.turn = me.turn /\ me'.next >= me.next,
           pc' = "dispatch" => me'.next > me.next \/ (pc = "dispatch" /\ me' = me),
           pc # "step" \/ (pc' = pc /\ me' = me)
    PROVE  AheadKept
<1> USE AgentBoundsAssumption
<1>1. me.next \in Nat /\ me'.next \in Nat
  <2>1. me.next \in 1 .. MaxCalls + 1  BY PassFields
  <2>2. me'.next \in 1 .. MaxCalls + 1  BY DEF Placed, TypeOK, Passes
  <2> QED  BY <2>1, <2>2
<1>2. Carried' => Carried /\ me'.resume = me.resume  BY DEF Carried
<1>3. ~Stored'  BY DEF Stored
<1>4. SettledCarried => SettledCarried'  BY DEF SettledCarried
<1> SUFFICES ASSUME NEW c \in Calls
             PROVE  (RunAhead(c)' => RunAhead(c)) /\ (AskAhead(c)' => AskAhead(c))
  BY DEF AheadKept
<1>5. c[1] \in Nat /\ c[2] \in Nat  BY CallParts
<1>6. RunAhead(c)' => RunAhead(c)  BY <1>1, <1>2, <1>3, <1>5 DEF RunAhead
<1>7. AskAhead(c)' => AskAhead(c)
  <2>1. CASE pc' = "dispatch" /\ c[1] = me'.turn /\ c[2] = me'.next
             /\ (me'.next <= Len(me'.calls) => me'.approved[Tool'] = None)
    <3>1. CASE me'.next > me.next
      BY <1>1, <1>5, <2>1, <3>1 DEF AskAhead, InTurn
    <3>2. CASE pc = "dispatch" /\ me' = me
      BY <2>1, <3>2 DEF AskAhead, Tool
    <3> QED  BY <2>1, <3>1, <3>2
  <2>2. CASE InTurn' /\ c[1] = me'.turn /\ c[2] > me'.next
    BY <1>1, <1>5, <2>2 DEF AskAhead
  <2>3. CASE Carried' /\ c[1] = me'.resume.turn
             /\ (c[2] > me'.resume.next \/ (c[2] = me'.resume.next /\ ~SettledCarried'))
    BY <1>2, <1>4, <2>3 DEF AskAhead
  <2>4. CASE c[1] > turns'  BY <2>4 DEF AskAhead
  <2> QED  BY <1>3, <2>1, <2>2, <2>3, <2>4 DEF AskAhead
<1> QED  BY <1>6, <1>7

\* Places and what is still to come: a later one has less before it.
LEMMA ReachedLess ==
    ASSUME NEW snapshot, NEW first \in Nat, NEW later \in Nat, later >= first,
           Reached(snapshot, later)
    PROVE  Reached(snapshot, first)
<1>1. \A s \in Steps : s \in Nat  BY PlanTypes DEF Steps
<1> QED  BY <1>1 DEF Reached

\* The agent returns, the model answers, a gate opens or closes.
LEMMA TurnStepsForward ==
    ASSUME Placed, Placed',
           \/ Answer \/ NoAnswer \/ EndTurn \/ RejectCall \/ YieldInLoop
           \/ OpenNodeGate \/ Click
    PROVE  Allowance' = Allowance /\ Allowance' >= Allowance /\ AheadKept
<1>0. me \in Passes /\ run \in Documents  BY DEF Placed, TypeOK
<1>1. turns' = turns /\ used' = used
  BY DEF Answer, NoAnswer, EndTurn, RejectCall, YieldInLoop, OpenNodeGate, Click
<1>2. /\ pc \in {"think", "dispatch", "yield", "gate", "call"}
      /\ pc' \in {"left", "think"} \/ (pc' \in {"gate", "call"} /\ me' = me /\ InTurn)
  BY DEF Answer, NoAnswer, EndTurn, RejectCall, YieldInLoop, Return, OpenNodeGate, Click,
         AtCall, InTurn
<1>3. me'.at = me.at /\ me'.resume = me.resume
  BY <1>0 DEF Answer, NoAnswer, EndTurn, RejectCall, YieldInLoop, Return, OpenNodeGate, Click,
              TurnOver, Passes
<1>4. run'.at = run.at /\ run'.lease = run.lease
  BY <1>0 DEF Answer, NoAnswer, EndTurn, RejectCall, YieldInLoop, OpenNodeGate, Click,
              CloseGate, Documents
<1>5. Allowance' = Allowance /\ Allowance' >= Allowance
  BY <1>1, <1>2, <1>3, <1>4, AllowanceKept
<1>6. Coming' = Coming  BY <1>2, <1>3 DEF Coming
<1>7. Reached(me.resume, Coming)' => Reached(me.resume, Coming)
  BY <1>3, <1>6 DEF Reached
<1>8. InTurn' => InTurn /\ me'.turn = me.turn /\ me'.next >= me.next
  <2>1. me.next \in Nat  BY PassFields, AgentBoundsAssumption
  <2> QED  BY <1>2, <2>1 DEF InTurn
<1>9. AheadKept  BY <1>1, <1>2, <1>3, <1>7, <1>8, PassGoesOn
<1> QED  BY <1>5, <1>9

\* A new turn: none of its calls was made.
LEMMA ThinkForward ==
    ASSUME Once, Placed', Think
    PROVE  Forward /\ OneTurn'
<1> USE AgentBoundsAssumption
<1>0. Placed /\ me \in Passes /\ turns \in Nat  BY DEF Once, Placed, TypeOK
<1>1. PICK calls \in TurnsTaken :
         me' = [me EXCEPT !.turn = turns + 1, !.calls = calls, !.next = 1]
  BY DEF Think
<1>2. /\ me'.turn = turns + 1 /\ me'.next = 1 /\ me'.at = me.at /\ me'.resume = me.resume
  BY <1>0, <1>1 DEF Passes
<1>3. /\ pc = "think" /\ pc' = "dispatch" /\ turns' = turns + 1 /\ run' = run /\ used' = used
  BY DEF Think
<1>4. Allowance' >= Allowance  BY <1>0, <1>2, <1>3, AllowanceKept
<1>5. Carried' => Carried
  <2>1. Coming' = Coming  BY <1>2, <1>3 DEF Coming
  <2> QED  BY <1>2, <1>3, <2>1 DEF Carried, Reached
<1>6. ASSUME NEW c \in Calls
      PROVE  (RunAhead(c)' => RunAhead(c)) /\ (AskAhead(c)' => AskAhead(c))
  <2>1. c[1] \in Nat /\ c[2] \in Nat  BY CallParts
  <2>2. (c[1] > turns \/ Carried) /\ c[1] = turns + 1 => c[1] > turns  BY <1>0, <2>1
  <2>3. c[1] > turns + 1 => c[1] > turns  BY <1>0, <2>1
  <2>4. RunAhead(c)' => RunAhead(c)
    BY <1>0, <1>2, <1>3, <1>5, <2>1, <2>3 DEF RunAhead, Stored
  <2>5. AskAhead(c)' => AskAhead(c)
    BY <1>0, <1>2, <1>3, <1>5, <2>1, <2>3 DEF AskAhead, Stored, SettledCarried
  <2> QED  BY <2>4, <2>5
<1>7. OneTurn'
  <2> SUFFICES ASSUME Carried' PROVE me.resume.turn # turns + 1
    BY <1>2 DEF OneTurn
  <2>1. me.resume # None  BY <1>5 DEF Carried
  <2>2. me.resume \in Snapshots  BY <1>0, <2>1 DEF Passes
  <2>3. me.resume.turn \in Nat  BY <2>2, SnapshotFields DEF Turns
  <2>4. me.resume.turn <= turns  BY <1>0, <2>1 DEF Placed, PlaceOK, SnapshotOK
  <2> QED  BY <1>0, <2>3, <2>4
<1> QED  BY <1>4, <1>6, <1>7 DEF Forward

\* A step visited is not visited again, so its snapshot is taken up once.
LEMMA TakenUp ==
    ASSUME Placed, me.at \in Steps, Plan[me.at].agent = me.resume.agent
    PROVE  ~Reached(me.resume, me.at + 1)
<1>1. SUFFICES ASSUME NEW s \in Steps, s >= me.at + 1, Plan[s].agent = me.resume.agent
               PROVE  FALSE
  BY DEF Reached
<1>2. s = me.at  BY <1>1, NodesAssumption
<1> QED  BY <1>1, <1>2, PlanTypes DEF Steps

LEMMA EnterForward ==
    ASSUME Once, Placed', Enter
    PROVE  Forward /\ OneTurn'
<1> USE AgentBoundsAssumption
<1>0. Placed /\ me \in Passes /\ turns \in Nat /\ me.at \in Steps /\ me.at \in Nat
  BY PlanTypes DEF Once, Placed, TypeOK, Enter, Steps
<1>1. pc = "step" /\ turns' = turns /\ run' = run /\ used' = used  BY DEF Enter
<1>2. pc' \in {"dispatch", "think"} /\ me'.at = me.at /\ me'.resume = me.resume
  BY <1>0 DEF Enter, ResumeTurn, Passes
<1>3. Allowance' >= Allowance  BY <1>0, <1>1, <1>2, AllowanceKept
<1>4. Coming = me.at /\ Coming' = me.at + 1  BY <1>1, <1>2 DEF Coming
<1>5. CASE me' = ResumeTurn(me.resume) /\ pc' = "dispatch" /\ me.resume # None
           /\ me.resume.agent = Agent
  <2>1. ~Carried'  BY <1>0, <1>2, <1>4, <1>5, TakenUp DEF Carried, Agent, Reached
  <2>2. Carried
    <3>1. me.at >= me.at  BY <1>0
    <3> QED  BY <1>0, <1>1, <1>4, <1>5, <3>1 DEF Carried, Reached, Agent
  <2>3. /\ me'.turn = me.resume.turn /\ me'.next = me.resume.next
        /\ me'.calls = me.resume.calls /\ me'.approved = Merged(me.resume)
    BY <1>0, <1>5 DEF ResumeTurn, Passes
  <2>4. me.resume \in Snapshots /\ SnapshotOK(me.resume)
    BY <1>0, <1>5 DEF Placed, PlaceOK, Passes
  <2>5. /\ me.resume.calls[me.resume.next] \in AllTools
        /\ me.resume.next <= Len(me.resume.calls)
    <3>1. me.resume.calls \in TurnsTaken /\ me.resume.next \in 1 .. MaxCalls
          /\ me.resume.next <= Len(me.resume.calls)
      BY <1>5, <2>4, SnapshotFields DEF SnapshotOK
    <3> QED  BY <3>1, TurnIsSequence
  <2>6. SettledCarried => Merged(me.resume)[me.resume.calls[me.resume.next]] # None
    BY <2>5 DEF Merged, SettledCarried
  <2>7. ASSUME NEW c \in Calls
        PROVE  (RunAhead(c)' => RunAhead(c)) /\ (AskAhead(c)' => AskAhead(c))
    <3>1. c[1] \in Nat /\ c[2] \in Nat  BY CallParts
    <3>2. ~Stored'  BY <1>2 DEF Stored
    <3>3. RunAhead(c)' => RunAhead(c)
      BY <1>1, <1>5, <2>1, <2>2, <2>3, <3>1, <3>2 DEF RunAhead, InTurn
    <3>4. AskAhead(c)' => AskAhead(c)
      BY <1>1, <1>5, <2>1, <2>2, <2>3, <2>5, <2>6, <3>1, <3>2 DEF AskAhead, InTurn, Tool
    <3> QED  BY <3>3, <3>4
  <2> QED  BY <1>3, <2>1, <2>7 DEF Forward, OneTurn
<1>6. CASE pc' = "think"
  <2>1. ~InTurn' /\ ~Stored'  BY <1>6 DEF InTurn, Stored
  <2>2. Carried' => Carried /\ ~SettledCarried
    <3> SUFFICES ASSUME Carried' PROVE Carried /\ ~SettledCarried  OBVIOUS
    <3>1. me.resume # None /\ Reached(me.resume, me.at + 1)
      BY <1>2, <1>4 DEF Carried, Reached
    <3>2. Reached(me.resume, me.at)  BY <1>0, <3>1, ReachedLess
    <3> QED  BY <1>0, <1>1, <1>4, <3>1, <3>2, TakenUp DEF Carried, SettledCarried
  <2>3. ASSUME NEW c \in Calls
        PROVE  (RunAhead(c)' => RunAhead(c)) /\ (AskAhead(c)' => AskAhead(c))
    BY <1>1, <1>2, <1>6, <2>1, <2>2 DEF RunAhead, AskAhead
  <2> QED  BY <1>3, <2>1, <2>3 DEF Forward, OneTurn
<1> QED  BY <1>5, <1>6 DEF Enter

\* The claim hands the snapshot and the decision over.
LEMMA ClaimForward ==
    ASSUME Once, Placed', Claim
    PROVE  Forward /\ OneTurn'
<1> USE AgentBoundsAssumption
<1>0. Placed /\ run \in Documents  BY DEF Once, Placed, TypeOK
<1>1. /\ pc = "idle" /\ pc' = "step" /\ turns' = turns /\ used' = used
      /\ run.status \in {"queued", "running"}
  BY DEF Claim, Claimable
<1>2. /\ run'.lease = "held" /\ run'.at = run.at /\ run'.paused = run.paused
  BY <1>0 DEF Claim, Documents
<1>3. /\ me'.at = Position /\ me'.resume = run.paused /\ me'.approved = Hydrated(run.pending)
  BY DEF Claim, Idle, Position
<1>4. ~Owing /\ ~Owing'  BY <1>1, <1>2, <1>3 DEF Owing, Position
<1>5. Allowance' >= Allowance
  BY <1>0, <1>1, <1>4, AllowanceType DEF Allowance, Setbacks
<1>6. Carried' <=> Stored
  BY <1>1, <1>3 DEF Carried, Stored, Coming, Reached
<1>7. Stored /\ SettledStored => SettledCarried'
  <2> SUFFICES ASSUME Stored, SettledStored PROVE SettledCarried'  OBVIOUS
  <2>1. run.pending.decision # None /\ run.pending # None
        /\ run.pending.tool = run.paused.calls[run.paused.next]
    BY <1>1 DEF SettledStored
  <2>2. run.pending.tool \in AllTools  BY <1>0, <2>1 DEF Documents, Pendings
  <2>3. Hydrated(run.pending)[run.pending.tool] = run.pending.decision
    BY <2>1, <2>2 DEF Hydrated, Unasked
  <2> QED  BY <1>1, <1>3, <2>1, <2>3 DEF SettledCarried, SettledStored
<1>8. ~InTurn' /\ ~Stored'  BY <1>1 DEF InTurn, Stored
<1>9. ASSUME NEW c \in Calls
      PROVE  (RunAhead(c)' => RunAhead(c)) /\ (AskAhead(c)' => AskAhead(c))
  BY <1>1, <1>3, <1>6, <1>7, <1>8 DEF RunAhead, AskAhead
<1> QED  BY <1>5, <1>8, <1>9 DEF Forward, OneTurn

\* Passes that end in the middle.
LEMMA SetbackForward ==
    ASSUME Placed, Placed', Crash \/ YieldFails \/ Cancelled
    PROVE  Forward
<1>0. used \in Budgets  BY DEF Placed, TypeOK
<1>1. pc' = "idle"  BY DEF Crash, YieldFails, Cancelled, Leave
<1>2. CASE Crash \/ YieldFails
  <2>1. \/ used' = [used EXCEPT !.crashes = used.crashes + 1]
        \/ used' = [used EXCEPT !.faults = used.faults + 1]
    BY <1>0, <1>2 DEF Crash, YieldFails, Budgets
  <2>2. Setbacks' > Setbacks
    BY <1>0, <2>1, AllowanceType DEF Setbacks, Budgets
  <2> QED  BY <1>1, <2>2, CutOff
<1>3. CASE Cancelled
  <2>1. Owing /\ Setbacks' = Setbacks  BY <1>3 DEF Cancelled, Owing, Setbacks
  <2> QED  BY <1>1, <2>1, CutOff
<1> QED  BY <1>2, <1>3

\* A mirror that fails leaves the call to be asked again: a setback.
LEMMA MirrorFailsForward ==
    ASSUME Once, Placed', MirrorFails
    PROVE  Forward /\ OneTurn' /\ AtYield'
<1>0. Placed /\ used \in Budgets  BY DEF Once, Placed, TypeOK
<1>1. /\ pc = "dispatch" /\ pc' = "yield" /\ me' = me /\ run' = run /\ ran' = ran
      /\ asked' = asked
  BY DEF MirrorFails, AtCall, ghosts
<1>2. used' = [used EXCEPT !.faults = used.faults + 1, !.astray = TRUE]
  BY <1>0 DEF MirrorFails, Budgets
<1>3. Owing' <=> Owing  BY <1>1 DEF Owing, Position
<1>4. used'.crashes = used.crashes /\ used'.faults = used.faults + 1 /\ used'.lost = used.lost
  BY <1>0, <1>2 DEF Budgets
<1>5. Allowance' > Allowance /\ Setbacks' >= Allowance /\ Setbacks' \in Nat
  <2>1. CASE Owing
    BY <1>0, <1>3, <1>4, <2>1, AllowanceType DEF Allowance, Setbacks
  <2>2. CASE ~Owing
    BY <1>0, <1>3, <1>4, <2>2, AllowanceType DEF Allowance, Setbacks
  <2> QED  BY <2>1, <2>2
<1>6. OneTurn'
  <2>1. InTurn /\ (Carried' <=> Carried)
    BY <1>1 DEF InTurn, Carried, Coming, Reached
  <2> QED  BY <1>1, <2>1 DEF Once, OneTurn
<1>7. \A c \in Calls : ran'[c] <= Setbacks' /\ asked'[c] <= Setbacks'
  <2> SUFFICES ASSUME NEW c \in Calls
               PROVE  ran[c] <= Setbacks' /\ asked[c] <= Setbacks'
    BY <1>1
  <2>1. ran[c] <= Allowance /\ asked[c] <= Allowance  BY DEF Once, Counted
  <2> QED  BY <1>0, <1>5, <2>1, AllowanceType
<1> QED  BY <1>5, <1>6, <1>7 DEF Forward, AtYield

\* The yield: the snapshot waits on the document, settled by who decides.
LEMMA YieldCounts ==
    ASSUME Once, Placed', Yield
    PROVE  Counted'
<1> USE AgentBoundsAssumption
<1>0. Placed /\ run \in Documents /\ me \in Passes  BY DEF Once, Placed, TypeOK
<1>1. /\ pc = "yield" /\ pc' = "idle" /\ turns' = turns /\ used' = used
      /\ ran' = ran /\ asked' = asked /\ Setbacks' = Setbacks
  BY DEF Yield, Leave, ghosts, Setbacks
<1>2. CASE Owing
  <2>1. Forward  BY <1>0, <1>1, <1>2, CutOff
  <2> QED  BY <1>1, <2>1, ForwardCounts
<1>3. CASE ~Owing
  <2>1. run.lease = "held" /\ me.at = Position  BY <1>1, <1>3 DEF Owing
  <2>2. ~Owing' /\ ~InTurn' /\ ~Carried'  BY <1>1 DEF Owing, InTurn, Carried
  <2>3. Allowance' = Allowance /\ Allowance = Setbacks + 1 /\ Setbacks \in Nat
    BY <1>0, <1>1, <1>3, <2>2, AllowanceType DEF Allowance, Setbacks
  <2>4. CASE \A c \in Calls : ran[c] <= Setbacks /\ asked[c] <= Setbacks
    <3> SUFFICES ASSUME NEW c \in Calls
                 PROVE  ran[c] < Allowance' /\ asked[c] < Allowance'
                        /\ ran[c] <= Allowance' /\ asked[c] <= Allowance'
      BY <1>1 DEF Counted
    <3>1. ran[c] <= Setbacks /\ asked[c] <= Setbacks  BY <2>4
    <3>2. ran[c] \in Nat /\ asked[c] \in Nat  BY <1>0, AllowanceType
    <3> QED  BY <2>3, <3>1, <3>2
  <2>5. CASE run.paused = Snapshot
    <3> DEFINE gated == [call |-> Call, tool |-> Tool, decision |-> None]
    <3>1. run' = [run EXCEPT !.status = "pending_approval", !.at = me.at, !.pending = gated,
                             !.lease = "none"]
      BY <2>1 DEF Yield
    <3>2. gated.tool = Tool  OBVIOUS
    <3> HIDE DEF gated
    <3>3. /\ run'.status = "pending_approval" /\ run'.at = me.at /\ run'.pending = gated
          /\ run'.paused = Snapshot
      BY <1>0, <2>5, <3>1 DEF Documents
    <3>4. /\ Snapshot.agent = Agent /\ Snapshot.turn = me.turn /\ Snapshot.next = me.next
          /\ Snapshot.calls = me.calls
      BY DEF Snapshot
    <3>5. me.at \in Steps /\ me.at # 0  BY <1>0, <1>1, PlanTypes DEF Placed, PlaceOK, Steps
    <3>6. gated # None
      <4>1. gated \in Pendings
        <5>1. Tool \in AllTools /\ Call \in Calls
          BY <1>0, <1>1, ToolOfCall DEF InTurn, Placed, PlaceOK
        <5> QED  BY <5>1 DEF gated, Pendings
      <4> QED  BY <4>1, NoneAssumption
    <3>7. SettledStored'
      BY <3>2, <3>3, <3>4, <3>5, <3>6 DEF SettledStored, Position, Tool, Agent
    <3>8. InTurn  BY <1>1 DEF InTurn
    <3>9. ASSUME NEW c \in Calls
          PROVE  (RunAhead(c)' => RunAhead(c)) /\ (AskAhead(c)' => AskAhead(c))
      BY <1>1, <2>2, <3>3, <3>4, <3>7, <3>8 DEF RunAhead, AskAhead
    <3>10. Allowance' >= Allowance  BY <1>0, <2>3, AllowanceType
    <3>11. Forward  BY <3>9, <3>10 DEF Forward
    <3> QED  BY <1>1, <3>11, ForwardCounts
  <2> QED  BY <1>1, <2>4, <2>5 DEF Once, AtYield
<1> QED  BY <1>2, <1>3

\* The end of a pass.
LEMMA FinishForward ==
    ASSUME Placed, Placed', Finish
    PROVE  Forward
<1> USE AgentBoundsAssumption
<1>0. run \in Documents /\ me \in Passes  BY DEF Placed, TypeOK
<1>1. /\ pc = "step" /\ pc' = "idle" /\ me.at \notin Steps /\ turns' = turns
      /\ used' = used /\ Setbacks' = Setbacks
  BY DEF Finish, Leave, ghosts, Setbacks
<1>2. CASE Owing  BY <1>1, <1>2, CutOff
<1>3. CASE ~Owing
  <2>1. me.at = Len(Plan) + 1 /\ Position = me.at
    <3>1. me.at \in 1 .. Len(Plan) + 1  BY PassFields
    <3> QED  BY <1>1, <1>3, <3>1, PlanTypes DEF Owing, Steps
  <2>2. ~Owing' /\ ~InTurn' /\ ~Carried'  BY <1>1 DEF Owing, InTurn, Carried
  <2>3. Allowance' >= Allowance
    BY <1>1, <1>3, <2>2, AllowanceType DEF Allowance, Setbacks
  <2>4. ~Stored'
    <3>1. CASE run.status = "pending_approval"
      <4>1. run'.at = run.at  BY <1>0, <3>1 DEF Finish, Documents
      <4>2. Position' = Len(Plan) + 1  BY <2>1, <4>1 DEF Position
      <4>3. \A s \in Steps : ~(s >= Len(Plan) + 1)  BY PlanTypes DEF Steps
      <4> QED  BY <4>2, <4>3 DEF Stored, Reached
    <3>2. CASE run.status # "pending_approval"
      <4>1. run'.paused = None  BY <3>2 DEF Finish
      <4> QED  BY <4>1 DEF Stored
    <3> QED  BY <3>1, <3>2
  <2>5. AheadKept
    <3> SUFFICES ASSUME NEW c \in Calls
                 PROVE  (RunAhead(c)' => RunAhead(c)) /\ (AskAhead(c)' => AskAhead(c))
      BY DEF AheadKept
    <3> QED  BY <1>1, <2>2, <2>4 DEF RunAhead, AskAhead
  <2> QED  BY <2>3, <2>5 DEF Forward, AheadKept
<1> QED  BY <1>2, <1>3

\* The next item of a for_each, and the end of a step.
LEMMA StepEndForward ==
    ASSUME OneItem, Placed, Placed', NextItem \/ EndStep
    PROVE  Forward
<1>0. me \in Passes /\ me.at \in Steps /\ me.at \in Nat
  BY PlanTypes DEF Placed, TypeOK, PlaceOK, NextItem, EndStep, Steps
<1>1. /\ pc = "left" /\ pc' \in {"step", "saving"} /\ turns' = turns /\ run' = run
      /\ used' = used /\ me'.resume = me.resume
  BY <1>0 DEF NextItem, EndStep, ghosts, Passes
<1>2. Coming = me.at + 1 /\ Coming' = me'.at  BY <1>1 DEF Coming
<1>3. CASE NextItem
  <2>1. me'.at = me.at /\ pc' = "step"  BY <1>0, <1>3 DEF NextItem, Passes
  <2>2. Allowance' >= Allowance  BY <1>1, <2>1, AllowanceKept
  <2>3. Plan[me.at].items > 1
    <3>1. me.item \in Nat /\ Plan[me.at].items \in Nat
      BY <1>0, PassFields, PlanTypes
    <3> QED  BY <1>3, <3>1 DEF NextItem
  <2>4. Agent \notin Guarded
    BY <1>0, <2>3, PlanTypes DEF OneItem, Agent
  <2>5. me.resume # None /\ Reached(me.resume, Coming)' => Reached(me.resume, Coming)
    <3> SUFFICES ASSUME me.resume # None, NEW s \in Steps, s >= me.at,
                        Plan[s].agent = me.resume.agent
                 PROVE  s >= me.at + 1
      BY <1>1, <1>2, <2>1 DEF Reached
    <3>1. me.resume.agent \in Guarded  BY DEF Placed, PlaceOK, SnapshotOK
    <3>2. s # me.at  BY <2>4, <3>1 DEF Agent
    <3> QED  BY <1>0, <3>2, PlanTypes DEF Steps
  <2>6. AheadKept
    BY <1>1, <2>1, <2>5, PassGoesOn DEF InTurn
  <2> QED  BY <2>2, <2>6 DEF Forward, AheadKept
<1>4. CASE EndStep
  <2>1. me'.at = IF Fatal THEN Len(Plan) + 1 ELSE me.at + 1
    BY <1>0, <1>4 DEF EndStep, Passes
  <2>2. me'.at \in Nat /\ me'.at >= me.at + 1  BY <1>0, <2>1, PlanTypes DEF Steps
  <2>3. pc' = "saving"  BY <1>4 DEF EndStep
  <2>4. Owing' => Owing  BY <1>1, <2>3 DEF Owing
  <2>5. Allowance' >= Allowance
    <3>1. CASE Owing'
      BY <1>1, <2>4, <3>1, AllowanceType DEF Allowance, Setbacks
    <3>2. CASE ~Owing'
      BY <1>1, <3>2, AllowanceType DEF Allowance, Setbacks
    <3> QED  BY <3>1, <3>2
  <2>6. Reached(me.resume, Coming)' => Reached(me.resume, Coming)
    <3> SUFFICES ASSUME Reached(me.resume, me'.at) PROVE Reached(me.resume, me.at + 1)
      BY <1>1, <1>2 DEF Reached
    <3> QED  BY <1>0, <2>2, ReachedLess
  <2>7. AheadKept
    BY <1>1, <2>3, <2>6, PassGoesOn DEF InTurn
  <2> QED  BY <2>5, <2>7 DEF Forward, AheadKept
<1> QED  BY <1>3, <1>4

\* The checkpoint after a step.
LEMMA CheckpointForward ==
    ASSUME Placed, Placed', Checkpoint \/ CheckpointFails
    PROVE  Forward
<1>0. me \in Passes /\ run \in Documents /\ used \in Budgets  BY DEF Placed, TypeOK
<1>1. pc = "saving" /\ turns' = turns
  BY DEF Checkpoint, CheckpointFails
<1>2. CASE run.lease # "held"
  <2>1. pc' = "idle" /\ used' = used  BY <1>2 DEF Checkpoint, CheckpointFails, Leave
  <2>2. Owing /\ Setbacks' = Setbacks  BY <1>1, <1>2, <2>1 DEF Owing, Setbacks
  <2> QED  BY <2>1, <2>2, CutOff
<1>3. CASE run.lease = "held"
  <2>1. pc' = "step" /\ me' = me /\ run'.lease = "held"
    BY <1>0, <1>3 DEF Checkpoint, CheckpointFails, Documents
  <2>2. ~Owing  BY <1>1, <1>3 DEF Owing
  <2>3. Allowance' >= Allowance
    <3>1. CASE Checkpoint
      <4>1. me.at # 0  BY PassFields, PlanTypes
      <4>2. run'.at = me.at /\ used' = used
        BY <1>0, <1>3, <3>1 DEF Checkpoint, Documents
      <4>3. ~Owing'  BY <2>1, <4>1, <4>2 DEF Owing, Position
      <4> QED  BY <2>2, <4>2, <4>3, AllowanceType DEF Allowance, Setbacks
    <3>2. CASE CheckpointFails
      <4>1. used' = [used EXCEPT !.faults = used.faults + 1]
        BY <1>0, <3>2 DEF CheckpointFails, Budgets
      <4>2. used'.crashes = used.crashes /\ used'.faults = used.faults + 1
            /\ used'.lost = used.lost
        BY <1>0, <4>1 DEF Budgets
      <4>3. CASE Owing'
        BY <2>2, <4>2, <4>3, AllowanceType DEF Allowance, Setbacks
      <4>4. CASE ~Owing'
        BY <2>2, <4>2, <4>4, AllowanceType DEF Allowance, Setbacks
      <4> QED  BY <4>3, <4>4
    <3> QED  BY <3>1, <3>2
  <2>4. Coming' = Coming  BY <1>1, <2>1 DEF Coming
  <2>5. AheadKept
    BY <1>1, <2>1, <2>4, PassGoesOn DEF InTurn, Reached
  <2> QED  BY <2>3, <2>5 DEF Forward, AheadKept
<1> QED  BY <1>2, <1>3

\* A run is given up, or decided about, while nobody runs it.
LEMMA IdleForward ==
    ASSUME Placed, Placed', pc = "idle", pc' = "idle", turns' = turns,
           Setbacks' = Setbacks, run'.at = run.at, run'.paused \in {run.paused, None},
           SettledStored => SettledStored'
    PROVE  Forward
<1>1. ~Owing /\ ~Owing'  BY DEF Owing
<1>2. Allowance' >= Allowance  BY <1>1, AllowanceType DEF Allowance, Setbacks
<1>3. Stored' => Stored /\ run'.paused = run.paused  BY DEF Stored, Reached, Position
<1>4. ~InTurn' /\ ~Carried'  BY DEF InTurn, Carried
<1>5. AheadKept
  <2> SUFFICES ASSUME NEW c \in Calls
               PROVE  (RunAhead(c)' => RunAhead(c)) /\ (AskAhead(c)' => AskAhead(c))
    BY DEF AheadKept
  <2> QED  BY <1>3, <1>4 DEF RunAhead, AskAhead
<1> QED  BY <1>2, <1>5 DEF Forward, AheadKept

LEMMA SweepForward ==
    ASSUME Placed, Placed', Sweep
    PROVE  Forward
<1>0. run \in Documents  BY DEF Placed, TypeOK
<1>1. pc = "idle" /\ pc' = "idle" /\ turns' = turns /\ Setbacks' = Setbacks
  BY DEF Sweep, Placed, PlaceOK, Setbacks
<1>2. run'.at = run.at /\ run'.paused = None /\ run'.status = "error"
      /\ run'.pending = run.pending
  BY <1>0 DEF Sweep, Documents
<1>3. ~Owing /\ ~Owing'  BY <1>1 DEF Owing
<1>4. Allowance' >= Allowance  BY <1>1, <1>3, AllowanceType DEF Allowance, Setbacks
<1>5. ~Stored' /\ ~InTurn' /\ ~Carried'  BY <1>1, <1>2 DEF Stored, InTurn, Carried
<1>6. AheadKept
  <2> SUFFICES ASSUME NEW c \in Calls
               PROVE  (RunAhead(c)' => RunAhead(c)) /\ (AskAhead(c)' => AskAhead(c))
    BY DEF AheadKept
  <2> QED  BY <1>1, <1>5 DEF RunAhead, AskAhead
<1> QED  BY <1>4, <1>6 DEF Forward, AheadKept

\* A decision that reaches a live pass out of band moves its call on, or not;
\* one written to the document cuts a live pass off.
LEMMA DecideForward ==
    ASSUME Placed, Placed', Decide
    PROVE  Forward
<1>0. run \in Documents /\ me \in Passes /\ used \in Budgets  BY DEF Placed, TypeOK
<1>1. PICK v \in Verdicts : DecideYielded(v) \/ DecideListening(v) \/ DecideOrphan(v)
  BY DEF Decide
<1>2. turns' = turns  BY <1>1 DEF DecideYielded, DecideListening, DecideOrphan
<1>3. CASE DecideListening(v)
  <2>1. /\ pc = "gate" /\ InTurn /\ me.next <= Len(me.calls)
        /\ run'.at = run.at /\ run'.lease = run.lease
    BY <1>0, <1>3 DEF DecideListening, CloseGate, Documents, InTurn, Placed, PlaceOK
  <2>2. used'.crashes = used.crashes /\ used'.faults = used.faults /\ used'.lost = used.lost
    BY <1>0, <1>3 DEF DecideListening, Budgets
  <2>3. \/ pc' = "call" /\ me' = me
        \/ pc' = "left" /\ me' = [me EXCEPT !.outcome = "error"]
        \/ pc' = "dispatch" /\ me' = [me EXCEPT !.next = me.next + 1]
    BY <1>0, <1>3 DEF DecideListening, ToolFailed, Return, Passes
  <2>4. /\ me'.at = me.at /\ me'.resume = me.resume /\ me'.turn = me.turn
        /\ pc' = "call" => me'.next = me.next
        /\ pc' = "dispatch" => me'.next = me.next + 1
    BY <1>0, <2>3 DEF Passes
  <2>5. Owing' <=> Owing  BY <2>1, <2>3, <2>4 DEF Owing, Position
  <2>6. Allowance' >= Allowance
    <3>1. CASE Owing  BY <2>2, <2>5, <3>1, AllowanceType DEF Allowance, Setbacks
    <3>2. CASE ~Owing  BY <2>2, <2>5, <3>2, AllowanceType DEF Allowance, Setbacks
    <3> QED  BY <3>1, <3>2
  <2>7. Coming' = Coming  BY <2>1, <2>3, <2>4 DEF Coming
  <2>8. me.next \in Nat  BY PassFields, AgentBoundsAssumption
  <2>9. InTurn' => InTurn /\ me'.turn = me.turn /\ me'.next >= me.next
    BY <2>1, <2>3, <2>4, <2>8 DEF InTurn
  <2>10. pc' = "dispatch" => me'.next > me.next  BY <2>4, <2>8
  <2>11. AheadKept
    BY <1>2, <2>1, <2>3, <2>4, <2>7, <2>9, <2>10, PassGoesOn DEF Reached
  <2> QED  BY <2>6, <2>11 DEF Forward, AheadKept
<1>4. CASE DecideYielded(v)
  <2>1. pc' = pc /\ me' = me  BY <1>4 DEF DecideYielded
  <2>2. run.pending # None /\ run.pending \in Pendings
    BY <1>0, <1>4 DEF DecideYielded, Documents
  <2>3. /\ run'.at = run.at /\ run'.paused = run.paused /\ run'.lease = "none"
        /\ run'.pending = [run.pending EXCEPT !.decision = v]
    BY <1>0, <1>4 DEF DecideYielded, Documents
  <2>4. run'.pending \in Pendings /\ run'.pending.decision = v
        /\ run'.pending.tool = run.pending.tool
    BY <2>2, <2>3 DEF Pendings
  <2>5. used'.crashes = used.crashes /\ used'.faults = used.faults
        /\ used'.lost = (IF pc = "idle" THEN used.lost ELSE used.lost + 1)
    BY <1>0, <1>4 DEF DecideYielded, Budgets
  <2>6. CASE pc = "idle"
    <3>1. Setbacks' = Setbacks  BY <2>5, <2>6 DEF Setbacks
    <3>2. SettledStored => SettledStored'
      BY <2>3, <2>4, NoneAssumption DEF SettledStored, Position
    <3> QED  BY <1>2, <2>1, <2>3, <2>6, <3>1, <3>2, IdleForward
  <2>7. CASE pc # "idle"
    <3>1. Allowance' >= Allowance
      <4>1. Owing'  BY <2>1, <2>3, <2>7 DEF Owing
      <4>2. CASE Owing
        BY <2>5, <2>7, <4>1, <4>2, AllowanceType DEF Allowance, Setbacks
      <4>3. CASE ~Owing
        BY <2>5, <2>7, <4>1, <4>3, AllowanceType DEF Allowance, Setbacks
      <4> QED  BY <4>2, <4>3
    <3>2. me.next \in Nat  BY PassFields, AgentBoundsAssumption
    <3>3. Coming' = Coming /\ (InTurn' <=> InTurn)  BY <2>1 DEF Coming, InTurn
    <3>4. me'.next >= me.next  BY <2>1, <3>2
    <3>5. AheadKept
      BY <1>2, <2>1, <2>7, <3>3, <3>4, PassGoesOn DEF Reached
    <3> QED  BY <3>1, <3>5 DEF Forward, AheadKept
  <2> QED  BY <2>6, <2>7
<1>5. CASE DecideOrphan(v)
  <2>1. pc' = pc /\ me' = me /\ run.pending = None  BY <1>5 DEF DecideOrphan
  <2>2. /\ run'.at = run.at /\ run'.paused = run.paused /\ run'.lease = run.lease
    BY <1>0, <1>5 DEF DecideOrphan, Documents
  <2>3. used'.crashes = used.crashes /\ used'.faults = used.faults /\ used'.lost = used.lost
    BY <1>0, <1>5 DEF DecideOrphan, Budgets
  <2>4. CASE pc = "idle"
    <3>1. Setbacks' = Setbacks  BY <2>3 DEF Setbacks
    <3>2. ~SettledStored  BY <2>1 DEF SettledStored
    <3> QED  BY <1>2, <2>1, <2>2, <2>4, <3>1, <3>2, IdleForward
  <2>5. CASE pc # "idle"
    <3>1. Owing' <=> Owing  BY <2>1, <2>2 DEF Owing, Position
    <3>2. Allowance' >= Allowance
      <4>1. CASE Owing  BY <2>3, <3>1, <4>1, AllowanceType DEF Allowance, Setbacks
      <4>2. CASE ~Owing  BY <2>3, <3>1, <4>2, AllowanceType DEF Allowance, Setbacks
      <4> QED  BY <4>1, <4>2
    <3>3. me.next \in Nat  BY PassFields, AgentBoundsAssumption
    <3>4. Coming' = Coming /\ (InTurn' <=> InTurn)  BY <2>1 DEF Coming, InTurn
    <3>5. me'.next >= me.next  BY <2>1, <3>3
    <3>6. AheadKept
      BY <1>2, <2>1, <2>5, <3>4, <3>5, PassGoesOn DEF Reached
    <3> QED  BY <3>2, <3>6 DEF Forward, AheadKept
  <2> QED  BY <2>4, <2>5
<1> QED  BY <1>1, <1>3, <1>4, <1>5

\* A call is executed once it is ahead, and is not ahead any more.
LEMMA ExecuteCounts ==
    ASSUME Once, Placed', Execute
    PROVE  Counted'
<1> USE AgentBoundsAssumption
<1>0. Placed /\ me \in Passes  BY DEF Once, Placed, TypeOK
<1>1. /\ InTurn /\ me.next <= Len(me.calls) /\ pc # "saving" /\ pc # "step" /\ pc # "idle"
      /\ turns' = turns /\ used' = used /\ run' = run /\ asked' = asked
      /\ ran' = [ran EXCEPT ![Call] = @ + 1]
  BY <1>0 DEF Execute, AtCall, InTurn, Placed, PlaceOK
<1>2. Call \in Calls /\ me.next \in Nat  BY <1>0, <1>1, ToolOfCall
<1>3. /\ me'.at = me.at /\ me'.resume = me.resume /\ me'.turn = me.turn
      /\ pc' \in {"left", "dispatch"}
      /\ pc' = "dispatch" => me'.next = me.next + 1
  BY <1>0 DEF Execute, ToolFailed, Return, Passes
<1>4. Allowance' = Allowance /\ Allowance \in Nat
  BY <1>0, <1>1, <1>3, AllowanceKept, AllowanceType
<1>5. Coming' = Coming  BY <1>1, <1>3 DEF Coming
<1>6. (InTurn' => me'.turn = me.turn /\ me'.next >= me.next /\ me'.next > me.next)
      /\ (pc' = "dispatch" => me'.next > me.next)
  BY <1>2, <1>3 DEF InTurn
<1>7. AheadKept
  BY <1>0, <1>1, <1>3, <1>5, <1>6, PassGoesOn DEF Reached
<1>8. ASSUME NEW c \in Calls, c = Call
      PROVE  ~RunAhead(c)'
  <2>1. c[1] = me.turn /\ c[2] = me.next  BY <1>8 DEF Call
  <2>2. ~(me.turn > turns)
    <3>1. me.turn \in 1 .. turns /\ turns \in Nat
      BY <1>0, <1>1 DEF Placed, PlaceOK, TypeOK
    <3> QED  BY <3>1
  <2>3. Carried' => me'.resume.turn # me.turn
    <3>1. Carried' => Carried  BY <1>1, <1>3, <1>5 DEF Carried, Reached
    <3> QED  BY <1>1, <1>3, <3>1 DEF Once, OneTurn
  <2>4. ~Stored'  BY <1>3 DEF Stored
  <2>5. me'.next \in Nat  BY DEF Placed, TypeOK, Passes
  <2>6. InTurn' => ~(me.next >= me'.next)  BY <1>2, <1>6, <2>5
  <2> QED  BY <1>1, <1>3, <2>1, <2>2, <2>3, <2>4, <2>6 DEF RunAhead
<1>9. RunAhead(Call)
  <2>1. me.next >= me.next /\ Call[1] = me.turn /\ Call[2] = me.next  BY <1>2 DEF Call
  <2> QED  BY <1>1, <2>1 DEF RunAhead
<1> SUFFICES ASSUME NEW c \in Calls
             PROVE  /\ ran'[c] <= Allowance /\ asked[c] <= Allowance
                    /\ RunAhead(c)' => ran'[c] < Allowance
                    /\ AskAhead(c)' => asked[c] < Allowance
  BY <1>1, <1>4 DEF Counted
<1>10. /\ ran[c] <= Allowance /\ asked[c] <= Allowance
       /\ RunAhead(c) => ran[c] < Allowance
       /\ AskAhead(c) => asked[c] < Allowance
  BY DEF Once, Counted
<1>11. /\ ran \in [Calls -> Nat] /\ ran[c] \in Nat  BY <1>0 DEF Placed, TypeOK
<1>12. CASE c = Call
  <2>1. ran'[c] = ran[c] + 1 /\ ran[c] < Allowance /\ ~RunAhead(c)'
    BY <1>1, <1>8, <1>9, <1>10, <1>11, <1>12
  <2> QED  BY <1>4, <1>7, <1>10, <1>11, <2>1 DEF AheadKept
<1>13. CASE c # Call
  <2>1. ran'[c] = ran[c]  BY <1>1, <1>2, <1>11, <1>13
  <2> QED  BY <1>7, <1>10, <2>1 DEF AheadKept
<1> QED  BY <1>12, <1>13

\* A person is asked about a call that needs it, and the snapshot is left.
LEMMA MirrorCounts ==
    ASSUME Once, Placed', Mirror
    PROVE  Counted' /\ AtYield'
<1> USE AgentBoundsAssumption
<1>0. Placed /\ run \in Documents  BY DEF Once, Placed, TypeOK
<1>1. /\ pc = "dispatch" /\ InTurn /\ me.next <= Len(me.calls) /\ pc' = "yield"
      /\ turns' = turns /\ used' = used /\ me' = me /\ ran' = ran
      /\ asked' = [asked EXCEPT ![Call] = @ + 1] /\ me.approved[Tool] = None
  BY DEF Mirror, AtCall, InTurn, Needed
<1>2. Call \in Calls /\ me.next \in Nat  BY <1>0, <1>1, ToolOfCall
<1>3. run'.at = run.at /\ run'.lease = run.lease /\ run'.paused = Snapshot
  BY <1>0 DEF Mirror, Documents
<1>4. Allowance' = Allowance /\ Allowance \in Nat
  BY <1>0, <1>1, <1>3, AllowanceKept, AllowanceType
<1>5. Coming' = Coming /\ (Carried' <=> Carried)  BY <1>1 DEF Coming, Carried, Reached
<1>6. AheadKept
  <2>1. me'.next >= me.next  BY <1>1, <1>2
  <2> QED  BY <1>0, <1>1, <1>5, <2>1, PassGoesOn DEF Reached
<1>7. ASSUME NEW c \in Calls, c = Call
      PROVE  ~AskAhead(c)'
  <2>1. c[1] = me.turn /\ c[2] = me.next  BY <1>7 DEF Call
  <2>2. ~(me.turn > turns)
    <3>1. me.turn \in 1 .. turns /\ turns \in Nat
      BY <1>0, <1>1 DEF Placed, PlaceOK, TypeOK
    <3> QED  BY <3>1
  <2>3. Carried' => me'.resume.turn # me.turn
    BY <1>1, <1>5 DEF Once, OneTurn
  <2>4. ~Stored' /\ ~(me.next > me.next)  BY <1>1, <1>2 DEF Stored
  <2> QED  BY <1>1, <2>1, <2>2, <2>3, <2>4 DEF AskAhead
<1>8. AskAhead(Call)
  <2>1. Call[1] = me.turn /\ Call[2] = me.next  BY DEF Call
  <2> QED  BY <1>1, <2>1 DEF AskAhead
<1>9. AtYield'
  <2>1. Snapshot' = Snapshot  BY <1>1 DEF Snapshot, Agent
  <2> QED  BY <1>3, <2>1 DEF AtYield
<1> SUFFICES ASSUME NEW c \in Calls
             PROVE  /\ ran[c] <= Allowance /\ asked'[c] <= Allowance
                    /\ RunAhead(c)' => ran[c] < Allowance
                    /\ AskAhead(c)' => asked'[c] < Allowance
  BY <1>1, <1>4, <1>9 DEF Counted
<1>10. /\ ran[c] <= Allowance /\ asked[c] <= Allowance
       /\ RunAhead(c) => ran[c] < Allowance
       /\ AskAhead(c) => asked[c] < Allowance
  BY DEF Once, Counted
<1>11. /\ asked \in [Calls -> Nat] /\ asked[c] \in Nat  BY <1>0 DEF Placed, TypeOK
<1>12. CASE c = Call
  <2>1. asked'[c] = asked[c] + 1 /\ asked[c] < Allowance /\ ~AskAhead(c)'
    BY <1>1, <1>7, <1>8, <1>10, <1>11, <1>12
  <2> QED  BY <1>4, <1>6, <1>10, <1>11, <2>1 DEF AheadKept
<1>13. CASE c # Call
  <2>1. asked'[c] = asked[c]  BY <1>1, <1>2, <1>11, <1>13
  <2> QED  BY <1>6, <1>10, <2>1 DEF AheadKept
<1> QED  BY <1>12, <1>13

\* The other parts of the invariant.
LEMMA OneTurnStep ==
    ASSUME Once, Placed', [Next]_vars
    PROVE  OneTurn'
<1>0. Placed /\ me \in Passes  BY DEF Once, Placed, TypeOK
<1> SUFFICES ASSUME InTurn', Carried' PROVE me'.resume.turn # me'.turn
  BY DEF OneTurn
<1>1. CASE Think \/ Enter
  BY <1>1, ThinkForward, EnterForward DEF OneTurn
<1>2. CASE InTurn /\ me'.turn = me.turn /\ ~Think /\ ~Enter
  <2>1. Claim \/ me'.resume \in {me.resume, None}  BY <1>0, SnapshotFrame
  <2>2. ~Claim  BY <1>2 DEF Claim, InTurn
  <2>3. me'.resume = me.resume /\ me.resume # None  BY <2>1, <2>2 DEF Carried
  <2>4. me'.at = me.at
    BY <1>0, <1>2 DEF Next, Work, Decide, vars, Claim, Sweep, Answer, NoAnswer,
         EndTurn, RejectCall, Mirror, Yield, YieldInLoop, OpenNodeGate, Execute, NextItem,
         EndStep, Checkpoint, Finish, Cancelled, MirrorFails, YieldFails, CheckpointFails,
         Click, Crash, DecideYielded, DecideListening, DecideOrphan, ToolFailed, Return,
         Leave, InTurn, Passes
  <2>5. Carried
    BY <1>2, <2>3, <2>4 DEF Carried, Coming, InTurn, Reached
  <2> QED  BY <1>2, <2>3, <2>5 DEF Once, OneTurn
<1> QED  BY <1>0, <1>1, <1>2, TurnFrame DEF Same, Advanced

LEMMA AtYieldStep ==
    ASSUME Once, Placed', [Next]_vars
    PROVE  AtYield'
<1>0. Placed /\ run \in Documents /\ used \in Budgets  BY DEF Once, Placed, TypeOK
<1>1. CASE Mirror  BY <1>1, MirrorCounts
<1>2. CASE MirrorFails  BY <1>2, MirrorFailsForward
<1>3. CASE Decide
  <2>1. PICK v \in Verdicts : DecideYielded(v) \/ DecideListening(v) \/ DecideOrphan(v)
    BY <1>3 DEF Decide
  <2>2. CASE DecideListening(v)
    BY <2>2 DEF AtYield, DecideListening, ToolFailed, Return
  <2>3. CASE DecideYielded(v) \/ DecideOrphan(v)
    <3>1. pc' = pc /\ me' = me /\ ran' = ran /\ asked' = asked
      BY <2>3 DEF DecideYielded, DecideOrphan
    <3>2. run'.paused = run.paused  BY <1>0, <2>3 DEF DecideYielded, DecideOrphan, Documents
    <3>3. used'.crashes = used.crashes /\ used'.faults = used.faults
          /\ used'.lost \in {used.lost, used.lost + 1}
      BY <1>0, <2>3 DEF DecideYielded, DecideOrphan, Budgets
    <3>4. Setbacks \in Nat /\ Setbacks' \in Nat /\ Setbacks' >= Setbacks
      BY <1>0, <3>3, AllowanceType, NextAllowanceType DEF Setbacks
    <3>5. Snapshot' = Snapshot  BY <3>1 DEF Snapshot, Agent
    <3>6. \A c \in Calls : ran[c] \in Nat /\ asked[c] \in Nat  BY <1>0, AllowanceType
    <3>7. pc = "yield" =>
             \/ run.paused = Snapshot
             \/ \A c \in Calls : ran[c] <= Setbacks /\ asked[c] <= Setbacks
      BY DEF Once, AtYield
    <3> QED  BY <3>1, <3>2, <3>4, <3>5, <3>6, <3>7 DEF AtYield
  <2> QED  BY <2>1, <2>2, <2>3
<1>4. CASE pc' # "yield"  BY <1>4 DEF AtYield
<1>5. CASE UNCHANGED vars
  BY <1>5 DEF Once, AtYield, vars, Snapshot, Agent, Setbacks
<1>6. CASE Sweep
  BY <1>0, <1>6 DEF Sweep, Placed, PlaceOK, AtYield
<1> QED
  BY <1>1, <1>2, <1>3, <1>4, <1>5, <1>6
     DEF Next, Work, Claim, Enter, Think, Answer, NoAnswer, EndTurn, RejectCall, Yield,
         YieldInLoop, OpenNodeGate, Execute, NextItem, EndStep, Checkpoint, Finish, Cancelled,
         YieldFails, CheckpointFails, Click, Crash, ToolFailed, Return, Leave

LEMMA CountedStep ==
    ASSUME OneItem, Once, Placed', [Next]_vars
    PROVE  Counted'
<1>0. Placed  BY DEF Once
<1>1. CASE Execute  BY <1>1, ExecuteCounts
<1>2. CASE Mirror  BY <1>2, MirrorCounts
<1>3. CASE Yield  BY <1>3, YieldCounts
<1>4. CASE UNCHANGED vars
  <2>1. \A c \in Calls : (RunAhead(c)' <=> RunAhead(c)) /\ (AskAhead(c)' <=> AskAhead(c))
    BY <1>4 DEF vars, RunAhead, AskAhead, InTurn, Stored, Carried, Reached, Position, Coming,
         SettledStored, SettledCarried, Tool
  <2>2. Allowance' = Allowance
    BY <1>4 DEF vars, Allowance, Owing, Position, Setbacks
  <2> QED  BY <1>4, <2>1, <2>2 DEF Once, Counted, vars
<1>5. ran' = ran /\ asked' = asked /\ Forward => Counted'  BY ForwardCounts
<1>6. CASE \/ Answer \/ NoAnswer \/ EndTurn \/ RejectCall \/ YieldInLoop
           \/ OpenNodeGate \/ Click
  <2>1. Forward  BY <1>0, <1>6, TurnStepsForward DEF Forward, AheadKept
  <2>2. ran' = ran /\ asked' = asked
    BY <1>6 DEF Answer, NoAnswer, EndTurn, RejectCall, YieldInLoop, OpenNodeGate, Click, ghosts
  <2> QED  BY <1>5, <2>1, <2>2
<1>7. CASE Think \/ Enter \/ Claim
  <2>1. ran' = ran /\ asked' = asked  BY <1>7 DEF Think, Enter, Claim, ghosts
  <2> QED  BY <1>5, <1>7, <2>1, ThinkForward, EnterForward, ClaimForward
<1>8. CASE Crash \/ YieldFails \/ Cancelled \/ MirrorFails
  <2>1. ran' = ran /\ asked' = asked
    BY <1>8 DEF Crash, YieldFails, Cancelled, MirrorFails, ghosts
  <2> QED  BY <1>0, <1>5, <1>8, <2>1, SetbackForward, MirrorFailsForward
<1>9. CASE Finish \/ NextItem \/ EndStep \/ Checkpoint \/ CheckpointFails \/ Sweep
  <2>1. ran' = ran /\ asked' = asked
    BY <1>9 DEF Finish, NextItem, EndStep, Checkpoint, CheckpointFails, Sweep, ghosts
  <2> QED
    BY <1>0, <1>5, <1>9, <2>1, FinishForward, StepEndForward, CheckpointForward, SweepForward
<1>10. CASE Decide
  <2>1. ran' = ran /\ asked' = asked
    BY <1>10 DEF Decide, DecideYielded, DecideListening, DecideOrphan
  <2> QED  BY <1>0, <1>5, <1>10, <2>1, DecideForward
<1> QED
  BY <1>1, <1>2, <1>3, <1>4, <1>6, <1>7, <1>8, <1>9, <1>10 DEF Next, Work

LEMMA InitOnce == Init => Once
<1> SUFFICES ASSUME Init PROVE Once  OBVIOUS
<1>1. Placed /\ pc = "idle"  BY InitPlaced DEF Init
<1>2. \A c \in Calls : ran[c] = 0 /\ asked[c] = 0  BY DEF Init
<1>3. Allowance = 1
  <2>1. used.crashes = 0 /\ used.faults = 0 /\ used.lost = 0  BY DEF Init
  <2> QED  BY <1>1, <2>1 DEF Allowance, Owing, Setbacks
<1>4. Counted  BY <1>2, <1>3 DEF Counted
<1> QED  BY <1>1, <1>4 DEF Once, OneTurn, AtYield, InTurn

LEMMA OnceHolds == ASSUME OneItem PROVE Spec => []Once
<1>1. Once /\ [Next]_vars => Once'
  <2> SUFFICES ASSUME Once, [Next]_vars PROVE Once'  OBVIOUS
  <2>1. Placed'  BY StepPlaced DEF Once
  <2> QED  BY <2>1, CountedStep, OneTurnStep, AtYieldStep DEF Once
<1> QED  BY <1>1, InitOnce, PTL DEF Spec

LEMMA OnceBounds ==
    ASSUME Once, NEW c \in Calls
    PROVE  ran[c] <= 1 + Setbacks /\ asked[c] <= 1 + Setbacks
<1>1. /\ ran[c] <= Allowance /\ asked[c] <= Allowance
      /\ ran[c] \in Nat /\ asked[c] \in Nat /\ Placed
  BY AllowanceType DEF Once, Counted
<1>2. CASE Owing  BY <1>1, <1>2, AllowanceType DEF Allowance
<1>3. CASE ~Owing  BY <1>1, <1>3, AllowanceType DEF Allowance
<1> QED  BY <1>2, <1>3

\* RanOnce: a resumed turn repeats no call, unless a pass was cut off.
THEOREM CallsRunOnce == ASSUME OneItem PROVE Spec => []RanOnce
<1>1. Once => RanOnce  BY OnceBounds DEF RanOnce
<1> QED  BY <1>1, OnceHolds, PTL

\* GateAskedOnce: nor is a person asked again.
THEOREM PeopleAreAskedOnce == ASSUME OneItem PROVE Spec => []GateAskedOnce
<1>1. Once => GateAskedOnce  BY OnceBounds DEF GateAskedOnce
<1> QED  BY <1>1, OnceHolds, PTL

-----------------------------------------------------------------------------
(***************************************************************************)
(* Nothing runs that nobody approved.  An approval is kept by the name of  *)
(* its tool, and travels as the place of the turn does: from the           *)
(* checkpoint to the memory of the next pass, and into the snapshot of the *)
(* next yield.  Wherever it is, a person gave it to a call of that tool in *)
(* the turn that it will be used in.                                       *)
(***************************************************************************)
\* Approvals are dropped where the next iteration starts: a guarded agent has
\* no way to leave before that and let the pass go on.
NoApprovalLeft == \A agent \in Guarded : agent \notin Structured \cup Continues

Vouched(turn, calls, tool) ==
    \E i \in DOMAIN calls : calls[i] = tool /\ verdict[<<turn, i>>] = "approved"

Backed(turn, calls, approved) ==
    \A tool \in AllTools : approved[tool] = "approved" => Vouched(turn, calls, tool)

NotFinal(calls) == \A i \in DOMAIN calls : calls[i] # Final

GateShown(kind) ==
    run.status = "pending_approval" /\ run.gate # None /\ run.gate.kind = kind

\* The gate that a person sees is the one the snapshot waits at.
ShownWaits == GateShown("tool_call") =>
    /\ run.paused # None
    /\ run.paused.turn = run.gate.call[1]
    /\ run.gate.call[2] \in DOMAIN run.paused.calls
    /\ run.paused.calls[run.gate.call[2]] = run.gate.tool
    /\ run.paused.approved[run.gate.tool] = None

PausedBacked == run.paused # None =>
    /\ Backed(run.paused.turn, run.paused.calls, run.paused.approved)
    /\ NotFinal(run.paused.calls)

\* The checkpoint waits for the snapshot's turn, ...
Paired ==
    /\ Plan[run.at].items = 0
    /\ run.paused # None
    /\ run.paused.agent = Plan[run.at].agent
    /\ run.paused.turn = run.pending.call[1]
    /\ run.pending.call[2] \in DOMAIN run.paused.calls
    /\ run.paused.calls[run.pending.call[2]] = run.pending.tool
    /\ run.pending.decision = "approved" =>
          Vouched(run.paused.turn, run.paused.calls, run.pending.tool)

\* ... unless a later gate is shown that the checkpoint does not know of.
Outdated == GateShown("tool_call") /\ run.gate.call # run.pending.call

PendingKnown == run.pending # None =>
    /\ run.at \in Steps
    /\ Paired \/ Outdated
    /\ GateShown("node") /\ run.gate.call = run.pending.call =>
          Vouched(run.paused.turn, run.paused.calls, run.pending.tool)

\* A pass does not run while its gate waits.
UndecidedWaits == run.pending # None /\ run.pending.decision = None =>
    pc = "idle" /\ run.status = "pending_approval"

\* The step of the agent was reached, and it is not a loop.
Passed(agent, at) ==
    \E s \in Steps : Plan[s].agent = agent /\ Plan[s].items = 0 /\ s <= at

\* The pass may still execute calls.
Goes ==
    \/ pc \in {"think", "dispatch", "gate", "call"}
    \/ pc = "left" /\ ~Fatal
    \/ pc \in {"saving", "step"} /\ me.at \in Steps

PausedPassed ==
    run.paused # None /\ (run.status \in {"queued", "running"} \/ Goes) =>
        Passed(run.paused.agent, run.at)

PassKnown == Goes =>
    /\ run.paused = me.resume
    /\ run.status = "pending_approval" => pc = "gate" /\ GateShown("node")
    /\ me.resume # None => Passed(me.resume.agent, me.at)

ResumedTurn == InTurn /\ me.resume # None /\ me.resume.turn = me.turn =>
    me.calls = me.resume.calls /\ me.resume.agent = Agent

TurnBacked == pc \in {"dispatch", "gate", "call"} =>
    /\ Agent \notin Guarded => me.approved = Unasked
    /\ Agent \in Guarded => /\ Backed(me.turn, me.calls, me.approved)
                            /\ NotFinal(me.calls) /\ ~me.answered
    /\ Agent \in Guarded /\ pc # "dispatch" => me.approved[Tool] = "approved"
    /\ run.pending # None /\ me.turn = run.pending.call[1] =>
          me.approved[run.pending.tool] # None

Again == me.resume # None /\ me.resume.agent = Agent

\* Between turns a pass holds the approvals it is about to resume with, or none.
NothingHeld ==
    /\ pc = "think" => me.approved = Unasked /\ ~me.answered
    /\ pc = "left" /\ ~Fatal => me.approved = Unasked
    /\ pc = "saving" /\ me.at \in Steps => me.approved = Unasked /\ ~Again
    /\ pc = "step" /\ me.at \in Steps =>
          /\ ~Again => me.approved = Unasked
          /\ Again => /\ Backed(me.resume.turn, me.resume.calls, Merged(me.resume))
                      /\ run.pending # None => me.approved[run.pending.tool] # None

\* A pass that is about to yield has shown its gate, or an orphan was given up.
YieldKnown == pc = "yield" =>
    /\ run.paused = Snapshot
    /\ me.approved[Tool] = None
    /\ \/ /\ GateShown("tool_call") /\ run.gate = Shown("tool_call")
          /\ run.pending # None => run.pending.call # Call
       \/ run.status = "error" /\ run.gate = None /\ run.pending = None

DocumentTrusted ==
    ShownWaits /\ PausedBacked /\ PendingKnown /\ UndecidedWaits /\ PausedPassed
PassTrusted == PassKnown /\ ResumedTurn /\ TurnBacked /\ NothingHeld /\ YieldKnown
Trusted == DocumentTrusted /\ PassTrusted

\* What is shown and what is pending.
LEMMA DocumentFields ==
    ASSUME Placed
    PROVE  /\ run.paused \in Snapshots \cup {None} /\ run.pending \in Pendings \cup {None}
           /\ run.at \in 0 .. Len(Plan) + 1 /\ run.gate \in ShownGates \cup {None}
           /\ run.pending # None => /\ run.pending.call \in Calls
                                    /\ run.pending.tool \in AllTools
                                    /\ run.pending.decision \in Verdicts \cup {None}
           /\ run.gate # None => run.gate.call \in Calls /\ run.gate.tool \in AllTools
                                 /\ run.gate.kind \in {"tool_call", "node"}
<1>1. run \in Documents  BY DEF Placed, TypeOK
<1>2. /\ run.paused \in Snapshots \cup {None} /\ run.pending \in Pendings \cup {None}
      /\ run.at \in 0 .. Len(Plan) + 1 /\ run.gate \in ShownGates \cup {None}
  BY <1>1 DEF Documents
<1> QED  BY <1>2 DEF Pendings, ShownGates

LEMMA SnapshotTyped ==
    ASSUME Placed, InTurn, me.next <= Len(me.calls)
    PROVE  Snapshot \in Snapshots
<1>1. /\ me.iter \in 0 .. MaxIters /\ me.approved \in Approvals /\ me.turn \in Turns
      /\ me.next \in 1 .. MaxCalls
  BY PassFields, ToolOfCall
<1>2. me.calls \in TurnsTaken /\ Agent \in Agents
  BY PlanTypes DEF Placed, PlaceOK, InTurn, Agent
<1> QED  BY <1>1, <1>2 DEF Snapshot, Snapshots

LEMMA NoApprovals ==
    /\ "approved" # None /\ "rejected" # None
    /\ \A tool \in AllTools : Unasked[tool] = None
    /\ \A turn, calls : Backed(turn, calls, Unasked)
<1>1. "approved" # None /\ "rejected" # None  BY NoneAssumption DEF Verdicts
<1>2. \A tool \in AllTools : Unasked[tool] = None  BY DEF Unasked
<1> QED  BY <1>1, <1>2 DEF Backed

\* A step that leaves the document as it is, the lease aside.
LEMMA DocumentKept ==
    ASSUME DocumentTrusted, verdict' = verdict,
           run'.status = run.status, run'.gate = run.gate, run'.paused = run.paused,
           run'.pending = run.pending, run'.at = run.at
    PROVE  ShownWaits' /\ PausedBacked' /\ PendingKnown'
<1>1. \A turn, calls, tool : Vouched(turn, calls, tool) => Vouched(turn, calls, tool)'
  BY DEF Vouched
<1>2. ShownWaits'  BY DEF DocumentTrusted, ShownWaits, GateShown
<1>3. PausedBacked'  BY <1>1 DEF DocumentTrusted, PausedBacked, Backed
<1>4. PendingKnown'
  BY <1>1 DEF DocumentTrusted, PendingKnown, Paired, Outdated, GateShown
<1> QED  BY <1>2, <1>3, <1>4

\* A pass that goes on behind the document's back.
LEMMA GoesOn ==
    ASSUME Placed, Trusted, Goes, pc # "gate", run' = run, verdict' = verdict,
           me'.resume = me.resume, me'.at \in Nat, me'.at >= me.at
    PROVE  DocumentTrusted' /\ PassKnown'
<1>1. run.status # "pending_approval"  BY DEF Trusted, PassTrusted, PassKnown
<1>2. ShownWaits' /\ PausedBacked' /\ PendingKnown'  BY DocumentKept DEF Trusted
<1>3. UndecidedWaits'
  <2>1. pc # "idle"  BY DEF Goes
  <2> QED  BY <2>1 DEF Trusted, DocumentTrusted, UndecidedWaits
<1>4. PausedPassed'  BY DEF Trusted, DocumentTrusted, PausedPassed
<1>5. me.resume # None => Passed(me.resume.agent, me'.at)
  <2>1. me.at \in Nat /\ \A s \in Steps : s \in Nat  BY PassFields, PlanTypes DEF Steps
  <2> QED  BY <2>1 DEF Trusted, PassTrusted, PassKnown, Passed
<1>6. PassKnown'  BY <1>1, <1>5 DEF Trusted, PassTrusted, PassKnown
<1> QED  BY <1>2, <1>3, <1>4, <1>6 DEF DocumentTrusted

\* A pass that ends and leaves the document as it is.
LEMMA LeaveTrusted ==
    ASSUME Placed, Trusted, pc # "idle", Leave, verdict' = verdict,
           run'.status = run.status, run'.gate = run.gate, run'.paused = run.paused,
           run'.pending = run.pending, run'.at = run.at
    PROVE  Trusted'
<1>1. ShownWaits' /\ PausedBacked' /\ PendingKnown'  BY DocumentKept DEF Trusted
<1>2. UndecidedWaits' /\ PausedPassed'
  BY DEF Trusted, DocumentTrusted, UndecidedWaits, PausedPassed, Leave, Goes
<1>3. PassTrusted'
  BY DEF Leave, PassTrusted, PassKnown, ResumedTurn, TurnBacked, NothingHeld, YieldKnown, Goes, InTurn
<1> QED  BY <1>1, <1>2, <1>3 DEF Trusted, DocumentTrusted

\* A run that ends.
LEMMA EndTrusted ==
    ASSUME run'.status \in {"error", "success"}, run'.gate = None, run'.paused = None,
           run'.pending = None, pc' = "idle"
    PROVE  Trusted'
<1>1. DocumentTrusted'
  BY DEF DocumentTrusted, ShownWaits, PausedBacked, PendingKnown, GateShown, UndecidedWaits,
         PausedPassed
<1>2. PassTrusted'
  BY DEF PassTrusted, PassKnown, ResumedTurn, TurnBacked, NothingHeld, YieldKnown, Goes, InTurn
<1> QED  BY <1>1, <1>2 DEF Trusted

LEMMA EndsTrusted ==
    ASSUME Placed, Trusted, Yield \/ YieldFails \/ Finish \/ Crash \/ Cancelled
    PROVE  Trusted'
<1>0. run \in Documents  BY DEF Placed, TypeOK
<1>1. verdict' = verdict /\ Leave /\ pc # "idle"
  BY DEF Yield, YieldFails, Finish, Crash, Cancelled, ghosts
<1>2. pc' = "idle"  BY <1>1 DEF Leave
<1>3. CASE run' = run  BY <1>1, <1>3, LeaveTrusted
<1>4. CASE \E lease \in {"none", "held", "lapsed"} : run' = [run EXCEPT !.lease = lease]
  <2>1. /\ run'.status = run.status /\ run'.gate = run.gate /\ run'.paused = run.paused
        /\ run'.pending = run.pending /\ run'.at = run.at
    BY <1>0, <1>4 DEF Documents
  <2> QED  BY <1>1, <2>1, LeaveTrusted
<1>5. CASE Yield /\ run.lease = "held"
  <2> DEFINE gated == [call |-> Call, tool |-> Tool, decision |-> None]
  <2>1. run' = [run EXCEPT !.status = "pending_approval", !.at = me.at, !.pending = gated,
                           !.lease = "none"]
    BY <1>5 DEF Yield
  <2>2. /\ run'.status = "pending_approval" /\ run'.gate = run.gate /\ run'.paused = run.paused
        /\ run'.at = me.at /\ run'.pending = gated
    BY <1>0, <2>1 DEF Documents
  <2>3. pc = "yield" /\ ~InLoop /\ me.at \in Steps  BY <1>5 DEF Yield, Placed, PlaceOK
  <2>4. Tool \in AllTools /\ Call \in Calls /\ me.next \in DOMAIN me.calls
    <3>1. InTurn /\ me.next <= Len(me.calls) /\ me.calls \in TurnsTaken
      BY <2>3 DEF Placed, PlaceOK, InTurn
    <3>2. me.calls \in Seq(AllTools) /\ me.next \in 1 .. Len(me.calls)
      BY <3>1, TurnIsSequence, ToolOfCall, AgentBoundsAssumption
    <3> QED  BY <3>1, <3>2, ToolOfCall
  <2>5. Plan[me.at].items = 0
    BY <2>3, PlanTypes DEF InLoop
  <2>6. /\ run.paused # None /\ run.paused.agent = Agent /\ run.paused.turn = me.turn
        /\ run.paused.calls = me.calls
    <3>1. run.paused = Snapshot  BY <2>3 DEF Trusted, PassTrusted, YieldKnown
    <3>2. /\ Snapshot.agent = Agent /\ Snapshot.turn = me.turn /\ Snapshot.calls = me.calls
      BY DEF Snapshot
    <3>3. SnapshotOK(run.paused) /\ run.paused \in Snapshots \cup {None}
      BY DocumentFields DEF Placed, PlaceOK
    <3>4. Snapshot # None
      <4>1. InTurn /\ me.next <= Len(me.calls)  BY <2>3 DEF Placed, PlaceOK, InTurn
      <4> QED  BY <4>1, SnapshotTyped, NoneAssumption
    <3> QED  BY <3>1, <3>2, <3>4
  <2>7. gated.call = Call /\ gated.tool = Tool /\ gated.decision = None /\ gated # None
    <3>1. gated \in Pendings  BY <2>4 DEF Pendings
    <3> QED  BY <3>1, NoneAssumption
  <2> HIDE DEF gated
  <2>8. GateShown("tool_call") \/ run.gate = None  BY <2>3 DEF Trusted, PassTrusted, YieldKnown
  <2>9. ShownWaits'
    BY <2>2, <2>8 DEF Trusted, DocumentTrusted, ShownWaits, GateShown
  <2>10. PausedBacked'
    BY <1>1, <2>2 DEF Trusted, DocumentTrusted, PausedBacked, Backed, Vouched
  <2>11. Paired'
    <3>1. Call[1] = me.turn /\ Call[2] = me.next /\ Tool = me.calls[me.next]  BY DEF Call, Tool
    <3> QED  BY <2>2, <2>4, <2>5, <2>6, <2>7, <3>1, NoApprovals DEF Paired, Agent
  <2>12. PendingKnown'
    BY <2>2, <2>3, <2>8, <2>11 DEF PendingKnown, GateShown
  <2>13. UndecidedWaits' /\ PausedPassed'
    BY <1>2, <2>2 DEF UndecidedWaits, PausedPassed, Goes
  <2>14. PassTrusted'
    BY <1>2 DEF PassTrusted, PassKnown, ResumedTurn, TurnBacked, NothingHeld, YieldKnown, Goes, InTurn
  <2> QED  BY <2>9, <2>10, <2>12, <2>13, <2>14 DEF Trusted, DocumentTrusted
<1>6. CASE \/ run' = [run EXCEPT !.status = "error", !.at = 0, !.pending = None,
                                 !.gate = None, !.paused = None, !.lease = "none"]
           \/ \E status \in {"error", "success"}, lease \in {"none", "held", "lapsed"} :
                 run' = [status |-> status, lease |-> lease, at |-> 0, pending |-> None,
                         gate |-> None, paused |-> None]
  <2>1. run'.status \in {"error", "success"} /\ run'.gate = None /\ run'.paused = None
        /\ run'.pending = None
    <3>1. CASE run' = [run EXCEPT !.status = "error", !.at = 0, !.pending = None,
                                  !.gate = None, !.paused = None, !.lease = "none"]
      BY <1>0, <3>1 DEF Documents
    <3>2. CASE \E status \in {"error", "success"}, lease \in {"none", "held", "lapsed"} :
                  run' = [status |-> status, lease |-> lease, at |-> 0, pending |-> None,
                          gate |-> None, paused |-> None]
      BY <3>2
    <3> QED  BY <1>6, <3>1, <3>2
  <2> QED  BY <1>2, <2>1, EndTrusted
<1>7. CASE Yield /\ run.lease # "held"  BY <1>3, <1>7 DEF Yield
<1>8. CASE YieldFails  BY <1>4, <1>6, <1>8 DEF YieldFails
<1>9. CASE Finish
  <2> DEFINE status == IF me.failed THEN "error" ELSE "success"
             lease == IF run.lease = "held" THEN "none" ELSE run.lease
  <2>1. status \in {"error", "success"} /\ lease \in {"none", "held", "lapsed"}
    BY <1>0 DEF Documents
  <2>2. run' = IF run.status = "pending_approval" THEN [run EXCEPT !.lease = lease]
               ELSE [status |-> status, lease |-> lease, at |-> 0, pending |-> None,
                     gate |-> None, paused |-> None]
    BY <1>9 DEF Finish
  <2> HIDE DEF status, lease
  <2> QED  BY <1>4, <1>6, <2>1, <2>2
<1>10. CASE Crash  BY <1>3, <1>4, <1>10 DEF Crash
<1>11. CASE Cancelled  BY <1>3, <1>11 DEF Cancelled, ghosts
<1> QED  BY <1>5, <1>7, <1>8, <1>9, <1>10, <1>11

LEMMA OutsideTrusted ==
    ASSUME Placed, Trusted, Claim \/ Sweep
    PROVE  Trusted'
<1>0. run \in Documents  BY DEF Placed, TypeOK
<1>1. CASE Sweep
  <2>1. run' = [run EXCEPT !.status = "error", !.gate = None, !.paused = None]
        /\ run.at = 0 /\ run.lease = "lapsed"
    BY <1>1 DEF Sweep
  <2>2. run'.status = "error" /\ run'.gate = None /\ run'.paused = None
        /\ run'.pending = run.pending
    BY <1>0, <2>1 DEF Documents
  <2>3. run.pending = None
    <3>1. 0 \notin Steps  BY PlanTypes DEF Steps
    <3> QED  BY <2>1, <3>1 DEF Trusted, DocumentTrusted, PendingKnown
  <2>4. pc' = "idle"  BY <1>1, <2>1 DEF Sweep, Placed, PlaceOK
  <2> QED  BY <2>2, <2>3, <2>4, EndTrusted
<1>2. CASE Claim
  <2>0. run.status \in {"queued", "running"} /\ pc = "idle"  BY <1>2 DEF Claim, Claimable
  <2>1. run' = [run EXCEPT !.status = "running", !.lease = "held"] /\ pc' = "step"
        /\ verdict' = verdict
    BY <1>2 DEF Claim, ghosts
  <2>2. /\ run'.status = "running" /\ run'.gate = run.gate /\ run'.paused = run.paused
        /\ run'.at = run.at /\ run'.pending = run.pending
    BY <1>0, <2>1 DEF Documents
  <2> DEFINE at == IF run.at = 0 THEN 1 ELSE run.at
  <2>3. /\ me'.at = at /\ me'.resume = run.paused /\ me'.approved = Hydrated(run.pending)
    <3>1. me' = [Idle EXCEPT !.at = at, !.resume = run.paused,
                             !.approved = Hydrated(run.pending)]
      BY <1>2 DEF Claim
    <3> QED  BY <3>1 DEF Idle
  <2>4. at \in Nat /\ run.at \in Nat /\ run.at <= at /\ (run.at \in Steps => at = run.at)
    BY DocumentFields, PlanTypes DEF Steps
  <2> HIDE DEF at
  <2>5. \A turn, calls, tool : Vouched(turn, calls, tool) => Vouched(turn, calls, tool)'
    BY <2>1 DEF Vouched
  <2>6. ShownWaits'  BY <2>2 DEF ShownWaits, GateShown
  <2>7. PausedBacked'  BY <2>2, <2>5 DEF Trusted, DocumentTrusted, PausedBacked, Backed
  <2>8. run.pending # None => run.at \in Steps /\ Paired
    BY <2>0 DEF Trusted, DocumentTrusted, PendingKnown, Outdated, GateShown
  <2>9. PendingKnown'
    BY <2>2, <2>5, <2>8 DEF PendingKnown, Paired, GateShown
  <2>10. run.pending # None => run.pending.decision # None
    BY <2>0 DEF Trusted, DocumentTrusted, UndecidedWaits
  <2>11. UndecidedWaits'  BY <2>2, <2>10 DEF UndecidedWaits
  <2>12. run.paused # None => Passed(run.paused.agent, run.at)
    BY <2>0 DEF Trusted, DocumentTrusted, PausedPassed
  <2>13. PausedPassed'  BY <2>2, <2>12 DEF PausedPassed
  <2>14. run.paused # None => Passed(run.paused.agent, at)
    BY <2>4, <2>12, PlanTypes DEF Passed, Steps
  <2>15. PassKnown'  BY <2>1, <2>2, <2>3, <2>14 DEF PassKnown
  <2>16. ResumedTurn' /\ TurnBacked' /\ YieldKnown'
    BY <2>1 DEF ResumedTurn, TurnBacked, YieldKnown, InTurn
  <2>17. NothingHeld'
    <3>1. Again' <=> run.paused # None /\ run.paused.agent = Plan[at].agent
      BY <2>3 DEF Again, Agent
    <3>2. CASE run.pending = None
      <4>1. me'.approved = Unasked  BY <2>3, <3>2 DEF Hydrated
      <4>2. ASSUME run.paused # None
            PROVE  Backed(me.resume.turn, me.resume.calls, Merged(me.resume))'
        <5>1. \A tool \in AllTools : Merged(me.resume)'[tool] = run.paused.approved[tool]
          BY <2>3, <4>1, NoApprovals DEF Merged
        <5>2. \A tool \in AllTools : run.paused.approved[tool] = "approved" =>
                 Vouched(run.paused.turn, run.paused.calls, tool)
          BY <4>2 DEF Trusted, DocumentTrusted, PausedBacked, Backed
        <5> QED  BY <2>3, <2>5, <5>1, <5>2 DEF Backed
      <4> QED  BY <2>1, <2>2, <3>1, <3>2, <4>1, <4>2 DEF NothingHeld
    <3>3. CASE run.pending # None
      <4>1. Paired /\ at = run.at  BY <2>4, <2>8, <3>3
      <4>2. run.paused # None /\ run.paused.agent = Plan[at].agent  BY <4>1 DEF Paired
      <4>3. \A tool \in AllTools :
               me'.approved[tool] = IF tool = run.pending.tool THEN run.pending.decision ELSE None
        <5>1. me'.approved = [Unasked EXCEPT ![run.pending.tool] = run.pending.decision]
          BY <2>3, <2>10, <3>3 DEF Hydrated
        <5> QED  BY <5>1 DEF Unasked
      <4>4. run.pending.tool \in AllTools  BY <3>3, DocumentFields
      <4>5. Backed(me.resume.turn, me.resume.calls, Merged(me.resume))'
        <5>1. \A tool \in AllTools : Merged(me.resume)'[tool] =
                 IF me'.approved[tool] # None THEN me'.approved[tool]
                                              ELSE run.paused.approved[tool]
          BY <2>3 DEF Merged
        <5>2. \A tool \in AllTools : run.paused.approved[tool] = "approved" =>
                 Vouched(run.paused.turn, run.paused.calls, tool)
          BY <4>2 DEF Trusted, DocumentTrusted, PausedBacked, Backed
        <5>3. run.pending.decision = "approved" =>
                 Vouched(run.paused.turn, run.paused.calls, run.pending.tool)
          BY <4>1 DEF Paired
        <5>4. \A tool \in AllTools : Merged(me.resume)'[tool] = "approved" =>
                 Vouched(run.paused.turn, run.paused.calls, tool)
          BY <4>3, <5>1, <5>2, <5>3
        <5> QED  BY <2>3, <2>5, <5>4 DEF Backed
      <4>6. me'.approved[run.pending.tool] # None  BY <2>10, <3>3, <4>3, <4>4
      <4> QED  BY <2>1, <2>2, <3>1, <4>2, <4>5, <4>6 DEF NothingHeld
    <3> QED  BY <3>2, <3>3
  <2> QED
    BY <2>6, <2>7, <2>9, <2>11, <2>13, <2>15, <2>16, <2>17
       DEF Trusted, DocumentTrusted, PassTrusted
<1> QED  BY <1>1, <1>2

\* A pass that goes on with the turn of the snapshot, or with none.
LEMMA EnterTrusted == ASSUME Placed, Trusted, Enter PROVE Trusted'
<1>0. me \in Passes  BY DEF Placed, TypeOK
<1>1. /\ pc = "step" /\ me.at \in Steps /\ run' = run /\ verdict' = verdict
  BY DEF Enter, ghosts
<1>2. Goes  BY <1>1 DEF Goes
<1>3. me.at \in Nat /\ \A s \in Steps : s \in Nat  BY PassFields, PlanTypes DEF Steps
<1>4. \A turn, calls, tool : Vouched(turn, calls, tool) => Vouched(turn, calls, tool)'
  BY <1>1 DEF Vouched
<1>5. CASE Again
  <2>1. me' = ResumeTurn(me.resume) /\ pc' = "dispatch"  BY <1>5 DEF Enter, Again
  <2>2. /\ me'.at = me.at /\ me'.resume = me.resume /\ me'.turn = me.resume.turn
        /\ me'.calls = me.resume.calls /\ me'.approved = Merged(me.resume) /\ ~me'.answered
    BY <1>0, <2>1 DEF ResumeTurn, Passes
  <2>3. DocumentTrusted' /\ PassKnown'  BY <1>1, <1>2, <1>3, <2>2, GoesOn
  <2>4. me.resume.agent = Agent /\ Agent' = Agent /\ Agent \in Guarded
    BY <1>5, <2>2 DEF Again, Agent, Placed, PlaceOK, SnapshotOK
  <2>5. ResumedTurn'  BY <2>2, <2>4 DEF ResumedTurn
  <2>6. TurnBacked'
    <3>1. Backed(me.resume.turn, me.resume.calls, Merged(me.resume))
          /\ (run.pending # None => me.approved[run.pending.tool] # None)
      BY <1>1, <1>5 DEF Trusted, PassTrusted, NothingHeld
    <3>2. Backed(me.turn, me.calls, me.approved)'
      BY <1>4, <2>2, <3>1 DEF Backed
    <3>3. NotFinal(me.calls)'
      BY <1>2, <1>5, <2>2 DEF Again, Trusted, PassTrusted, PassKnown, DocumentTrusted,
                              PausedBacked, NotFinal
    <3>4. run.pending # None => me'.approved[run.pending.tool] # None
      BY <2>2, <3>1, DocumentFields DEF Merged
    <3> QED  BY <1>1, <2>1, <2>2, <2>4, <3>2, <3>3, <3>4 DEF TurnBacked
  <2>7. NothingHeld' /\ YieldKnown'  BY <2>1 DEF NothingHeld, YieldKnown
  <2> QED  BY <2>3, <2>5, <2>6, <2>7 DEF Trusted, PassTrusted
<1>6. CASE ~Again
  <2>1. me' = [me EXCEPT !.iter = 0, !.answered = FALSE] /\ pc' = "think"
    BY <1>6 DEF Enter, Again
  <2>2. me'.at = me.at /\ me'.resume = me.resume /\ me'.approved = me.approved /\ ~me'.answered
    BY <1>0, <2>1 DEF Passes
  <2>3. DocumentTrusted' /\ PassKnown'  BY <1>1, <1>2, <1>3, <2>2, GoesOn
  <2>4. me.approved = Unasked  BY <1>1, <1>6 DEF Trusted, PassTrusted, NothingHeld
  <2>5. ResumedTurn' /\ TurnBacked' /\ NothingHeld' /\ YieldKnown'
    BY <2>1, <2>2, <2>4 DEF ResumedTurn, TurnBacked, NothingHeld, YieldKnown, InTurn
  <2> QED  BY <2>3, <2>5 DEF Trusted, PassTrusted
<1> QED  BY <1>5, <1>6

\* What the model says.
LEMMA TurnTrusted ==
    ASSUME Placed, Placed', Trusted, NoApprovalLeft, Think \/ Answer \/ NoAnswer \/ EndTurn
    PROVE  Trusted'
<1>0. me \in Passes  BY DEF Placed, TypeOK
<1>1. run' = run /\ verdict' = verdict /\ pc \in {"think", "dispatch"}
  BY DEF Think, Answer, NoAnswer, EndTurn, ghosts
<1>2. Goes /\ run.status # "pending_approval"
  BY <1>1 DEF Goes, Trusted, PassTrusted, PassKnown
<1>3. me.at \in Nat /\ me.turn \in Nat /\ turns \in Nat
  BY PassFields, PlanTypes, AgentBoundsAssumption DEF Placed, TypeOK
<1>4. CASE Think
  <2>1. PICK calls \in TurnsTaken :
           /\ me' = [me EXCEPT !.turn = turns + 1, !.calls = calls, !.next = 1]
           /\ Agent \notin Structured => \A i \in DOMAIN calls : calls[i] # Final
    BY <1>4 DEF Think
  <2>2. /\ me'.at = me.at /\ me'.resume = me.resume /\ me'.turn = turns + 1
        /\ me'.calls = calls /\ me'.approved = me.approved /\ me'.answered = me.answered
    BY <1>0, <2>1 DEF Passes
  <2>3. pc' = "dispatch" /\ pc = "think"  BY <1>4 DEF Think
  <2>4. DocumentTrusted' /\ PassKnown'  BY <1>1, <1>2, <1>3, <2>2, <2>3, GoesOn
  <2>5. me.approved = Unasked /\ ~me.answered  BY <2>3 DEF Trusted, PassTrusted, NothingHeld
  <2>6. me.resume # None => me.resume.turn # turns + 1
    <3>1. ASSUME me.resume # None PROVE me.resume.turn # turns + 1
      <4>1. SnapshotOK(me.resume) /\ me.resume \in Snapshots
        BY <3>1, PassFields DEF Placed, PlaceOK
      <4>2. me.resume.turn <= turns /\ me.resume.turn \in Nat
        BY <3>1, <4>1, SnapshotFields, AgentBoundsAssumption DEF SnapshotOK, Turns
      <4> QED  BY <1>3, <4>2
    <3> QED  BY <3>1
  <2>7. ResumedTurn'  BY <2>2, <2>6 DEF ResumedTurn
  <2>8. run.pending # None => turns + 1 # run.pending.call[1]
    BY <1>2, <2>6 DEF Trusted, PassTrusted, PassKnown, DocumentTrusted, PendingKnown,
                      Paired, Outdated, GateShown
  <2>9. TurnBacked'
    <3>1. Backed(me.turn, me.calls, me.approved)'
      BY <2>2, <2>5, NoApprovals DEF Backed
    <3>2. Agent' = Agent  BY <2>2 DEF Agent
    <3>3. Agent \in Guarded => NotFinal(me.calls)'
      BY <2>1, <2>2 DEF NoApprovalLeft, NotFinal
    <3> QED  BY <1>1, <2>2, <2>3, <2>5, <2>8, <3>1, <3>2, <3>3 DEF TurnBacked
  <2>10. NothingHeld' /\ YieldKnown'  BY <2>3 DEF NothingHeld, YieldKnown
  <2> QED  BY <2>4, <2>7, <2>9, <2>10 DEF Trusted, PassTrusted
<1>5. ASSUME me'.at = me.at, me'.resume = me.resume, pc' \in {"think", "left"},
             pc' = "think" => me'.approved = Unasked /\ ~me'.answered,
             pc' = "left" /\ ~Fatal' => me'.approved = Unasked
      PROVE  Trusted'
  <2>1. DocumentTrusted' /\ PassKnown'  BY <1>1, <1>2, <1>3, <1>5, GoesOn
  <2>2. ResumedTurn' /\ TurnBacked' /\ NothingHeld' /\ YieldKnown'
    BY <1>5 DEF ResumedTurn, TurnBacked, NothingHeld, YieldKnown, InTurn
  <2> QED  BY <2>1, <2>2 DEF Trusted, PassTrusted
<1>6. CASE Answer \/ NoAnswer
  <2>1. me.approved = Unasked /\ ~me.answered
    BY <1>6 DEF Answer, NoAnswer, Trusted, PassTrusted, NothingHeld
  <2>2. \/ me' = [me EXCEPT !.iter = @ + 1] /\ pc' = "think"
        \/ \E outcome \in {"success", "error"} :
              me' = [me EXCEPT !.outcome = outcome] /\ pc' = "left"
    BY <1>6 DEF Answer, NoAnswer, Return
  <2>3. /\ me'.at = me.at /\ me'.resume = me.resume /\ me'.approved = me.approved
        /\ me'.answered = me.answered
    BY <1>0, <2>2 DEF Passes
  <2> QED  BY <1>5, <2>1, <2>2, <2>3
<1>7. CASE EndTurn
  <2>0. pc = "dispatch"  BY <1>7 DEF EndTurn
  <2>1. CASE me.answered
    <3>1. me' = [me EXCEPT !.outcome = "success"] /\ pc' = "left"
      BY <1>7, <2>1 DEF EndTurn, Return
    <3>2. me'.at = me.at /\ me'.resume = me.resume /\ me'.approved = me.approved
      BY <1>0, <3>1 DEF Passes
    <3>3. me.approved = Unasked  BY <2>0, <2>1 DEF Trusted, PassTrusted, TurnBacked
    <3> QED  BY <1>5, <3>1, <3>2, <3>3
  <2>2. CASE ~me.answered
    <3>1. me' = [TurnOver EXCEPT !.iter = @ + 1] /\ pc' = "think"
      BY <1>7, <2>2 DEF EndTurn
    <3>2. /\ me'.at = me.at /\ me'.resume = me.resume /\ me'.approved = Unasked
          /\ me'.answered = me.answered
      BY <1>0, <3>1 DEF TurnOver, Passes
    <3> QED  BY <1>5, <2>2, <3>1, <3>2
  <2> QED  BY <2>1, <2>2
<1> QED  BY <1>4, <1>6, <1>7

\* A call that ends the agent, whatever becomes of the document.
LEMMA ErrorTrusted ==
    ASSUME Placed, Trusted, NoApprovalLeft, pc \in {"dispatch", "gate", "call", "yield"},
           Return("error")
    PROVE  ResumedTurn' /\ TurnBacked' /\ NothingHeld' /\ YieldKnown'
<1>1. me \in Passes /\ pc' = "left" /\ me' = [me EXCEPT !.outcome = "error"]
  BY DEF Placed, TypeOK, Return
<1>2. me'.at = me.at /\ me'.approved = me.approved /\ me'.outcome = "error"
  BY <1>1 DEF Passes
<1>3. ResumedTurn' /\ TurnBacked' /\ YieldKnown'
  BY <1>1 DEF ResumedTurn, TurnBacked, YieldKnown, InTurn
<1>4. Agent' = Agent  BY <1>2 DEF Agent
<1>5. Agent \notin Guarded => me.approved = Unasked
  BY DEF Trusted, PassTrusted, TurnBacked, Placed, PlaceOK
<1>6. Agent \in Guarded => Fatal'  BY <1>2, <1>4 DEF Fatal, NoApprovalLeft
<1>7. NothingHeld'  BY <1>1, <1>2, <1>5, <1>6 DEF NothingHeld
<1> QED  BY <1>3, <1>7

\* A call that lets the turn go on.
LEMMA NextCallTrusted ==
    ASSUME Placed, Trusted, pc \in {"dispatch", "gate", "call"}, me.next <= Len(me.calls),
           NEW answered \in BOOLEAN, answered => me.answered \/ Tool = Final,
           me' = [me EXCEPT !.next = @ + 1, !.answered = answered], pc' = "dispatch",
           run'.pending = run.pending, verdict' = verdict
    PROVE  ResumedTurn' /\ TurnBacked' /\ NothingHeld' /\ YieldKnown'
<1>1. /\ me'.at = me.at /\ me'.resume = me.resume /\ me'.turn = me.turn
      /\ me'.calls = me.calls /\ me'.approved = me.approved /\ me'.answered = answered
  BY DEF Placed, TypeOK, Passes
<1>2. Agent' = Agent /\ InTurn  BY <1>1 DEF Agent, InTurn
<1>3. ResumedTurn'  BY <1>1, <1>2 DEF Trusted, PassTrusted, ResumedTurn
<1>4. me.next \in DOMAIN me.calls
  <2>1. me.calls \in Seq(AllTools) /\ Len(me.calls) \in 1 .. MaxCalls
    BY <1>2, TurnIsSequence DEF Placed, PlaceOK, InTurn
  <2>2. me.next \in 1 .. MaxCalls  BY <1>2, ToolOfCall
  <2> QED  BY <2>1, <2>2, AgentBoundsAssumption
<1>5. Agent \in Guarded => ~answered
  BY <1>4 DEF Trusted, PassTrusted, TurnBacked, NotFinal, Tool
<1>6. Backed(me.turn, me.calls, me.approved) => Backed(me.turn, me.calls, me.approved)'
  <2>1. \A tool \in AllTools :
           Vouched(me.turn, me.calls, tool) => Vouched(me.turn, me.calls, tool)'
    BY <1>1 DEF Vouched
  <2> QED  BY <1>1, <2>1 DEF Backed
<1>7. NotFinal(me.calls) => NotFinal(me.calls)'  BY <1>1 DEF NotFinal
<1>8. TurnBacked'
  BY <1>1, <1>2, <1>5, <1>6, <1>7 DEF Trusted, PassTrusted, TurnBacked
<1>9. NothingHeld' /\ YieldKnown'  BY DEF NothingHeld, YieldKnown
<1> QED  BY <1>3, <1>8, <1>9

LEMMA FailedTrusted ==
    ASSUME Placed, Trusted, NoApprovalLeft, pc \in {"dispatch", "gate", "call"},
           me.next <= Len(me.calls), ToolFailed, run'.pending = run.pending, verdict' = verdict
    PROVE  ResumedTurn' /\ TurnBacked' /\ NothingHeld' /\ YieldKnown'
           /\ me'.at = me.at /\ me'.resume = me.resume /\ pc' \in {"dispatch", "left"}
<1>0. me \in Passes  BY DEF Placed, TypeOK
<1>1. CASE Return("error")
  <2>1. me'.at = me.at /\ me'.resume = me.resume /\ pc' = "left"
    BY <1>0, <1>1 DEF Return, Passes
  <2> QED  BY <1>1, <2>1, ErrorTrusted
<1>2. CASE me' = [me EXCEPT !.next = @ + 1] /\ pc' = "dispatch"
  <2>1. me.answered \in BOOLEAN  BY PassFields
  <2>2. me' = [me EXCEPT !.next = @ + 1, !.answered = me.answered]
        /\ me'.at = me.at /\ me'.resume = me.resume
    BY <1>0, <1>2 DEF Passes
  <2> QED  BY <1>2, <2>1, <2>2, NextCallTrusted
<1> QED  BY <1>1, <1>2 DEF ToolFailed

LEMMA CallTrusted ==
    ASSUME Placed, Trusted, NoApprovalLeft, Execute \/ RejectCall \/ YieldInLoop
    PROVE  Trusted'
<1>0. me \in Passes /\ me.at \in Nat  BY PassFields, PlanTypes DEF Placed, TypeOK
<1>1. run' = run /\ verdict' = verdict  BY DEF Execute, RejectCall, YieldInLoop, ghosts
<1>2. CASE Execute
  <2>1. pc \in {"dispatch", "call"} /\ me.next <= Len(me.calls)
    BY <1>2 DEF Execute, AtCall, Placed, PlaceOK
  <2>2. Goes  BY <2>1 DEF Goes
  <2>3. CASE ToolFailed
    <3>1. ResumedTurn' /\ TurnBacked' /\ NothingHeld' /\ YieldKnown'
          /\ me'.at = me.at /\ me'.resume = me.resume
      BY <1>1, <2>1, <2>3, FailedTrusted
    <3>2. DocumentTrusted' /\ PassKnown'  BY <1>0, <1>1, <2>1, <2>2, <3>1, GoesOn
    <3> QED  BY <3>1, <3>2 DEF Trusted, PassTrusted
  <2>4. CASE me' = [me EXCEPT !.next = @ + 1, !.answered = @ \/ Tool = Final] /\ pc' = "dispatch"
    <3>1. (me.answered \/ Tool = Final) \in BOOLEAN  OBVIOUS
    <3>2. me' = [me EXCEPT !.next = @ + 1, !.answered = me.answered \/ Tool = Final]
          /\ me'.at = me.at /\ me'.resume = me.resume
      BY <1>0, <2>4 DEF Passes
    <3>3. ResumedTurn' /\ TurnBacked' /\ NothingHeld' /\ YieldKnown'
      BY <1>1, <2>1, <2>4, <3>1, <3>2, NextCallTrusted
    <3>4. DocumentTrusted' /\ PassKnown'  BY <1>0, <1>1, <2>1, <2>2, <3>2, GoesOn
    <3> QED  BY <3>3, <3>4 DEF Trusted, PassTrusted
  <2> QED  BY <1>2, <2>3, <2>4 DEF Execute
<1>3. CASE RejectCall \/ YieldInLoop
  <2>1. pc \in {"dispatch", "yield"} /\ Return("error") /\ Agent \in Guarded
    BY <1>3 DEF RejectCall, YieldInLoop, AtCall, Rejected, Placed, PlaceOK
  <2>2. ResumedTurn' /\ TurnBacked' /\ NothingHeld' /\ YieldKnown'  BY <2>1, ErrorTrusted
  <2>3. pc' = "left" /\ me'.at = me.at /\ me'.outcome = "error"
    BY <1>0, <2>1 DEF Return, Passes
  <2>4. ~Goes'
    BY <2>1, <2>3 DEF Goes, Fatal, Agent, NoApprovalLeft
  <2>5. ShownWaits' /\ PausedBacked' /\ PendingKnown'
    BY <1>1, DocumentKept DEF Trusted
  <2>6. UndecidedWaits'
    BY <1>1, <2>1 DEF Trusted, DocumentTrusted, UndecidedWaits
  <2>7. PausedPassed' /\ PassKnown'
    BY <1>1, <2>4 DEF Trusted, DocumentTrusted, PausedPassed, PassKnown
  <2> QED  BY <2>2, <2>5, <2>6, <2>7 DEF Trusted, DocumentTrusted, PassTrusted
<1> QED  BY <1>2, <1>3

\* The steps around the agents.
LEMMA StepEndTrusted ==
    ASSUME Placed, Placed', Trusted, NextItem \/ EndStep \/ Checkpoint \/ CheckpointFails
    PROVE  Trusted'
<1>0. me \in Passes /\ run \in Documents /\ me.at \in 1 .. Len(Plan) + 1
  BY PassFields DEF Placed, TypeOK
<1>1. Len(Plan) \in Nat /\ Steps = 1 .. Len(Plan)  BY PlanTypes DEF Steps
<1>2. verdict' = verdict /\ pc \in {"left", "saving"} /\ pc # "idle"
  BY DEF NextItem, EndStep, Checkpoint, CheckpointFails, ghosts
<1>3. CASE NextItem
  <2>1. /\ pc' = "step" /\ run' = run /\ pc = "left" /\ ~Fatal /\ InLoop
        /\ me' = [me EXCEPT !.item = @ + 1]
    BY <1>3 DEF NextItem, ghosts
  <2>2. me'.at = me.at /\ me'.resume = me.resume /\ me'.approved = me.approved
    BY <1>0, <2>1 DEF Passes
  <2>3. Goes /\ me.at \in Steps  BY <2>1 DEF Goes, Placed, PlaceOK
  <2>4. DocumentTrusted' /\ PassKnown'  BY <1>0, <1>1, <1>2, <2>1, <2>2, <2>3, GoesOn
  <2>5. me.approved = Unasked  BY <2>1 DEF Trusted, PassTrusted, NothingHeld
  <2>6. ~Again'
    <3>1. me.resume # None => Passed(me.resume.agent, me.at)
      BY <2>3 DEF Trusted, PassTrusted, PassKnown
    <3>2. me.resume # None => me.resume.agent # Plan[me.at].agent
      <4>1. ASSUME me.resume # None, me.resume.agent = Plan[me.at].agent PROVE FALSE
        <5>1. PICK s \in Steps : Plan[s].agent = me.resume.agent /\ Plan[s].items = 0
          BY <3>1, <4>1 DEF Passed
        <5>2. s = me.at  BY <2>3, <4>1, <5>1, NodesAssumption
        <5> QED  BY <2>1, <5>1, <5>2 DEF InLoop
      <4> QED  BY <4>1
    <3> QED  BY <2>2, <3>2 DEF Again, Agent
  <2>7. ResumedTurn' /\ TurnBacked' /\ NothingHeld' /\ YieldKnown'
    BY <2>1, <2>2, <2>5, <2>6 DEF ResumedTurn, TurnBacked, NothingHeld, YieldKnown, InTurn
  <2> QED  BY <2>4, <2>7 DEF Trusted, PassTrusted
<1>4. CASE EndStep
  <2> DEFINE next == IF Fatal THEN Len(Plan) + 1 ELSE me.at + 1
             failed == me.failed \/ Fatal
  <2>1. pc' = "saving" /\ run' = run /\ pc = "left"  BY <1>4 DEF EndStep, ghosts
  <2>2. me' = [me EXCEPT !.at = next, !.item = 0, !.failed = failed]
    BY <1>4, <1>0 DEF EndStep, Passes
  <2>3. me'.at = next /\ me'.resume = me.resume /\ me'.approved = me.approved
    BY <1>0, <2>2 DEF Passes
  <2>4. next >= me.at /\ next \in Nat /\ (next \in Steps => ~Fatal /\ next = me.at + 1)
    BY <1>0, <1>1
  <2> HIDE DEF next, failed
  <2>5. ResumedTurn' /\ TurnBacked' /\ YieldKnown'
    BY <2>1 DEF ResumedTurn, TurnBacked, YieldKnown, InTurn
  <2>6. CASE next \in Steps
    <3>1. Goes  BY <2>1, <2>4, <2>6 DEF Goes
    <3>2. DocumentTrusted' /\ PassKnown'  BY <1>0, <1>2, <2>1, <2>3, <2>4, <3>1, GoesOn
    <3>3. me.approved = Unasked  BY <2>1, <2>4, <2>6 DEF Trusted, PassTrusted, NothingHeld
    <3>4. ~Again'
      <4>1. me.resume # None => Passed(me.resume.agent, me.at)
        BY <3>1 DEF Trusted, PassTrusted, PassKnown
      <4>2. ASSUME me.resume # None, me.resume.agent = Plan[next].agent PROVE FALSE
        <5>1. PICK s \in Steps : Plan[s].agent = me.resume.agent /\ s <= me.at
          BY <4>1, <4>2 DEF Passed
        <5>2. s = next  BY <2>6, <4>2, <5>1, NodesAssumption
        <5> QED  BY <1>0, <1>1, <2>4, <2>6, <5>1, <5>2
      <4> QED  BY <2>3, <4>2 DEF Again, Agent
    <3>5. NothingHeld'  BY <2>1, <2>3, <3>3, <3>4 DEF NothingHeld
    <3> QED  BY <2>5, <3>2, <3>5 DEF Trusted, PassTrusted
  <2>7. CASE next \notin Steps
    <3>1. ~Goes'  BY <2>1, <2>3, <2>7 DEF Goes
    <3>2. ShownWaits' /\ PausedBacked' /\ PendingKnown'
      BY <1>2, <2>1, DocumentKept DEF Trusted
    <3>3. UndecidedWaits'
      BY <1>2, <2>1 DEF Trusted, DocumentTrusted, UndecidedWaits
    <3>4. PausedPassed' /\ PassKnown'
      BY <2>1, <3>1 DEF Trusted, DocumentTrusted, PausedPassed, PassKnown
    <3>5. NothingHeld'  BY <2>1, <2>3, <2>7 DEF NothingHeld
    <3> QED  BY <2>5, <3>2, <3>3, <3>4, <3>5 DEF Trusted, DocumentTrusted, PassTrusted
  <2> QED  BY <2>6, <2>7
<1>5. CASE (Checkpoint \/ CheckpointFails) /\ run.lease = "held"
  <2>1. pc' = "step" /\ me' = me /\ pc = "saving"
    BY <1>5 DEF Checkpoint, CheckpointFails
  <2>2. /\ run'.status = run.status /\ run'.gate = run.gate /\ run'.paused = run.paused
        /\ \/ run'.at = me.at /\ run'.pending = None
           \/ run'.at = run.at /\ run'.pending = run.pending
    BY <1>0, <1>5 DEF Checkpoint, CheckpointFails, Documents
  <2>3. ShownWaits' /\ PausedBacked' /\ PendingKnown'
    <3>1. CASE run'.at = run.at /\ run'.pending = run.pending
      BY <1>2, <2>2, <3>1, DocumentKept DEF Trusted
    <3>2. CASE run'.pending = None
      <4>1. \A turn, calls, tool : Vouched(turn, calls, tool) => Vouched(turn, calls, tool)'
        BY <1>2 DEF Vouched
      <4>2. ShownWaits'  BY <2>2 DEF Trusted, DocumentTrusted, ShownWaits, GateShown
      <4>3. PausedBacked'  BY <2>2, <4>1 DEF Trusted, DocumentTrusted, PausedBacked, Backed
      <4>4. PendingKnown'  BY <3>2 DEF PendingKnown
      <4> QED  BY <4>2, <4>3, <4>4
    <3> QED  BY <2>2, <3>1, <3>2
  <2>4. UndecidedWaits'
    BY <1>2, <2>2 DEF Trusted, DocumentTrusted, UndecidedWaits
  <2>5. Goes' <=> Goes  BY <2>1 DEF Goes, Fatal, Agent
  <2>6. PassKnown'
    BY <2>1, <2>2, <2>5 DEF Trusted, PassTrusted, PassKnown, GateShown
  <2>7. PausedPassed'
    <3>1. CASE run'.at = run.at  BY <2>2, <2>5, <3>1 DEF Trusted, DocumentTrusted, PausedPassed
    <3>2. CASE run'.at = me.at /\ Goes
      BY <2>2, <3>2 DEF Trusted, PassTrusted, PassKnown, PausedPassed
    <3>3. CASE run'.at = me.at /\ ~Goes
      <4>1. me.at \notin Steps  BY <2>1, <3>3 DEF Goes
      <4>2. \A agent : Passed(agent, run.at) => Passed(agent, me.at)
        <5>1. \A s \in Steps : s \in Nat /\ s <= me.at  BY <1>0, <1>1, <4>1
        <5> QED  BY <5>1 DEF Passed
      <4> QED  BY <2>2, <2>5, <3>3, <4>2 DEF Trusted, DocumentTrusted, PausedPassed
    <3> QED  BY <2>2, <3>1, <3>2, <3>3
  <2>8. ResumedTurn' /\ TurnBacked' /\ YieldKnown'
    BY <2>1 DEF ResumedTurn, TurnBacked, YieldKnown, InTurn
  <2>9. NothingHeld'
    <3>1. me.at \in Steps => me.approved = Unasked /\ ~Again
      BY <2>1 DEF Trusted, PassTrusted, NothingHeld
    <3>2. Again' <=> Again  BY <2>1 DEF Again, Agent
    <3> QED  BY <2>1, <3>1, <3>2 DEF NothingHeld
  <2> QED  BY <2>3, <2>4, <2>6, <2>7, <2>8, <2>9 DEF Trusted, DocumentTrusted, PassTrusted
<1>6. CASE Checkpoint /\ run.lease # "held"
  <2>1. Leave /\ run' = run  BY <1>6 DEF Checkpoint
  <2> QED  BY <1>2, <2>1, LeaveTrusted
<1>7. CheckpointFails => run.lease = "held"  BY DEF CheckpointFails
<1> QED  BY <1>3, <1>4, <1>5, <1>6, <1>7

\* The gates.
LEMMA NodeGateTrusted ==
    ASSUME Placed, Trusted, OpenNodeGate \/ Click
    PROVE  Trusted'
<1>0. run \in Documents  BY DEF Placed, TypeOK
<1>1. me' = me /\ verdict' = verdict /\ pc \in {"dispatch", "gate"}
  BY DEF OpenNodeGate, Click, AtCall, ghosts
<1>2. Goes /\ InTurn /\ pc # "idle"  BY <1>1 DEF Goes, InTurn
<1>3. \A turn, calls, tool : Vouched(turn, calls, tool) => Vouched(turn, calls, tool)'
  BY <1>1 DEF Vouched
<1>4. Agent' = Agent /\ Tool' = Tool  BY <1>1 DEF Agent, Tool
<1>5. ASSUME run'.paused = run.paused, run'.pending = run.pending, run'.at = run.at,
             ~GateShown("tool_call")', ~GateShown("tool_call"), pc' \in {"gate", "call"},
             run'.status = "pending_approval" => pc' = "gate" /\ GateShown("node")',
             Agent \in Guarded => me.approved[Tool] = "approved",
             run.pending # None /\ GateShown("node")' /\ run'.gate.call = run.pending.call =>
                Vouched(run.paused.turn, run.paused.calls, run.pending.tool)
      PROVE  Trusted'
  <2>1. ShownWaits'  BY <1>5 DEF ShownWaits
  <2>2. PausedBacked'  BY <1>3, <1>5 DEF Trusted, DocumentTrusted, PausedBacked, Backed
  <2>3. PendingKnown'
    BY <1>3, <1>5 DEF Trusted, DocumentTrusted, PendingKnown, Paired, Outdated
  <2>4. UndecidedWaits' /\ PausedPassed'
    BY <1>2, <1>5 DEF Trusted, DocumentTrusted, UndecidedWaits, PausedPassed
  <2>5. PassKnown'  BY <1>1, <1>2, <1>5 DEF Trusted, PassTrusted, PassKnown
  <2>6. ResumedTurn'
    BY <1>1, <1>2, <1>4 DEF Trusted, PassTrusted, ResumedTurn
  <2>7. TurnBacked'
    <3>1. Backed(me.turn, me.calls, me.approved) => Backed(me.turn, me.calls, me.approved)'
      BY <1>1, <1>3 DEF Backed
    <3>2. NotFinal(me.calls) => NotFinal(me.calls)'  BY <1>1 DEF NotFinal
    <3> QED  BY <1>1, <1>4, <1>5, <3>1, <3>2 DEF Trusted, PassTrusted, TurnBacked
  <2>8. NothingHeld' /\ YieldKnown'  BY <1>5 DEF NothingHeld, YieldKnown
  <2> QED
    BY <2>1, <2>2, <2>3, <2>4, <2>5, <2>6, <2>7, <2>8 DEF Trusted, DocumentTrusted, PassTrusted
<1>6. CASE Click
  <2>1. run' = [run EXCEPT !.status = "running", !.gate = None] /\ pc = "gate" /\ pc' = "call"
    BY <1>6 DEF Click, CloseGate
  <2>2. /\ run'.status = "running" /\ run'.paused = run.paused
        /\ run'.pending = run.pending /\ run'.at = run.at
    BY <1>0, <2>1 DEF Documents
  <2>3. ~GateShown("tool_call")' /\ ~GateShown("node")'  BY <2>2 DEF GateShown
  <2>4. ~GateShown("tool_call")
    BY <1>2 DEF Trusted, PassTrusted, PassKnown, GateShown
  <2>5. Agent \in Guarded => me.approved[Tool] = "approved"
    BY <2>1 DEF Trusted, PassTrusted, TurnBacked
  <2> QED  BY <1>5, <2>1, <2>2, <2>3, <2>4, <2>5
<1>7. CASE OpenNodeGate
  <2>1. /\ run' = [run EXCEPT !.status = "pending_approval", !.gate = Shown("node")]
        /\ pc = "dispatch" /\ pc' = "gate" /\ Permitted /\ me.next <= Len(me.calls)
    BY <1>7 DEF OpenNodeGate, AtCall
  <2>2. /\ run'.status = "pending_approval" /\ run'.paused = run.paused
        /\ run'.pending = run.pending /\ run'.at = run.at /\ run'.gate = Shown("node")
    BY <1>0, <2>1 DEF Documents
  <2>3. /\ Tool \in AllTools /\ Call \in Calls /\ Shown("node").kind = "node"
        /\ Shown("node").call = Call
    BY <1>2, <2>1, ToolOfCall DEF Shown
  <2>4. Shown("node") # None
    BY <2>3, NoneAssumption DEF Shown, ShownGates
  <2>5. GateShown("node")' /\ ~GateShown("tool_call")'  BY <2>2, <2>3, <2>4 DEF GateShown
  <2>6. run.status # "pending_approval" /\ ~GateShown("tool_call")
    BY <1>2, <2>1 DEF Trusted, PassTrusted, PassKnown, GateShown
  <2>7. Agent \in Guarded => me.approved[Tool] = "approved"  BY <2>1 DEF Permitted
  <2>8. ASSUME run.pending # None, Call = run.pending.call
        PROVE  Vouched(run.paused.turn, run.paused.calls, run.pending.tool)
    <3>1. Paired  BY <2>6, <2>8 DEF Trusted, DocumentTrusted, PendingKnown, Outdated, GateShown
    <3>2. Call[1] = me.turn /\ Call[2] = me.next  BY DEF Call
    <3>3. run.paused = me.resume  BY <1>2 DEF Trusted, PassTrusted, PassKnown
    <3>4. me.resume # None /\ me.resume.turn = me.turn  BY <2>8, <3>1, <3>2, <3>3 DEF Paired
    <3>5. me.calls = me.resume.calls /\ me.resume.agent = Agent
      BY <1>2, <3>4 DEF Trusted, PassTrusted, ResumedTurn
    <3>6. run.pending.tool = Tool  BY <2>8, <3>1, <3>2, <3>3, <3>5 DEF Paired, Tool
    <3>7. Agent \in Guarded  BY <3>4, <3>5 DEF Placed, PlaceOK, SnapshotOK
    <3>8. Backed(me.turn, me.calls, me.approved)
      BY <2>1, <3>7 DEF Trusted, PassTrusted, TurnBacked
    <3>9. Vouched(me.turn, me.calls, Tool)  BY <2>3, <2>7, <3>7, <3>8 DEF Backed
    <3> QED  BY <3>3, <3>4, <3>5, <3>6, <3>9
  <2> QED  BY <1>5, <2>1, <2>2, <2>3, <2>5, <2>6, <2>7, <2>8
<1> QED  BY <1>6, <1>7

LEMMA MirrorTrusted ==
    ASSUME Placed, Trusted, NoApprovalLeft, Mirror
    PROVE  Trusted'
<1>0. run \in Documents  BY DEF Placed, TypeOK
<1>1. /\ run' = [run EXCEPT !.status = "pending_approval", !.gate = Shown("tool_call"),
                            !.paused = Snapshot]
      /\ pc = "dispatch" /\ pc' = "yield" /\ me.next <= Len(me.calls)
      /\ Agent \in Guarded /\ me.approved[Tool] = None
      /\ me' = me /\ verdict' = verdict
  BY DEF Mirror, AtCall, Needed
<1>2. /\ run'.status = "pending_approval" /\ run'.gate = Shown("tool_call")
      /\ run'.paused = Snapshot /\ run'.pending = run.pending /\ run'.at = run.at
  BY <1>0, <1>1 DEF Documents
<1>3. Goes /\ InTurn  BY <1>1 DEF Goes, InTurn
<1>4. /\ Tool \in AllTools /\ Call \in Calls /\ Snapshot \in Snapshots
  BY <1>1, <1>3, ToolOfCall, SnapshotTyped
<1>5. /\ Shown("tool_call") \in ShownGates /\ Shown("tool_call").kind = "tool_call"
      /\ Shown("tool_call").call = Call /\ Shown("tool_call").tool = Tool
      /\ Call[1] = me.turn /\ Call[2] = me.next
  BY <1>4 DEF Shown, ShownGates, Call
<1>6. /\ Snapshot.turn = me.turn /\ Snapshot.calls = me.calls
      /\ Snapshot.approved = me.approved
  BY DEF Snapshot
<1>7. Snapshot # None /\ Shown("tool_call") # None  BY <1>4, <1>5, NoneAssumption
<1>8. GateShown("tool_call")' /\ ~GateShown("node")'  BY <1>2, <1>5, <1>7 DEF GateShown
<1>9. me.next \in DOMAIN me.calls
  <2>1. me.calls \in Seq(AllTools) /\ Len(me.calls) \in 1 .. MaxCalls
    BY <1>3, TurnIsSequence DEF Placed, PlaceOK
  <2>2. me.next \in 1 .. MaxCalls  BY <1>1, <1>3, ToolOfCall
  <2> QED  BY <1>1, <2>1, <2>2, AgentBoundsAssumption
<1>10. ShownWaits'
  BY <1>1, <1>2, <1>5, <1>6, <1>7, <1>9 DEF ShownWaits, Tool
<1>11. PausedBacked'
  <2>1. Backed(me.turn, me.calls, me.approved) /\ NotFinal(me.calls)
    BY <1>1 DEF Trusted, PassTrusted, TurnBacked
  <2>2. Backed(run.paused.turn, run.paused.calls, run.paused.approved)'
    <3>1. \A turn, calls, tool : Vouched(turn, calls, tool) => Vouched(turn, calls, tool)'
      BY <1>1 DEF Vouched
    <3>2. /\ run'.paused.turn = me.turn /\ run'.paused.calls = me.calls
          /\ run'.paused.approved = me.approved
      BY <1>2, <1>6
    <3> QED  BY <2>1, <3>1, <3>2 DEF Backed
  <2>3. NotFinal(run.paused.calls)'  BY <1>2, <1>6, <2>1 DEF NotFinal
  <2> QED  BY <2>2, <2>3 DEF PausedBacked
<1>12. run.pending # None => run.pending.call # Call
  <2>1. ASSUME run.pending # None, run.pending.call = Call PROVE FALSE
    <3>1. run.status # "pending_approval"
      BY <1>1, <1>3 DEF Trusted, PassTrusted, PassKnown
    <3>2. Paired  BY <2>1, <3>1 DEF Trusted, DocumentTrusted, PendingKnown, Outdated, GateShown
    <3>3. run.paused = me.resume  BY <1>3 DEF Trusted, PassTrusted, PassKnown
    <3>4. me.resume # None /\ me.resume.turn = me.turn
      BY <1>5, <2>1, <3>2, <3>3 DEF Paired
    <3>5. me.calls = me.resume.calls  BY <1>3, <3>4 DEF Trusted, PassTrusted, ResumedTurn
    <3>6. run.pending.tool = Tool
      BY <1>5, <2>1, <3>2, <3>3, <3>5 DEF Paired, Tool
    <3>7. me.approved[run.pending.tool] # None
      BY <1>1, <1>5, <2>1 DEF Trusted, PassTrusted, TurnBacked
    <3> QED  BY <1>1, <3>6, <3>7
  <2> QED  BY <2>1
<1>13. PendingKnown'
  BY <1>2, <1>5, <1>8, <1>12 DEF Trusted, DocumentTrusted, PendingKnown, Outdated
<1>14. UndecidedWaits'
  BY <1>1, <1>2 DEF Trusted, DocumentTrusted, UndecidedWaits
<1>15. PausedPassed' /\ PassKnown'
  BY <1>1, <1>2 DEF PausedPassed, PassKnown, Goes
<1>16. ResumedTurn'
  BY <1>1, <1>3 DEF Trusted, PassTrusted, ResumedTurn, Agent
<1>17. YieldKnown'
  <2>1. Snapshot' = Snapshot /\ Call' = Call /\ Tool' = Tool
        /\ Shown("tool_call")' = Shown("tool_call")
    BY <1>1 DEF Snapshot, Call, Tool, Shown, Agent
  <2> QED  BY <1>1, <1>2, <1>8, <1>12, <2>1 DEF YieldKnown
<1>18. TurnBacked' /\ NothingHeld'  BY <1>1 DEF TurnBacked, NothingHeld
<1> QED
  BY <1>10, <1>11, <1>13, <1>14, <1>15, <1>16, <1>17, <1>18
     DEF Trusted, DocumentTrusted, PassTrusted

\* A verdict says nothing about the other tools of its turn, or about other turns.
LEMMA OtherVouched ==
    ASSUME verdict \in [Calls -> Verdicts \cup {None}], NEW gate \in Calls, NEW v,
           verdict' = [verdict EXCEPT ![gate] = v],
           NEW turn \in Turns, NEW calls \in TurnsTaken, NEW tool, Vouched(turn, calls, tool),
           turn = gate[1] => gate[2] \in DOMAIN calls /\ calls[gate[2]] # tool
    PROVE  Vouched(turn, calls, tool)'
<1>1. PICK i \in DOMAIN calls : calls[i] = tool /\ verdict[<<turn, i>>] = "approved"
  BY DEF Vouched
<1>2. <<turn, i>> \in Calls
  <2>1. calls \in Seq(AllTools) /\ Len(calls) \in 1 .. MaxCalls  BY TurnIsSequence
  <2>2. i \in 1 .. MaxCalls  BY <1>1, <2>1, AgentBoundsAssumption
  <2> QED  BY <2>2 DEF Calls
<1>3. <<turn, i>> # gate
  <2>1. ASSUME <<turn, i>> = gate PROVE FALSE
    <3>1. gate[1] = turn /\ gate[2] = i  BY <2>1
    <3> QED  BY <1>1, <3>1
  <2> QED  BY <2>1
<1>4. verdict'[<<turn, i>>] = "approved"  BY <1>1, <1>2, <1>3
<1> QED  BY <1>1, <1>4 DEF Vouched

\* The approvals of a snapshot stand when the gate it waits at is decided.
LEMMA DecidedBacked ==
    ASSUME Placed, Trusted, GateShown("tool_call"), NEW v,
           verdict' = [verdict EXCEPT ![run.gate.call] = v], run'.paused = run.paused
    PROVE  PausedBacked'
<1> SUFFICES ASSUME run.paused # None
             PROVE  /\ Backed(run.paused.turn, run.paused.calls, run.paused.approved)'
                    /\ NotFinal(run.paused.calls)'
  BY DEF PausedBacked
<1>1. run.paused \in Snapshots /\ run.gate.call \in Calls /\ run.gate # None
  BY DocumentFields DEF GateShown
<1>2. run.paused.turn \in Turns /\ run.paused.calls \in TurnsTaken  BY <1>1, SnapshotFields
<1>3. verdict \in [Calls -> Verdicts \cup {None}]  BY DEF Placed, TypeOK
<1>4. /\ run.gate.call[2] \in DOMAIN run.paused.calls
      /\ run.paused.calls[run.gate.call[2]] = run.gate.tool
      /\ run.paused.approved[run.gate.tool] = None
  BY DEF Trusted, DocumentTrusted, ShownWaits
<1>5. Backed(run.paused.turn, run.paused.calls, run.paused.approved)
      /\ NotFinal(run.paused.calls)
  BY DEF Trusted, DocumentTrusted, PausedBacked
<1>6. \A tool \in AllTools : run.paused.approved[tool] = "approved" =>
         Vouched(run.paused.turn, run.paused.calls, tool)'
  <2> SUFFICES ASSUME NEW tool \in AllTools, run.paused.approved[tool] = "approved"
               PROVE  Vouched(run.paused.turn, run.paused.calls, tool)'
    OBVIOUS
  <2>1. Vouched(run.paused.turn, run.paused.calls, tool)  BY <1>5 DEF Backed
  <2>2. tool # run.gate.tool  BY <1>4, NoApprovals
  <2>3. PICK turn \in Turns, calls \in TurnsTaken :
           turn = run.paused.turn /\ calls = run.paused.calls
    BY <1>2
  <2>4. Vouched(turn, calls, tool)'
    BY <1>1, <1>3, <1>4, <2>1, <2>2, <2>3, OtherVouched
  <2> QED  BY <2>3, <2>4
<1>7. Backed(run.paused.turn, run.paused.calls, run.paused.approved)'
  BY <1>6 DEF Backed
<1> QED  BY <1>5, <1>7 DEF NotFinal

\* People.
LEMMA DecideTrusted ==
    ASSUME Placed, Trusted, NoApprovalLeft, Decide, ~used'.astray
    PROVE  Trusted'
<1>0. run \in Documents /\ me \in Passes /\ used \in Budgets /\ me.at \in Nat
  BY PassFields, PlanTypes DEF Placed, TypeOK
<1>1. PICK v \in Verdicts : DecideYielded(v) \/ DecideListening(v) \/ DecideOrphan(v)
  BY DEF Decide
<1>2. run.status = "pending_approval" /\ run.gate # None
      /\ run.gate.kind \in {"tool_call", "node"} /\ v # None
  <2>1. Decision(v)  BY <1>1 DEF DecideYielded, DecideListening, DecideOrphan
  <2> QED  BY <2>1, DocumentFields, NoneAssumption DEF Decision
<1>3. run.gate.kind = "tool_call" =>
         GateShown("tool_call") /\ ~Goes /\ verdict' = [verdict EXCEPT ![run.gate.call] = v]
  <2>1. Decision(v)  BY <1>1 DEF DecideYielded, DecideListening, DecideOrphan
  <2> QED  BY <1>2, <2>1 DEF Decision, GateShown, Trusted, PassTrusted, PassKnown
<1>4. run.gate.kind = "node" => verdict' = verdict /\ GateShown("node")
  <2>1. Decision(v)  BY <1>1 DEF DecideYielded, DecideListening, DecideOrphan
  <2> QED  BY <1>2, <2>1 DEF Decision, GateShown
<1>5. ASSUME run'.paused = run.paused PROVE PausedBacked'
  <2>1. CASE run.gate.kind = "tool_call"  BY <1>3, <1>5, <2>1, DecidedBacked
  <2>2. CASE run.gate.kind = "node"
    <3>1. \A turn, calls, tool : Vouched(turn, calls, tool) => Vouched(turn, calls, tool)'
      BY <1>4, <2>2 DEF Vouched
    <3> QED  BY <1>5, <3>1 DEF Trusted, DocumentTrusted, PausedBacked, Backed
  <2> QED  BY <1>2, <2>1, <2>2
\* What the pass holds, if it is one that still executes calls.
<1>6. ASSUME me' = me, pc' = pc, run'.pending.call = run.pending.call,
             run'.pending.tool = run.pending.tool, run'.pending # None => run.pending # None
      PROVE  ResumedTurn' /\ TurnBacked' /\ NothingHeld'
  <2>1. ResumedTurn'  BY <1>6 DEF Trusted, PassTrusted, ResumedTurn, InTurn, Agent
  <2>2. CASE run.gate.kind = "node"
    <3>1. \A turn, calls, tool : Vouched(turn, calls, tool) => Vouched(turn, calls, tool)'
      BY <1>4, <2>2 DEF Vouched
    <3>2. /\ Backed(me.turn, me.calls, me.approved) => Backed(me.turn, me.calls, me.approved)'
          /\ NotFinal(me.calls) => NotFinal(me.calls)'
      BY <1>6, <3>1 DEF Backed, NotFinal
    <3>3. Agent' = Agent /\ Tool' = Tool /\ (Again' <=> Again) /\ (Fatal' <=> Fatal)
      BY <1>6 DEF Agent, Tool, Again, Fatal
    <3>4. TurnBacked'  BY <1>6, <3>2, <3>3 DEF Trusted, PassTrusted, TurnBacked
    <3>5. Backed(me.resume.turn, me.resume.calls, Merged(me.resume)) =>
             Backed(me.resume.turn, me.resume.calls, Merged(me.resume))'
      BY <1>6, <3>1 DEF Backed, Merged
    <3>6. NothingHeld'  BY <1>6, <3>3, <3>5 DEF Trusted, PassTrusted, NothingHeld
    <3> QED  BY <2>1, <3>4, <3>6
  <2>3. CASE run.gate.kind = "tool_call"
    BY <1>3, <1>6, <2>1, <2>3 DEF Goes, TurnBacked, NothingHeld, Fatal, Agent
  <2> QED  BY <1>2, <2>2, <2>3
<1>7. CASE DecideYielded(v)
  <2>1. run' = [run EXCEPT !.pending.decision = v, !.status = "running", !.lease = "none"]
        /\ run.pending # None /\ me' = me /\ pc' = pc
    BY <1>7 DEF DecideYielded
  <2>2. run.gate.call = run.pending.call
    <3>1. used' = [used EXCEPT !.decisions = @ + 1,
                              !.lost = IF pc = "idle" THEN @ ELSE @ + 1,
                              !.astray = @ \/ run.gate.call # run.pending.call]
      BY <1>7 DEF DecideYielded
    <3>2. used'.astray = (used.astray \/ run.gate.call # run.pending.call)
      BY <1>0, <3>1 DEF Budgets
    <3> QED  BY <3>2
  <2>3. /\ run'.status = "running" /\ run'.gate = run.gate /\ run'.paused = run.paused
        /\ run'.at = run.at /\ run'.pending.call = run.pending.call
        /\ run'.pending.tool = run.pending.tool /\ run'.pending.decision = v
    <3>1. run.pending \in Pendings  BY <2>1, DocumentFields
    <3>2. PICK pending : pending = [run.pending EXCEPT !.decision = v]  OBVIOUS
    <3>3. pending.call = run.pending.call /\ pending.tool = run.pending.tool
          /\ pending.decision = v
      BY <3>1, <3>2 DEF Pendings
    <3>4. run' = [run EXCEPT !.pending = pending, !.status = "running", !.lease = "none"]
      BY <1>0, <2>1, <3>2 DEF Documents
    <3> QED  BY <1>0, <3>3, <3>4 DEF Documents
  <2>4. Paired /\ run.at \in Steps
    BY <2>1, <2>2 DEF Trusted, DocumentTrusted, PendingKnown, Outdated
  <2>5. v = "approved" => Vouched(run.paused.turn, run.paused.calls, run.pending.tool)'
    <3> SUFFICES ASSUME v = "approved"
                 PROVE  Vouched(run.paused.turn, run.paused.calls, run.pending.tool)'
      OBVIOUS
    <3>1. CASE run.gate.kind = "tool_call"
      <4>1. run.gate.call \in Calls /\ verdict \in [Calls -> Verdicts \cup {None}]
        BY <1>2, DocumentFields DEF Placed, TypeOK
      <4>2. verdict'[run.gate.call] = "approved"  BY <1>3, <3>1, <4>1
      <4>3. run.gate.call = <<run.gate.call[1], run.gate.call[2]>>  BY <4>1 DEF Calls
      <4>4. /\ run.paused.turn = run.gate.call[1]
            /\ run.gate.call[2] \in DOMAIN run.paused.calls
            /\ run.paused.calls[run.gate.call[2]] = run.pending.tool
        BY <2>2, <2>4 DEF Paired
      <4> QED  BY <2>3, <4>2, <4>3, <4>4 DEF Vouched
    <3>2. CASE run.gate.kind = "node"
      <4>1. Vouched(run.paused.turn, run.paused.calls, run.pending.tool)
        BY <1>4, <2>1, <2>2, <3>2 DEF Trusted, DocumentTrusted, PendingKnown
      <4> QED  BY <1>4, <2>3, <3>2, <4>1 DEF Vouched
    <3> QED  BY <1>2, <3>1, <3>2
  <2>6. ShownWaits'  BY <2>3 DEF ShownWaits, GateShown
  <2>7. PausedBacked'  BY <1>5, <2>3
  <2>8. Paired'  BY <2>3, <2>4, <2>5 DEF Paired
  <2>9. PendingKnown'  BY <2>3, <2>4, <2>8 DEF PendingKnown, GateShown
  <2>10. UndecidedWaits'  BY <1>2, <2>3 DEF UndecidedWaits
  <2>11. PausedPassed'
    <3>1. run.at <= run.at  BY <2>4, PlanTypes DEF Steps
    <3>2. Passed(run.paused.agent, run.at)  BY <2>4, <3>1 DEF Paired, Passed
    <3> QED  BY <2>3, <3>2 DEF PausedPassed
  <2>12. PassKnown'
    <3>1. Goes' <=> Goes  BY <2>1 DEF Goes, Fatal, Agent
    <3> QED  BY <2>1, <2>3, <3>1 DEF Trusted, PassTrusted, PassKnown
  <2>13. YieldKnown'
    BY <1>2, <2>1, <2>2 DEF Trusted, PassTrusted, YieldKnown, Shown
  <2>14. ResumedTurn' /\ TurnBacked' /\ NothingHeld'  BY <1>6, <2>1, <2>3
  <2> QED
    BY <2>6, <2>7, <2>9, <2>10, <2>11, <2>12, <2>13, <2>14
       DEF Trusted, DocumentTrusted, PassTrusted
<1>8. CASE DecideOrphan(v)
  <2>1. run' = [run EXCEPT !.status = "error", !.gate = None]
        /\ run.pending = None /\ me' = me /\ pc' = pc /\ pc # "gate"
    BY <1>8 DEF DecideOrphan
  <2>2. /\ run'.status = "error" /\ run'.gate = None /\ run'.paused = run.paused
        /\ run'.pending = run.pending
    BY <1>0, <2>1 DEF Documents
  <2>3. ~Goes /\ ~Goes'
    BY <1>2, <2>1 DEF Trusted, PassTrusted, PassKnown, Goes, Fatal, Agent
  <2>4. PausedBacked'  BY <1>5, <2>2
  <2>5. ShownWaits' /\ PendingKnown' /\ UndecidedWaits' /\ PausedPassed' /\ PassKnown'
    BY <2>1, <2>2, <2>3 DEF ShownWaits, PendingKnown, UndecidedWaits, PausedPassed,
                            PassKnown, GateShown
  <2>6. YieldKnown'
    <3>1. Snapshot' = Snapshot /\ Tool' = Tool  BY <2>1 DEF Snapshot, Tool, Agent
    <3> QED  BY <2>1, <2>2, <3>1 DEF Trusted, PassTrusted, YieldKnown
  <2>7. ResumedTurn' /\ TurnBacked' /\ NothingHeld'  BY <1>6, <2>1, <2>2
  <2> QED  BY <2>4, <2>5, <2>6, <2>7 DEF Trusted, DocumentTrusted, PassTrusted
<1>9. CASE DecideListening(v)
  <2>1. run' = [run EXCEPT !.status = "running", !.gate = None] /\ run.pending = None
        /\ pc = "gate" /\ ((pc' = "call" /\ me' = me) \/ ToolFailed)
    BY <1>9 DEF DecideListening, CloseGate
  <2>2. /\ run'.status = "running" /\ run'.gate = None /\ run'.paused = run.paused
        /\ run'.pending = run.pending /\ run'.at = run.at
    BY <1>0, <2>1 DEF Documents
  <2>3. Goes /\ me.next <= Len(me.calls)  BY <2>1 DEF Goes, Placed, PlaceOK
  <2>4. verdict' = verdict  BY <1>2, <1>3, <1>4, <2>3
  <2>5. PausedBacked'  BY <1>5, <2>2
  <2>6. ShownWaits' /\ PendingKnown' /\ UndecidedWaits'
    BY <2>1, <2>2 DEF ShownWaits, PendingKnown, UndecidedWaits, GateShown
  <2>7. PausedPassed'
    BY <2>2, <2>3 DEF Trusted, DocumentTrusted, PausedPassed
  <2>8. ResumedTurn' /\ TurnBacked' /\ NothingHeld' /\ YieldKnown'
        /\ me'.at = me.at /\ me'.resume = me.resume
    <3>1. CASE ToolFailed
      BY <2>1, <2>2, <2>3, <2>4, <3>1, FailedTrusted
    <3>2. CASE pc' = "call" /\ me' = me
      <4>1. ResumedTurn'
        BY <2>1, <3>2 DEF Trusted, PassTrusted, ResumedTurn, InTurn, Agent
      <4>2. Agent' = Agent /\ Tool' = Tool  BY <3>2 DEF Agent, Tool
      <4>3. /\ Backed(me.turn, me.calls, me.approved) => Backed(me.turn, me.calls, me.approved)'
            /\ NotFinal(me.calls) => NotFinal(me.calls)'
        BY <2>4, <3>2 DEF Backed, NotFinal, Vouched
      <4>4. TurnBacked'
        BY <2>1, <2>2, <3>2, <4>2, <4>3 DEF Trusted, PassTrusted, TurnBacked
      <4>5. NothingHeld' /\ YieldKnown'  BY <3>2 DEF NothingHeld, YieldKnown
      <4> QED  BY <3>2, <4>1, <4>4, <4>5
    <3> QED  BY <2>1, <3>1, <3>2
  <2>9. PassKnown'
    BY <2>2, <2>3, <2>8 DEF Trusted, PassTrusted, PassKnown
  <2> QED
    BY <2>5, <2>6, <2>7, <2>8, <2>9 DEF Trusted, DocumentTrusted, PassTrusted
<1> QED  BY <1>1, <1>7, <1>8, <1>9

-----------------------------------------------------------------------------
\* As long as no gate and its shown image came apart.
TrustedUnlessAstray == used.astray \/ Trusted

LEMMA AstrayStays == ASSUME Placed, Next, used.astray PROVE used'.astray
<1>0. used \in Budgets  BY DEF Placed, TypeOK
<1>1. CASE UNCHANGED used  BY <1>1
<1>2. CASE MirrorFails \/ YieldFails \/ CheckpointFails \/ Crash
  BY <1>0, <1>2 DEF MirrorFails, YieldFails, CheckpointFails, Crash, Budgets
<1>3. CASE Decide
  <2>1. PICK v \in Verdicts : DecideYielded(v) \/ DecideListening(v) \/ DecideOrphan(v)
    BY <1>3 DEF Decide
  <2> QED
    BY <1>0, <2>1 DEF DecideYielded, DecideListening, DecideOrphan, Budgets
<1>4. CASE Work
  BY <1>1, <1>4 DEF Work, Claim, Sweep, Enter, Think, Answer, NoAnswer, EndTurn, RejectCall,
     Mirror, Yield, YieldInLoop, OpenNodeGate, Execute, NextItem, EndStep, Checkpoint, Finish,
     Cancelled
<1>5. CASE Click  BY <1>1, <1>5 DEF Click
<1> QED  BY <1>2, <1>3, <1>4, <1>5 DEF Next

LEMMA StepTrusted ==
    ASSUME NoApprovalLeft, Placed, TrustedUnlessAstray, [Next]_vars
    PROVE  TrustedUnlessAstray'
<1>1. CASE UNCHANGED vars
  <2>1. Trusted => Trusted'
    <3>1. DocumentTrusted => DocumentTrusted'
      BY <1>1 DEF vars, DocumentTrusted, ShownWaits, PausedBacked, PendingKnown, UndecidedWaits,
         PausedPassed, PassKnown, Paired, Outdated, GateShown, Goes, Fatal, Again, Agent, Tool,
         InTurn, Backed, Vouched, NotFinal, Merged, Snapshot, Shown, Call
    <3>2. PassTrusted => PassTrusted'
      BY <1>1 DEF vars, PassTrusted, PassKnown, ResumedTurn, TurnBacked, NothingHeld, YieldKnown,
         Paired, Outdated, GateShown, Goes, Fatal, Again, Agent, Tool, InTurn, Backed, Vouched,
         NotFinal, Merged, Snapshot, Shown, Call
    <3> QED  BY <3>1, <3>2 DEF Trusted
  <2> QED  BY <1>1, <2>1 DEF vars, TrustedUnlessAstray
<1>2. CASE Next
  <2>1. CASE used'.astray  BY <2>1 DEF TrustedUnlessAstray
  <2>2. CASE ~used'.astray
    <3>1. Trusted  BY <1>2, <2>2, AstrayStays DEF TrustedUnlessAstray
    <3>2. Placed'  BY <1>2, StepPlaced
    <3>3. ~MirrorFails
      <4>1. used \in Budgets  BY DEF Placed, TypeOK
      <4> QED  BY <2>2, <4>1 DEF MirrorFails, Budgets
    <3>4. Trusted'
      BY <1>2, <2>2, <3>1, <3>2, <3>3, EndsTrusted, OutsideTrusted, EnterTrusted, TurnTrusted,
         CallTrusted, StepEndTrusted, NodeGateTrusted, MirrorTrusted, DecideTrusted
         DEF Next, Work
    <3> QED  BY <3>4 DEF TrustedUnlessAstray
  <2> QED  BY <2>1, <2>2
<1> QED  BY <1>1, <1>2

LEMMA InitTrusted == Init => TrustedUnlessAstray
<1> SUFFICES ASSUME Init PROVE Trusted  BY DEF TrustedUnlessAstray
<1>1. DocumentTrusted
  BY DEF Init, DocumentTrusted, ShownWaits, PausedBacked, PendingKnown, UndecidedWaits,
         PausedPassed, GateShown
<1>2. PassTrusted
  BY DEF Init, PassTrusted, PassKnown, ResumedTurn, TurnBacked, NothingHeld, YieldKnown, Goes,
         InTurn
<1> QED  BY <1>1, <1>2 DEF Trusted

\* A call that is executed has an approval of its tool in its turn.
LEMMA ExecuteApproved ==
    ASSUME Placed, TrustedUnlessAstray, Next, ran' # ran, Agent \in Guarded, ~used.astray
    PROVE  \E i \in DOMAIN me.calls :
              me.calls[i] = Tool /\ verdict[<<me.turn, i>>] = "approved"
<1>1. Trusted  BY DEF TrustedUnlessAstray
<1>2. Execute
  BY DEF Next, Work, Claim, Sweep, Enter, Think, Answer, NoAnswer, EndTurn, RejectCall,
     Mirror, Yield, YieldInLoop, OpenNodeGate, NextItem, EndStep, Checkpoint, Finish,
     Cancelled, MirrorFails, YieldFails, CheckpointFails, Click, Decide, DecideYielded,
     DecideListening, DecideOrphan, Crash, ghosts
<1>3. pc \in {"dispatch", "call"} /\ (pc = "call" \/ Permitted) /\ me.next <= Len(me.calls)
  BY <1>2 DEF Execute, AtCall, Placed, PlaceOK
<1>4. me.approved[Tool] = "approved" /\ Backed(me.turn, me.calls, me.approved)
  BY <1>1, <1>3 DEF Permitted, Trusted, PassTrusted, TurnBacked
<1>5. Tool \in AllTools  BY <1>3, ToolOfCall DEF InTurn
<1> QED  BY <1>4, <1>5 DEF Backed, Vouched

\* The approval gate: nothing a guarded agent calls is executed without an
\* approval of that tool given in that turn, however often the agent yields,
\* its pass is lost or its checkpoint fails, as long as no gate and its shown
\* image came apart.
THEOREM OnlyTheApprovedRuns == ASSUME NoApprovalLeft PROVE Spec => RunsOnlyApproved
<1>1. Spec => [](Placed /\ TrustedUnlessAstray)
  <2>1. Init => Placed /\ TrustedUnlessAstray  BY InitPlaced, InitTrusted
  <2>2. Placed /\ TrustedUnlessAstray /\ [Next]_vars => (Placed /\ TrustedUnlessAstray)'
    BY StepPlaced, StepTrusted
  <2> QED  BY <2>1, <2>2, PTL DEF Spec
<1>2. Placed /\ TrustedUnlessAstray /\ [Next]_vars =>
         [ran' # ran /\ Agent \in Guarded /\ ~used.astray =>
            \E i \in DOMAIN me.calls :
               me.calls[i] = Tool /\ verdict[<<me.turn, i>>] = "approved"]_vars
  BY ExecuteApproved
<1> QED  BY <1>1, <1>2, PTL DEF Spec, RunsOnlyApproved
=============================================================================
