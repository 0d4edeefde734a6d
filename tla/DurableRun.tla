----------------------------- MODULE DurableRun -----------------------------
(***************************************************************************)
(* What durable execution promises of a run: its nodes are committed one   *)
(* after the other, it succeeds only when all are, it is given up only     *)
(* while none is, a finished run stays as it is, and every run finishes.   *)
(* The comments of internal/mongodb/workflow_run.go state these of         *)
(* ClaimLease (resume from the checkpoint) and of the orphan sweep         *)
(* ("flipping it would discard committed BFS progress").                   *)
(***************************************************************************)
EXTENDS Naturals

CONSTANTS N,    \* nodes of the workflow
          R     \* runs

VARIABLES phase, progress

vars == <<phase, progress>>

Init ==
    /\ phase = [r \in 1 .. R |-> "absent"]
    /\ progress = [r \in 1 .. R |-> 0]

Submit(r) ==
    /\ phase[r] = "absent"
    /\ phase' = [phase EXCEPT ![r] = "open"]
    /\ UNCHANGED progress

Commit(r) ==
    /\ phase[r] = "open"
    /\ progress[r] < N
    /\ progress' = [progress EXCEPT ![r] = @ + 1]
    /\ UNCHANGED phase

Finish(r) ==
    /\ phase[r] = "open"
    /\ progress[r] = N
    /\ phase' = [phase EXCEPT ![r] = "success"]
    /\ UNCHANGED progress

Abandon(r) ==
    /\ phase[r] = "open"
    /\ progress[r] = 0
    /\ phase' = [phase EXCEPT ![r] = "error"]
    /\ UNCHANGED progress

Advance(r) == Commit(r) \/ Finish(r) \/ Abandon(r)

Next == \E r \in 1 .. R : Submit(r) \/ Advance(r)

Spec ==
    /\ Init /\ [][Next]_vars
    /\ \A r \in 1 .. R : WF_vars(Advance(r))

=============================================================================
