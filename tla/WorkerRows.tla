----------------------------- MODULE WorkerRows -----------------------------
(***************************************************************************)
(* The row of a worker's name in worker_health (internal/mongodb/          *)
(* worker_health.go), shared by every process that runs that worker, as    *)
(* WorkerRegistry.StartWorker (internal/worker/registry.go) writes it:     *)
(* at the start, at every heartbeat, and at the end of Run.                *)
(*                                                                         *)
(* Abstractions.  Timestamps are left out. A heartbeat is on its way to    *)
(* the database for a while: the end of the process cancels the wait for   *)
(* its answer, not the write.                                              *)
(***************************************************************************)
EXTENDS Naturals

CONSTANTS Processes, MaxStarts     \* MaxStarts bounds the starts of all processes

VARIABLES
    row,        \* status, error_count and last_error of the name's row
    proc,       \* per process: where StartWorker is, and whether a heartbeat is on its way
    starts

rowVars == <<row, proc, starts>>

RowInit ==
    /\ row = [status |-> "none", errors |-> 0, lastError |-> FALSE]
    /\ proc = [p \in Processes |-> [pc |-> "down", beat |-> FALSE]]
    /\ starts = 0

ProcGoes(p, pc) == proc' = [proc EXCEPT ![p].pc = pc]

\* MarkStarted: running again, the last error forgotten, the count of errors kept.
MarkStarted(p) ==
    /\ proc[p].pc = "down" /\ starts < MaxStarts /\ starts' = starts + 1
    /\ ProcGoes(p, "running")
    /\ \/ row' = [row EXCEPT !.status = "running", !.lastError = FALSE]
       \/ UNCHANGED row     \* the write fails and is only logged

BeatSent(p) ==
    /\ proc[p].pc = "running" /\ ~proc[p].beat
    /\ proc' = [proc EXCEPT ![p].beat = TRUE]
    /\ UNCHANGED <<row, starts>>

\* Mutant: a heartbeat advances its time and does not set the status.
BeatStamps == UNCHANGED row

BeatWrites == row' = [row EXCEPT !.status = "running"]

Beat(p) ==
    /\ proc[p].beat
    /\ BeatWrites
    /\ proc' = [proc EXCEPT ![p].beat = FALSE]
    /\ UNCHANGED starts

\* Run of some instance returns: the context of all of them, and of the heartbeat, is cancelled.
RunReturns(p) ==
    /\ proc[p].pc = "running"
    /\ \E pc \in {"failed", "stopped"} : ProcGoes(p, pc)
    /\ UNCHANGED <<row, starts>>

MarkStopped(p) ==
    /\ proc[p].pc = "stopped" /\ ProcGoes(p, "down")
    /\ row' = [row EXCEPT !.status = IF @ = "none" THEN @ ELSE "stopped"]
    /\ UNCHANGED starts

RecordError(p) ==
    /\ proc[p].pc = "failed" /\ ProcGoes(p, "down")
    /\ row' = [status |-> "errored", errors |-> row.errors + 1, lastError |-> TRUE]
    /\ UNCHANGED starts

\* The process is killed: its row keeps what it says.
Killed(p) ==
    /\ proc[p].pc # "down" /\ ProcGoes(p, "down")
    /\ UNCHANGED <<row, starts>>

StartWorker(p) == MarkStarted(p) \/ BeatSent(p) \/ RunReturns(p) \/ MarkStopped(p) \/ RecordError(p)
-----------------------------------------------------------------------------
(***************************************************************************)
(* The processes of one worker share its row, and the end of one writes    *)
(* over the life of another: while a process runs, its heartbeats bring    *)
(* the row back to running (worker_health.go:92).                          *)
(***************************************************************************)
RowShowsTheLiving ==
    \A p \in Processes :
        <>[](proc[p].pc = "running") => []<>(row.status = "running")
=============================================================================
