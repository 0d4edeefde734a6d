---------------------------- MODULE CronTrigger ----------------------------
(***************************************************************************)
(* The cron worker (internal/worker/workflow_cron_worker.go): processes    *)
(* that keep a scheduler in step with the workflows of the database, and   *)
(* the ticks that dispatch a run of a workflow.                            *)
(*                                                                         *)
(* Abstractions.  A schedule fires at any time: wall clock and expressions *)
(* are left out but for the one the parser refuses.  The list a sync reads *)
(* is applied in the step that reads it: only the scheduler's own ticks    *)
(* run beside it.  A run in flight is counted with how it was dispatched:  *)
(* by a tick that counted none before it, or by one that did not look.     *)
(***************************************************************************)
EXTENDS Naturals, FiniteSets

CONSTANTS
    CronWorkers,     \* processes of the cron worker
    CronWorkflows,
    TickSlots,       \* ticks open at the same time (bound)
    MaxEdits, MaxCronFaults, MaxCronRuns     \* bounds

ASSUME TickSlotsAssumption == IsFiniteSet(TickSlots)

Exprs == {"none", "valid", "invalid"}
NoTick == [pc |-> "idle"]
Absent == [entry |-> FALSE]

VARIABLES
    schedules,    \* the workflow documents: enabled, cron, skip_if_running, updated_at
    tracked,      \* per process: what it believes it has scheduled
    entries,      \* per process: the scheduler's entries <<workflow, skip, updatedAt>>
    ticks,        \* per slot: a tick's goroutine
    inFlight,     \* per workflow: non-terminal runs [looked, blind]
    cronSpent     \* bounds spent: edits, faults (restarts among them), runs

cronVars == <<schedules, tracked, entries, ticks, inFlight, cronSpent>>

CronInit ==
    /\ schedules = [w \in CronWorkflows |->
           [exists |-> TRUE, enabled |-> TRUE, expr |-> "valid", skip |-> TRUE, ver |-> 0]]
    /\ tracked = [p \in CronWorkers |-> [w \in CronWorkflows |-> Absent]]
    /\ entries = [p \in CronWorkers |-> {}]
    /\ ticks = [s \in TickSlots |-> NoTick]
    /\ inFlight = [w \in CronWorkflows |-> [looked |-> 0, blind |-> 0]]
    /\ cronSpent = [edits |-> 0, faults |-> 0, runs |-> 0]

SpendCron(b) == cronSpent' = [cronSpent EXCEPT ![b] = @ + 1]
CronFault == cronSpent.faults < MaxCronFaults /\ SpendCron("faults")
(***************************************************************************)
(* Which workflows a sync wants scheduled: enabled, with a cron trigger    *)
(* whose expression is not empty.                                          *)
(***************************************************************************)
Active(w) ==
    /\ schedules[w].exists /\ schedules[w].enabled
    /\ schedules[w].expr # "none"

\* Mutant: a change of skip_if_running, or of anything but the expression, is not seen.
ChangedExprOnly(p, w) ==
    ~tracked[p][w].entry \/ tracked[p][w].expr # schedules[w].expr

Changed(p, w) ==
    \/ ~tracked[p][w].entry
    \/ tracked[p][w].expr # schedules[w].expr
    \/ tracked[p][w].ver # schedules[w].ver

EntryOf(w) == <<w, schedules[w].skip, schedules[w].ver>>

(***************************************************************************)
(* One sync: a changed workflow loses its old entry and gets a new one; an *)
(* expression the parser refuses leaves it untracked; an entry of a        *)
(* workflow no longer active is removed.                                   *)
(***************************************************************************)
SyncSchedules(p) ==
    LET fresh == {w \in CronWorkflows : Active(w) /\ Changed(p, w)}
        refused == {w \in fresh : schedules[w].expr = "invalid"}
        stale == fresh \cup {w \in CronWorkflows : ~Active(w)}
    IN  /\ entries' = [entries EXCEPT ![p] =
               {e \in @ : e[1] \notin stale} \cup {EntryOf(w) : w \in fresh \ refused}]
        /\ tracked' = [tracked EXCEPT ![p] = [w \in CronWorkflows |->
               CASE w \in fresh \ refused ->
                      [entry |-> TRUE, expr |-> schedules[w].expr, ver |-> schedules[w].ver]
                 [] w \in refused \/ ~Active(w) -> Absent
                 [] OTHER -> @[w]]]
        /\ UNCHANGED <<schedules, ticks, inFlight, cronSpent>>

(***************************************************************************)
(* A tick: its goroutine keeps the skip flag its entry was made with.      *)
(***************************************************************************)
Fire(p, s) ==
    /\ ticks[s].pc = "idle" /\ cronSpent.runs < MaxCronRuns
    /\ \E e \in entries[p] : ticks' = [ticks EXCEPT ![s] =
           [pc |-> IF e[2] THEN "count" ELSE "fetch", wf |-> e[1], proc |-> p,
            looked |-> FALSE]]
    /\ UNCHANGED <<schedules, tracked, entries, inFlight, cronSpent>>

TicksNow(s, pc) ==
    /\ ticks' = [ticks EXCEPT ![s] = IF pc = "idle" THEN NoTick ELSE [@ EXCEPT !.pc = pc]]
    /\ UNCHANGED <<schedules, tracked, entries>>

\* CountInFlightForWorkflow: queued, running, paused and pending runs.
RunsInFlight(w) == inFlight[w].looked + inFlight[w].blind

\* Mutant: the early return on a count above zero is lost.
CountIgnored(s) ==
    /\ ticks[s].pc = "count"
    /\ ticks' = [ticks EXCEPT ![s] = [@ EXCEPT !.pc = "fetch", !.looked = TRUE]]
    /\ UNCHANGED <<schedules, tracked, entries, inFlight, cronSpent>>

Count(s) ==
    /\ ticks[s].pc = "count"
    /\ IF RunsInFlight(ticks[s].wf) > 0
       THEN TicksNow(s, "idle")
       ELSE /\ ticks' = [ticks EXCEPT ![s] = [@ EXCEPT !.pc = "fetch", !.looked = TRUE]]
            /\ UNCHANGED <<schedules, tracked, entries>>
    /\ UNCHANGED <<inFlight, cronSpent>>

CountFails(s) ==
    /\ ticks[s].pc = "count" /\ CronFault
    /\ TicksNow(s, "fetch") /\ UNCHANGED inFlight

\* GetByID: the workflow only has to exist. Whether it is still enabled is not asked.
Fetch(s) ==
    /\ ticks[s].pc = "fetch"
    /\ TicksNow(s, IF schedules[ticks[s].wf].exists THEN "create" ELSE "idle")
    /\ UNCHANGED <<inFlight, cronSpent>>

Create(s) ==
    /\ ticks[s].pc = "create"
    /\ LET kind == IF ticks[s].looked THEN "looked" ELSE "blind"
       IN  inFlight' = [inFlight EXCEPT ![ticks[s].wf][kind] = @ + 1]
    /\ SpendCron("runs") /\ TicksNow(s, "idle")

\* GetByID or Create returns an error: the tick is given up.
TickFails(s) ==
    /\ ticks[s].pc \in {"fetch", "create"} /\ CronFault
    /\ TicksNow(s, "idle") /\ UNCHANGED inFlight

RunEnded(w) ==
    /\ \E kind \in {"looked", "blind"} :
          /\ inFlight[w][kind] > 0
          /\ inFlight' = [inFlight EXCEPT ![w][kind] = @ - 1]
    /\ UNCHANGED <<schedules, tracked, entries, ticks, cronSpent>>

Edit(w) ==
    /\ schedules[w].exists /\ cronSpent.edits < MaxEdits /\ SpendCron("edits")
    /\ \/ \E enabled, skip \in BOOLEAN, expr \in Exprs :
             schedules' = [schedules EXCEPT ![w] =
                 [@ EXCEPT !.enabled = enabled, !.expr = expr, !.skip = skip,
                           !.ver = @ + 1]]
       \/ schedules' = [schedules EXCEPT ![w].exists = FALSE]
    /\ UNCHANGED <<tracked, entries, ticks, inFlight>>

\* The process dies and comes back: its schedule and its open ticks are gone.
Restart(p) ==
    /\ CronFault
    /\ tracked' = [tracked EXCEPT ![p] = [w \in CronWorkflows |-> Absent]]
    /\ entries' = [entries EXCEPT ![p] = {}]
    /\ ticks' = [s \in TickSlots |->
           IF ticks[s].pc # "idle" /\ ticks[s].proc = p THEN NoTick ELSE ticks[s]]
    /\ UNCHANGED <<schedules, inFlight>>

CronNext ==
    \/ \E p \in CronWorkers : SyncSchedules(p) \/ Restart(p)
    \/ \E p \in CronWorkers, s \in TickSlots : Fire(p, s)
    \/ \E s \in TickSlots : Count(s) \/ CountFails(s) \/ Fetch(s) \/ Create(s) \/ TickFails(s)
    \/ \E w \in CronWorkflows : RunEnded(w) \/ Edit(w)

CronSpec == CronInit /\ [][CronNext]_cronVars
-----------------------------------------------------------------------------
(***************************************************************************)
(* skip_if_running counts, and creates later: nothing holds the workflow   *)
(* in between (workflow_cron_worker.go:289 and :313), so several ticks may *)
(* each find no run in flight.  What the count does give: runs dispatched  *)
(* by ticks that looked, with the ticks that looked and are still to       *)
(* create, never exceed the ticks that can be open at once.                *)
(***************************************************************************)
StackingBounded ==
    \A w \in CronWorkflows :
        inFlight[w].looked
            + Cardinality({s \in TickSlots :
                  ticks[s].pc # "idle" /\ ticks[s].looked /\ ticks[s].wf = w})
        <= Cardinality(TickSlots)

(***************************************************************************)
(* Once the workflows are no longer edited, every process ends with        *)
(* exactly one entry for each active workflow with a valid expression,     *)
(* made from its current document, and with no other: no orphan entry goes *)
(* on firing, no changed flag is missed (syncSchedules).                   *)
(***************************************************************************)
ScheduleCurrent ==
    <>[](\A p \in CronWorkers :
            entries[p] = {EntryOf(w) : w \in
                {v \in CronWorkflows : Active(v) /\ schedules[v].expr = "valid"}})
=============================================================================
