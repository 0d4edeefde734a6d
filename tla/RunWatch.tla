------------------------------ MODULE RunWatch ------------------------------
(***************************************************************************)
(* Who waits for a run, and what it is told: the canvas, which dispatches  *)
(* over a WebSocket and then subscribes to the run's events; a webhook     *)
(* called with wait=true, which polls the record; and every way in which a *)
(* run ends, with or without a run_done on its channel.                    *)
(*                                                                         *)
(* Of the events only run_done is kept: the canvas leaves on the first one *)
(* and forwards the others unread.  Wakeups are left out: they only bring  *)
(* forward a claim that the next tick makes anyway.  The read and the      *)
(* write of a cancel, and of a decision, are one step here; WorkflowRun    *)
(* takes them apart.                                                       *)
(***************************************************************************)
EXTENDS Integers, FiniteSets

CONSTANTS
  WatchedRuns,
  Passes,           \* claim loops of the executor workers
  MaxLost           \* bound: leases that lapse under a live worker, workers
                    \* that die, publications, polls, reads and writes that fail

ASSUME NobodyIsNoPass == "none" \notin Passes

VARIABLES
  watched,          \* run -> [status, leased, lapsed, resumable]
  passOf,           \* claim loop -> where its pass stands
  watcher,          \* run -> [kind, at]: who dispatched it
  news,             \* run -> the run_done waiting in the subscription, "none"
  told,             \* run -> what its watcher was told
  ender,            \* run -> a canceller's or a sweep's unfinished work
  lost,             \* faults so far
  unheard,          \* history: runs of which a run_done reached nobody, or that
                    \* something ends without one
  disturbed         \* history: runs that lost a worker, a lease or a write, that
                    \* a canceller or a reaper wrote, or whose decision overtook
                    \* the pass that asked for it

watchVars == <<watched, passOf, watcher, news, told, ender, lost, unheard, disturbed>>

AsOf(r, status) == watched[r].status = status
Terminal(status) == status \in {"success", "error", "cancelled"}
NoPass == [at |-> "idle"]
PassOn(w, r) == passOf[w] # NoPass /\ passOf[w].run = r
Leased(w) == passOf[w] # NoPass /\ watched[passOf[w].run].owner = w

WatchInit ==
    /\ watched = [r \in WatchedRuns |->
                    [status |-> "none", owner |-> "none", lapsed |-> FALSE, resumable |-> FALSE]]
    /\ passOf = [w \in Passes |-> NoPass]
    /\ watcher = [r \in WatchedRuns |-> [kind |-> "none", at |-> "none"]]
    /\ news = [r \in WatchedRuns |-> "none"]
    /\ told = [r \in WatchedRuns |-> "none"]
    /\ ender = [r \in WatchedRuns |-> "none"]
    /\ lost = 0 /\ unheard = {} /\ disturbed = {}

(***************************************************************************)
(* A publication reaches the subscription there is, or nobody, and an      *)
(* error of it is only logged.                                             *)
(***************************************************************************)
Listens(r) == watcher[r].kind = "canvas" /\ watcher[r].at = "pump"
Publishes(r, status) ==
    \/ /\ Listens(r)
       /\ news' = [news EXCEPT ![r] = IF @ = "none" THEN status ELSE @]
       /\ UNCHANGED <<unheard, lost>>
    \/ /\ ~Listens(r)
       /\ unheard' = unheard \cup {r}
       /\ UNCHANGED <<news, lost>>
    \/ /\ Listens(r) /\ lost < MaxLost
       /\ lost' = lost + 1 /\ unheard' = unheard \cup {r}
       /\ UNCHANGED news

Loses(r) == lost < MaxLost /\ lost' = lost + 1 /\ disturbed' = disturbed \cup {r}

----------------------------------------------------------------------------
(***************************************************************************)
(* RunWorkflowWS and HandleWebhook.  The canvas dispatches first and       *)
(* subscribes after it has sent run_start.                                 *)
(***************************************************************************)
Dispatches(r, kind, at) ==
    /\ AsOf(r, "none")
    /\ watched' = [watched EXCEPT ![r].status = "queued"]
    /\ watcher' = [watcher EXCEPT ![r] = [kind |-> kind, at |-> at]]
    /\ UNCHANGED <<passOf, news, told, ender, lost, unheard, disturbed>>

RunWorkflowWS(r) == Dispatches(r, "canvas", "start")
HandleWebhook(r) == Dispatches(r, "webhook", "poll")

Subscribe(r) ==
    /\ watcher[r].at = "start"
    /\ watcher' = [watcher EXCEPT ![r].at = "pump"]
    /\ UNCHANGED <<watched, passOf, news, told, ender, lost, unheard, disturbed>>

Leaves(r, why, status) ==
    /\ watcher' = [watcher EXCEPT ![r].at = why]
    /\ told' = [told EXCEPT ![r] = status]
    /\ UNCHANGED <<watched, passOf, news, ender, lost, unheard, disturbed>>

ForwardDone(r) == Listens(r) /\ news[r] # "none" /\ Leaves(r, "left", news[r])
Polls(r) ==
    /\ watcher[r].at = "poll" /\ Terminal(watched[r].status)
    /\ Leaves(r, "left", watched[r].status)
WatcherGoes(r) ==     \* the socket closes, the caller hangs up, the poll fails
    /\ watcher[r].at \in {"start", "pump", "poll"} /\ lost < MaxLost
    /\ watcher' = [watcher EXCEPT ![r].at = "gone"]
    /\ lost' = lost + 1
    /\ UNCHANGED <<watched, passOf, news, told, ender, unheard, disturbed>>

----------------------------------------------------------------------------
(***************************************************************************)
(* claimAndRun and RunFromCheckpoint.  A node that fails fails a step; the *)
(* walk goes on along the edges it has, and run_done says success whenever *)
(* the queue is empty.  A pass that returns an error publishes nothing.    *)
(***************************************************************************)
Claimable(d) ==
    /\ d.status \in {"queued", "running"}
    /\ d.owner = "none" \/ (d.lapsed /\ d.resumable)

ClaimRun(w, r) ==
    /\ passOf[w] = NoPass /\ Claimable(watched[r])
    /\ watched' = [watched EXCEPT ![r].status = "running", ![r].owner = w, ![r].lapsed = FALSE]
    /\ passOf' = [passOf EXCEPT ![w] = [at |-> "walk", run |-> r, failed |-> FALSE]]
    /\ UNCHANGED <<watcher, news, told, ender, lost, unheard, disturbed>>

StepFails(w) ==
    /\ passOf[w].at = "walk" /\ ~passOf[w].failed
    /\ passOf' = [passOf EXCEPT ![w].failed = TRUE]
    /\ UNCHANGED <<watched, watcher, news, told, ender, lost, unheard, disturbed>>

CheckpointStep(w) ==
    /\ passOf[w].at = "walk" /\ Leased(w) /\ ~watched[passOf[w].run].resumable
    /\ watched' = [watched EXCEPT ![passOf[w].run].resumable = TRUE]
    /\ UNCHANGED <<passOf, watcher, news, told, ender, lost, unheard, disturbed>>

LeaseIsGone(w) ==      \* a checkpoint or the heartbeat finds out: the pass is abandoned
    /\ passOf[w] # NoPass /\ ~Leased(w)
    /\ passOf' = [passOf EXCEPT ![w] = NoPass]
    /\ UNCHANGED <<watched, watcher, news, told, ender, lost, unheard, disturbed>>

GoesTo(w, at) == passOf' = [passOf EXCEPT ![w] = [at |-> at, run |-> @.run, failed |-> @.failed]]

YieldRun(w) ==      \* a gate: pending_approval, and the lease is given back; no run_done
    /\ passOf[w].at = "walk" /\ Leased(w)
    /\ watched' = [watched EXCEPT ![passOf[w].run] =
                     [status |-> "pending", owner |-> "none", lapsed |-> FALSE, resumable |-> TRUE]]
    /\ GoesTo(w, "yielded")
    /\ UNCHANGED <<watcher, news, told, ender, lost, unheard, disturbed>>

DecideRun(r) ==
    /\ AsOf(r, "pending")
    /\ watched' = [watched EXCEPT ![r].status = "running", ![r].owner = "none", ![r].lapsed = FALSE]
    /\ UNCHANGED <<passOf, watcher, news, told, ender, lost, unheard, disturbed>>

WalkDone(w) ==
    /\ passOf[w].at = "walk"
    /\ Publishes(passOf[w].run, "success")
    /\ GoesTo(w, "reread")
    /\ UNCHANGED <<watched, watcher, told, ender, disturbed>>

WalkReturnsError(w) ==      \* refused input, a failed checkpoint, a cancelled context
    /\ passOf[w].at = "walk"
    /\ passOf' = [passOf EXCEPT ![w] = [at |-> "reread", run |-> @.run, failed |-> TRUE]]
    /\ unheard' = unheard \cup {passOf[w].run}
    /\ UNCHANGED <<watched, watcher, news, told, ender, lost, disturbed>>

(***************************************************************************)
(* The end of RunFromCheckpoint.  A run that is found at a gate is left    *)
(* there; one that is not is read again and written back ended, which a    *)
(* pass that yielded does too when the decision, or another's write, came  *)
(* before its read.  It published nothing.                                 *)
(***************************************************************************)
StaysAtGate(w) ==
    /\ passOf[w].at \in {"yielded", "reread"} /\ AsOf(passOf[w].run, "pending")
    /\ passOf' = [passOf EXCEPT ![w] = NoPass]
    /\ UNCHANGED <<watched, watcher, news, told, ender, lost, unheard, disturbed>>

Reread(w) ==
    /\ passOf[w].at = "reread" /\ ~AsOf(passOf[w].run, "pending")
    /\ GoesTo(w, "final")
    /\ UNCHANGED <<watched, watcher, news, told, ender, lost, unheard, disturbed>>

DecisionOvertakes(w) ==
    /\ passOf[w].at = "yielded" /\ ~AsOf(passOf[w].run, "pending")
    /\ GoesTo(w, "final")
    /\ unheard' = unheard \cup {passOf[w].run}
    /\ disturbed' = disturbed \cup {passOf[w].run}
    /\ UNCHANGED <<watched, watcher, news, told, ender, lost>>

RereadFails(w) ==      \* is taken for "not at a gate"
    /\ passOf[w].at \in {"yielded", "reread"}
    /\ Loses(passOf[w].run)
    /\ GoesTo(w, "final")
    /\ unheard' = IF passOf[w].at = "yielded" THEN unheard \cup {passOf[w].run} ELSE unheard
    /\ UNCHANGED <<watched, watcher, news, told, ender>>

ReadFinal(w) ==
    /\ passOf[w].at = "final"
    /\ passOf' = [passOf EXCEPT ![w] = [at |-> "write", run |-> @.run, failed |-> @.failed,
                                       owner |-> watched[@.run].owner,
                                       lapsed |-> watched[@.run].lapsed]]
    /\ UNCHANGED <<watched, watcher, news, told, ender, lost, unheard, disturbed>>

Released(d, w) == IF d.owner = w THEN [d EXCEPT !.owner = "none", !.lapsed = FALSE] ELSE d

WriteEnd(w) ==      \* the record as it was read, ended; then ReleaseLease
    /\ passOf[w].at = "write"
    /\ LET p == passOf[w]
       IN watched' = [watched EXCEPT ![p.run] =
            Released([status |-> IF p.failed THEN "error" ELSE "success",
                      owner |-> p.owner, lapsed |-> p.lapsed, resumable |-> FALSE], w)]
    /\ passOf' = [passOf EXCEPT ![w] = NoPass]
    /\ UNCHANGED <<watcher, news, told, ender, lost, unheard, disturbed>>

EndIsNotWritten(w) ==      \* the read or the write fails, which is only logged
    /\ passOf[w].at \in {"final", "write"}
    /\ Loses(passOf[w].run)
    /\ watched' = [watched EXCEPT ![passOf[w].run] = Released(@, w)]
    /\ passOf' = [passOf EXCEPT ![w] = NoPass]
    /\ UNCHANGED <<watcher, news, told, ender, unheard>>

LeaseLapses(r) ==
    /\ watched[r].owner # "none" /\ ~watched[r].lapsed /\ ~Terminal(watched[r].status)
    /\ watched' = [watched EXCEPT ![r].lapsed = TRUE]
    /\ Loses(r)
    /\ UNCHANGED <<passOf, watcher, news, told, ender, unheard>>

WorkerDies(w) ==
    /\ passOf[w] # NoPass
    /\ watched' = [r \in WatchedRuns |-> IF watched[r].owner = w
                                         THEN [watched[r] EXCEPT !.lapsed = TRUE] ELSE watched[r]]
    /\ passOf' = [passOf EXCEPT ![w] = NoPass]
    /\ Loses(passOf[w].run)
    /\ UNCHANGED <<watcher, news, told, ender, unheard>>

----------------------------------------------------------------------------
(***************************************************************************)
(* Who else ends a run.  The canceller and the sweep of the worker write   *)
(* and then publish; the sweep at the boot of the API and the reaper       *)
(* publish nothing.                                                        *)
(***************************************************************************)
EndedAs(d, status) == [d EXCEPT !.status = status]
CancelledRun(d) == [status |-> "cancelled", owner |-> "none", lapsed |-> FALSE, resumable |-> FALSE]

CancelWatched(r) ==
    /\ ~Terminal(watched[r].status) /\ ~AsOf(r, "none") /\ ender[r] = "none"
    /\ watched' = [watched EXCEPT ![r] = CancelledRun(@)]
    /\ ender' = [ender EXCEPT ![r] = "cancelled"]
    /\ disturbed' = disturbed \cup {r}
    /\ UNCHANGED <<passOf, watcher, news, told, lost, unheard>>

Abandoned(d) == d.owner # "none" /\ d.lapsed /\ ~d.resumable
SweepOrphan(r) ==
    /\ watched[r].status \in {"running", "pending"} /\ Abandoned(watched[r]) /\ ender[r] = "none"
    /\ watched' = [watched EXCEPT ![r] = EndedAs(@, "error")]
    /\ ender' = [ender EXCEPT ![r] = "error"]
    /\ UNCHANGED <<passOf, watcher, news, told, lost, unheard, disturbed>>

Forgets(r) == UNCHANGED <<news, unheard, lost>>
Announces(r) == Publishes(r, ender[r])
EnderPublishes(r) ==
    /\ ender[r] # "none"
    /\ Announces(r)
    /\ ender' = [ender EXCEPT ![r] = "none"]
    /\ UNCHANGED <<watched, passOf, watcher, told, disturbed>>

EnderDies(r) ==
    /\ ender[r] # "none" /\ Loses(r)
    /\ ender' = [ender EXCEPT ![r] = "none"]
    /\ unheard' = unheard \cup {r}
    /\ UNCHANGED <<watched, passOf, watcher, news, told>>

EndsSilently(r) ==      \* the boot sweep; the reaper, of a run that is too old
    /\ ~Terminal(watched[r].status) /\ ~AsOf(r, "none")
    /\ \/ (watched[r].owner = "none" \/ watched[r].lapsed) /\ ~watched[r].resumable
       \/ watched[r].status \in {"running", "pending"}
    /\ watched' = [watched EXCEPT ![r] = EndedAs(@, "error")]
    /\ Loses(r)
    /\ unheard' = unheard \cup {r}
    /\ UNCHANGED <<passOf, watcher, news, told, ender>>

WatchNext ==
    \/ \E r \in WatchedRuns :
          \/ RunWorkflowWS(r) \/ HandleWebhook(r) \/ Subscribe(r) \/ ForwardDone(r) \/ Polls(r)
          \/ WatcherGoes(r) \/ DecideRun(r) \/ LeaseLapses(r)
          \/ CancelWatched(r) \/ SweepOrphan(r) \/ EnderPublishes(r) \/ EnderDies(r)
          \/ EndsSilently(r)
    \/ \E w \in Passes :
          \/ \E r \in WatchedRuns : ClaimRun(w, r)
          \/ StepFails(w) \/ CheckpointStep(w) \/ LeaseIsGone(w) \/ YieldRun(w)
          \/ WalkDone(w) \/ WalkReturnsError(w) \/ StaysAtGate(w) \/ Reread(w)
          \/ DecisionOvertakes(w) \/ RereadFails(w) \/ ReadFinal(w) \/ WriteEnd(w)
          \/ EndIsNotWritten(w) \/ WorkerDies(w)

WatchSpec == WatchInit /\ [][WatchNext]_watchVars

----------------------------------------------------------------------------
(***************************************************************************)
(* A canvas that still waits for a run that ended has its run_done before  *)
(* it, or one is about to be published, unless one was published that      *)
(* reached nobody or the run ended in a way that publishes none: by a walk *)
(* that returned an error, the sweep at boot or the reaper, or a pass that *)
(* yielded and was overtaken by the decision (or could not read the run).  *)
(***************************************************************************)
CanvasReleased ==
    \A r \in WatchedRuns :
        Listens(r) /\ Terminal(watched[r].status) =>
            news[r] # "none" \/ ender[r] # "none" \/ r \in unheard

(***************************************************************************)
(* Whoever was told that a run is over can act on it: the run is over, or  *)
(* its pass is on the way to write it, unless a worker, a lease or a write *)
(* was lost, a canceller came in between, or the decision overtook the     *)
(* pass that had yielded (then the run may go on, and end otherwise).      *)
(***************************************************************************)
ToldIsOver ==
    \A r \in WatchedRuns :
        told[r] # "none" /\ r \notin disturbed =>
            \/ Terminal(watched[r].status)
            \/ \E w \in Passes : PassOn(w, r) /\ passOf[w].at \in {"reread", "final", "write"}

\* Nobody waits for a run that is over, and nobody is told so too early.
WatchersInformed == CanvasReleased /\ ToldIsOver

(***************************************************************************)
(* What the comment of the event types says: run_done is sent when the run *)
(* finished, with success or with an error.                                *)
(***************************************************************************)
DoneTellsOutcome ==
    \A r \in WatchedRuns :
        AsOf(r, "error") /\ watcher[r].kind = "canvas" /\ r \notin disturbed =>
            told[r] # "success"
=============================================================================
