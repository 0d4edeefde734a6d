----------------------------- MODULE MCTriggers -----------------------------
(***************************************************************************)
(* The cron worker, the stream workers and the row of a worker's name:     *)
(* three parts that share nothing, so a behaviour moves one of them.       *)
(***************************************************************************)
EXTENDS CronTrigger, StreamTrigger, WorkerRows

VARIABLE part     \* the part that moves

triggerVars == <<part, cronVars, streamVars, rowVars>>

Init ==
    \/ part = "cron" /\ CronInit /\ RowInit /\ StreamInit /\ kind = "redis"
    \/ part = "stream" /\ CronInit /\ RowInit /\ StreamInit
    \/ part = "rows" /\ CronInit /\ RowInit /\ StreamInit /\ kind = "redis"

Cron == part = "cron" /\ UNCHANGED <<part, streamVars, rowVars>>
Stream == part = "stream" /\ UNCHANGED <<part, cronVars, rowVars>>
Rows == part = "rows" /\ UNCHANGED <<part, cronVars, streamVars>>

Next ==
    \/ CronNext /\ Cron
    \/ StreamNext /\ Stream
    \/ \E p \in Processes : (StartWorker(p) \/ Beat(p) \/ Killed(p)) /\ Rows

StreamSyncs(i) == SyncRMQConsumers(i) \/ SyncRedisSubscribers(i) \/ SyncWSSubscribers(i)

\* The steps a consumer's goroutine takes by itself, without a fault.
GoesOn(c) ==
    \/ ConsumeOnce(c) \/ SubscribeOnce(c) \/ WSSubscribeOnce(c)
    \/ ConsumeLoop(c) \/ SubscribeLoop(c) \/ WSSubscribeLoop(c)
    \/ Receive(c) \/ FetchWorkflow(c) \/ Ack(c)
    \/ ProcessDelivery(c) \/ ProcessRedisMessage(c) \/ ProcessWSMessage(c)
    \/ (GiveUp(c) \/ ConnectFails(c)) /\ streamSpent' = streamSpent

(***************************************************************************)
(* Every process syncs again and again; a consumer's goroutine goes on;    *)
(* a select that may see its context cancelled sees it in the end (Go      *)
(* chooses at random between the cases that are ready); a heartbeat is     *)
(* sent and lands.                                                         *)
(***************************************************************************)
FairSpec ==
    /\ Init /\ [][Next]_triggerVars
    /\ \A p \in CronWorkers : WF_triggerVars(SyncSchedules(p) /\ Cron)
    /\ \A i \in Workers : WF_triggerVars(StreamSyncs(i) /\ Stream)
    /\ \A c \in Consumers :
          WF_triggerVars(GoesOn(c) /\ Stream) /\ SF_triggerVars(Leave(c) /\ Stream)
    /\ \A p \in Processes : WF_triggerVars((BeatSent(p) \/ Beat(p)) /\ Rows)

(***************************************************************************)
(* ScheduleCurrent (CronTrigger), of the behaviours of the cron worker.    *)
(***************************************************************************)
ScheduleConverges == part = "cron" => ScheduleCurrent

(***************************************************************************)
(* RowShowsTheLiving (WorkerRows), of the behaviours of a worker's row.    *)
(***************************************************************************)
RowFollowsTheLiving == part = "rows" => RowShowsTheLiving
=============================================================================
