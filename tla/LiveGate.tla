------------------------------ MODULE LiveGate ------------------------------
(***************************************************************************)
(* One pass of a leased run with a live user interface: the breakpoints    *)
(* and approval gates its nodes stop at, the Continue clicks that reach    *)
(* continueCh through the run-control channel, and the decisions that      *)
(* reach it through the approval registry and the tee goroutine.           *)
(*                                                                         *)
(* The nodes form a chain 1..NNodes.  A handler of the API is a read of    *)
(* the run document, then a publish or a whole-document write.  A message  *)
(* to the bridge takes its time on the way; set_breakpoints is one step,   *)
(* for a later delivery is a later message.                                *)
(***************************************************************************)
EXTENDS Integers, Sequences

CONSTANTS
  NNodes,             \* nodes of the chain
  Gated,              \* nodes with require_node_approval
  InitialBreakpoints, \* the run's initial_breakpoints
  ApiCalls,           \* requests in flight
  Buffer,             \* slots of continueCh and of the registry's channel: 4
  MaxClicks,          \* bound: Continue clicks
  Edits               \* the breakpoint sets a user may send, once

VARIABLES
  runDoc,             \* the run: status, the gate of pending_approval (0: none), lease
  pass,               \* the worker: its node, its stage, the document it read
  passCtx,            \* "live" or "cancelled"
  stopAtSet,
  clicks,             \* continue messages published, not yet on continueCh
  continueCh,         \* tokens, each tagged with what put it there
  decisions,          \* what the registry has pumped
  tee,                \* the goroutine between decisions and continueCh; with it, the
                      \* subscription on the run's channel is open
  oobRejected,        \* the flag it shares with the gate
  apiCall,
  clicked, edited,    \* what the users have sent
  rejectedGates,      \* history: gates released by the token of their own rejection
  nodesRun            \* history

gateDoc == <<runDoc, pass, passCtx, stopAtSet>>
gateChannels == <<clicks, continueCh, decisions, tee, oobRejected>>
gateHistory == <<clicked, edited, rejectedGates, nodesRun>>
gateVars == <<gateDoc, gateChannels, apiCall, gateHistory>>

NoApiCall == [op |-> "none"]
TeeStopped == [at |-> "none"]
NotRead == [status |-> "none"]
Registered == tee # TeeStopped
Terminated == runDoc.status \in {"success", "error", "cancelled"}
Living == passCtx = "live"

GateInit ==
    /\ runDoc = [status |-> "running", pending |-> 0, lease |-> TRUE]
    /\ pass = [node |-> 1, at |-> "visit", rec |-> NotRead]
    /\ passCtx = "live" /\ stopAtSet = InitialBreakpoints
    /\ clicks = 0 /\ continueCh = <<>>
    /\ decisions = <<>> /\ tee = TeeStopped /\ oobRejected = FALSE
    /\ apiCall = [c \in ApiCalls |-> NoApiCall]
    /\ clicked = 0 /\ edited = FALSE
    /\ rejectedGates = {} /\ nodesRun = {}

Stage(s) == pass.at = s
Moves(s) == pass' = [pass EXCEPT !.at = s, !.rec = NotRead]
Reads(s) == pass' = [pass EXCEPT !.at = s, !.rec = runDoc]

----------------------------------------------------------------------------
(***************************************************************************)
(* The worker.  A breakpoint is checkpointed under the lease before the    *)
(* wait; a pass that has lost it returns.                                  *)
(***************************************************************************)
Visit ==
    /\ Stage("visit")
    /\ Moves(IF ~Living THEN "left"
             ELSE IF pass.node \notin stopAtSet THEN "gate"
             ELSE IF runDoc.lease THEN "paused" ELSE "left")
    /\ UNCHANGED <<runDoc, passCtx, stopAtSet, gateChannels, apiCall, gateHistory>>

(***************************************************************************)
(* waitAtBreakpoint takes one token and drains the rest, so that a double  *)
(* click does not release the next pause; it also ends with ctx.           *)
(***************************************************************************)
Drained == <<>>

TakesToken == continueCh # <<>> /\ continueCh' = Drained

WaitAtBreakpoint ==
    /\ Stage("paused")
    /\ \/ TakesToken /\ Moves("gate")
       \/ ~Living /\ Moves("left") /\ UNCHANGED continueCh
    /\ UNCHANGED <<runDoc, passCtx, stopAtSet, clicks, decisions, tee, oobRejected,
                   apiCall, clicked, edited, rejectedGates, nodesRun>>

(***************************************************************************)
(* preExecApproval: persistPendingApprovalMirror (Get, Update, notify),    *)
(* then the subscription and its tee, then the wait.  A call under a       *)
(* cancelled context fails, and its error is ignored.                      *)
(***************************************************************************)
RequireNodeApproval ==
    /\ Stage("gate")
    /\ IF pass.node \notin Gated THEN Moves("run")
       ELSE IF Living THEN Reads("mirror") ELSE Moves("register")
    /\ UNCHANGED <<runDoc, passCtx, stopAtSet, gateChannels, apiCall, gateHistory>>

PersistPendingApprovalMirror ==
    /\ Stage("mirror")
    /\ Moves("register")
    /\ runDoc' = IF Living THEN [pass.rec EXCEPT !.status = "pending_approval",
                                                 !.pending = pass.node]
                 ELSE runDoc
    /\ UNCHANGED <<passCtx, stopAtSet, gateChannels, apiCall, gateHistory>>

SubscribeGate ==
    /\ Stage("register")
    /\ Moves("wait")
    /\ decisions' = <<>> /\ oobRejected' = FALSE
    /\ tee' = [at |-> "reading"]
    /\ UNCHANGED <<runDoc, passCtx, stopAtSet, clicks, continueCh, apiCall, gateHistory>>

(***************************************************************************)
(* The gate's wait.  Its caller then reads oobRejected, unlocked: a        *)
(* rejection whose token it took is ordered before the read, any other one *)
(* may or may not be seen.                                                 *)
(***************************************************************************)
OwnRejection == <<"reject", pass.node>>

WaitAtGate ==
    /\ Stage("wait")
    /\ \/ /\ TakesToken
          /\ IF \E k \in DOMAIN continueCh : continueCh[k] = OwnRejection
             THEN /\ rejectedGates' = rejectedGates \cup {pass.node}
                  /\ Moves(IF oobRejected THEN "rejected" ELSE "approved")
             ELSE /\ \/ Moves("approved")
                     \/ oobRejected /\ Moves("rejected")
                  /\ UNCHANGED rejectedGates
       \/ /\ ~Living
          /\ Moves("approved") \/ (oobRejected /\ Moves("rejected"))
          /\ UNCHANGED <<continueCh, rejectedGates>>
    /\ UNCHANGED <<runDoc, passCtx, stopAtSet, clicks, decisions, tee, oobRejected,
                   apiCall, clicked, edited, nodesRun>>

(***************************************************************************)
(* Then pending_approval is cleared (Get, Update), and the deferred calls  *)
(* close the tee and the subscription.                                     *)
(***************************************************************************)
ReadsToClear ==
    /\ pass.at \in {"approved", "rejected"}
    /\ pass' = [pass EXCEPT !.at = IF @ = "approved" THEN "clear" ELSE "clearRejected",
                            !.rec = runDoc]
    /\ UNCHANGED <<runDoc, passCtx, stopAtSet, gateChannels, apiCall, gateHistory>>

Unregister ==
    /\ decisions' = <<>> /\ tee' = TeeStopped

ClearPending ==
    /\ pass.at \in {"clear", "clearRejected"}
    /\ Moves(IF Stage("clear") THEN "run" ELSE "left")
    /\ runDoc' = IF Living THEN [pass.rec EXCEPT !.status = "running", !.pending = 0] ELSE runDoc
    /\ Unregister
    /\ UNCHANGED <<passCtx, stopAtSet, clicks, continueCh, oobRejected, apiCall, gateHistory>>

(***************************************************************************)
(* The node runs, under a cancelled context too, and is checkpointed.      *)
(* What a pass writes at its end is the business of WorkflowRun.           *)
(***************************************************************************)
RunNode ==
    /\ Stage("run")
    /\ nodesRun' = nodesRun \cup {pass.node}
    /\ IF Living /\ runDoc.lease /\ pass.node < NNodes
       THEN pass' = [pass EXCEPT !.node = @ + 1, !.at = "visit"]
       ELSE Moves("left")
    /\ UNCHANGED <<runDoc, passCtx, stopAtSet, gateChannels, apiCall, clicked, edited,
                   rejectedGates>>

HeartbeatLost ==
    /\ Living /\ ~runDoc.lease
    /\ passCtx' = "cancelled"
    /\ UNCHANGED <<runDoc, pass, stopAtSet, gateChannels, apiCall, gateHistory>>

Worker ==
    \/ Visit \/ WaitAtBreakpoint \/ RequireNodeApproval \/ PersistPendingApprovalMirror
    \/ SubscribeGate \/ WaitAtGate \/ ReadsToClear \/ ClearPending \/ RunNode \/ HeartbeatLost

----------------------------------------------------------------------------
(***************************************************************************)
(* The tee sets the flag, then puts a token on continueCh (it waits while  *)
(* the channel is full), then reads the next decision.                     *)
(***************************************************************************)
LastWins(d) == ~d           \* an altered Records
Records(d) == oobRejected \/ ~d
Sending(d) == [at |-> "sending", token |-> <<IF d THEN "approve" ELSE "reject", pass.node>>]

TeeReads ==
    /\ tee.at = "reading" /\ decisions # <<>>
    /\ decisions' = Tail(decisions)
    /\ tee' = Sending(Head(decisions))
    /\ oobRejected' = Records(Head(decisions))
    /\ UNCHANGED <<gateDoc, clicks, continueCh, apiCall, gateHistory>>

TeeSends ==
    /\ tee.at = "sending" /\ Len(continueCh) < Buffer
    /\ continueCh' = Append(continueCh, tee.token)
    /\ tee' = [at |-> "reading"]
    /\ UNCHANGED <<gateDoc, clicks, decisions, oobRejected, apiCall, gateHistory>>

(***************************************************************************)
(* ContinueRun publishes; startRunControlBridge delivers, and drops the    *)
(* message when the buffer is full.                                        *)
(***************************************************************************)
ContinueRun ==
    /\ ~Terminated /\ clicked < MaxClicks
    /\ clicked' = clicked + 1 /\ clicks' = clicks + 1
    /\ UNCHANGED <<gateDoc, continueCh, decisions, tee, oobRejected, apiCall, edited,
                   rejectedGates, nodesRun>>

StartRunControlBridge ==
    /\ clicks > 0 /\ clicks' = clicks - 1
    /\ continueCh' = IF Living /\ Len(continueCh) < Buffer THEN Append(continueCh, <<"click">>)
                     ELSE continueCh
    /\ UNCHANGED <<gateDoc, decisions, tee, oobRejected, apiCall, gateHistory>>

(***************************************************************************)
(* SetRunBreakpoints replaces stopAtSet, through the same bridge.          *)
(***************************************************************************)
SetBreakpoints(ids) ==
    /\ ~Terminated /\ ~edited
    /\ edited' = TRUE /\ stopAtSet' = ids
    /\ UNCHANGED <<runDoc, pass, passCtx, gateChannels, apiCall, clicked,
                   rejectedGates, nodesRun>>

----------------------------------------------------------------------------
(***************************************************************************)
(* The API.  A decision (from the page, or redeemed from a link whose      *)
(* token is the pending gate's) is published on the run's channel; when    *)
(* nobody listens the run is ended as orphaned, with the document read     *)
(* before.  A force-cancel publishes a rejection, then writes.             *)
(***************************************************************************)
Calls1(c, record) == apiCall[c] = NoApiCall /\ apiCall' = [apiCall EXCEPT ![c] = record]
Returned(c) == apiCall' = [apiCall EXCEPT ![c] = NoApiCall]
Writes(c) == apiCall' = [apiCall EXCEPT ![c].op = "write"]

SubmitRunApproval(c, verdict) ==
    /\ runDoc.status = "pending_approval" /\ runDoc.pending # 0
    /\ Calls1(c, [op |-> "decide", verdict |-> verdict, rec |-> runDoc])
    /\ UNCHANGED <<gateDoc, gateChannels, gateHistory>>

Submitted(d) ==
    decisions' = IF Registered /\ Len(decisions) < Buffer THEN Append(decisions, d)
                 ELSE decisions

ApplyDecisionAcrossPaths(c) ==
    /\ apiCall[c].op = "decide"
    /\ Submitted(apiCall[c].verdict)
    /\ IF Registered THEN Returned(c) ELSE Writes(c)
    /\ UNCHANGED <<gateDoc, clicks, continueCh, tee, oobRejected, gateHistory>>

CancelOrphanedApproval(c) ==
    /\ apiCall[c].op = "write" /\ Returned(c)
    /\ runDoc' = [apiCall[c].rec EXCEPT !.status = "error", !.pending = 0]
    /\ UNCHANGED <<pass, passCtx, stopAtSet, gateChannels, gateHistory>>

CancelRun(c) ==
    /\ ~Terminated
    /\ Calls1(c, [op |-> "cancel", rec |-> runDoc])
    /\ IF runDoc.status = "pending_approval" THEN Submitted(FALSE) ELSE UNCHANGED decisions
    /\ UNCHANGED <<gateDoc, clicks, continueCh, tee, oobRejected, gateHistory>>

CancelRunWrites(c) ==
    /\ apiCall[c].op = "cancel" /\ Returned(c)
    /\ runDoc' = [apiCall[c].rec EXCEPT !.status = "cancelled", !.pending = 0, !.lease = FALSE]
    /\ UNCHANGED <<pass, passCtx, stopAtSet, gateChannels, gateHistory>>

Api(c) ==
    \/ \E verdict \in BOOLEAN : SubmitRunApproval(c, verdict)
    \/ ApplyDecisionAcrossPaths(c) \/ CancelOrphanedApproval(c)
    \/ CancelRun(c) \/ CancelRunWrites(c)

GateNext ==
    \/ Worker \/ TeeReads \/ TeeSends \/ ContinueRun \/ StartRunControlBridge
    \/ \E ids \in Edits : SetBreakpoints(ids)
    \/ \E c \in ApiCalls : Api(c)

GateSpec == GateInit /\ [][GateNext]_gateVars

----------------------------------------------------------------------------
(***************************************************************************)
(* A node whose gate was released by the rejection made at it never runs,  *)
(* whatever clicks, approvals and cancels came with the rejection.         *)
(***************************************************************************)
RejectionHolds == rejectedGates \cap nodesRun = {}

=============================================================================
