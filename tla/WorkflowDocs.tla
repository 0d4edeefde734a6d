---------------------------- MODULE WorkflowDocs ----------------------------
(***************************************************************************)
(* The workflow documents of several tenants, and the requests that save,  *)
(* duplicate, fork from a template, enable, rename and delete them.  Ids   *)
(* are chosen by callers.                                                  *)
(* Each request reads (under its tenant, or under the bare id), decides,   *)
(* and writes by bare id: between the reads and the write other requests   *)
(* run.                                                                    *)
(*                                                                         *)
(* Of a document only its tenant, what the patches set and what a save     *)
(* judges is kept.  Versions and dates are left out.                       *)
(***************************************************************************)
EXTENDS Integers, FiniteSets

CONSTANTS
  WorkflowIds,
  WorkflowTenants,
  DocNames,
  Drafts,           \* [enabled, name, returns, wired, config, target]: what clients send
  Templates,        \* such contents too: the workflows bundled with the program
  NoTarget,         \* the target of one that calls no other workflow
  Savers            \* requests in flight

ContentFields == {"enabled", "name", "returns", "wired", "config", "target"}
IsContent(draft) == DOMAIN draft = ContentFields /\ draft.target \in WorkflowIds \cup {NoTarget}

ASSUME DraftsAreContents == \A draft \in Drafts : IsContent(draft)

\* As they ship: no return node, no config schema to satisfy, no sub-workflow; most
\* have placeholders for connections (wired is FALSE).
ASSUME TemplatesAsShipped ==
    \A t \in Templates : IsContent(t) /\ t.returns = 0 /\ t.config = "given" /\ t.target = NoTarget

VARIABLES
  doc,              \* workflows: id -> document, NoDoc when there is none
  save,             \* request -> where it stands
  moved,            \* history: ids deleted, or overwritten by another tenant
  strayWrites       \* history: writes to another tenant's document that no
                    \* creation after the check, and no failed probe, explains

docVars == <<doc, save, moved, strayWrites>>

NoDoc == [tenant |-> "none"]
Idle == [op |-> "none"]
Exists(i) == doc[i] # NoDoc

DocsInit ==
    /\ doc = [i \in WorkflowIds |-> NoDoc]
    /\ save = [s \in Savers |-> Idle]
    /\ moved = {} /\ strayWrites = {}

GetByIDForTenant(i, t) == Exists(i) /\ doc[i].tenant = t

(***************************************************************************)
(* The first step of a request is its read under its own tenant.           *)
(***************************************************************************)
Request(t, i, op, at, sends) == [op |-> op, at |-> at, tenant |-> t, id |-> i, sends |-> sends,
                                 newcomer |-> FALSE, misread |-> FALSE]
Asks(s, request) == save[s] = Idle /\ save' = [save EXCEPT ![s] = request]
GoesOn(s, at) == save' = [save EXCEPT ![s].at = at]
Ends(s) == save' = [save EXCEPT ![s] = Idle]
Stands(s, at) == save[s] # Idle /\ save[s].at = at

----------------------------------------------------------------------------
(***************************************************************************)
(* UpsertWorkflow: an id that is not the tenant's is probed without scope, *)
(* and refused when it is somebody's; a probe that fails counts as no one. *)
(***************************************************************************)
UpsertWorkflow(s, t, i, draft) ==
    /\ Asks(s, Request(t, i, "save", IF GetByIDForTenant(i, t) THEN "judge" ELSE "probe", draft))
    /\ UNCHANGED <<doc, moved, strayWrites>>

Taken(i) == Exists(i)

ProbeForeign(s) ==
    /\ Stands(s, "probe") /\ save[s].op = "save"
    /\ IF Taken(save[s].id) THEN Ends(s) ELSE GoesOn(s, "judge")
    /\ UNCHANGED <<doc, moved, strayWrites>>

ProbeFails(s) ==
    /\ Stands(s, "probe")
    /\ IF save[s].op = "save"
       THEN save' = [save EXCEPT ![s].at = "judge", ![s].misread = TRUE]
       ELSE Ends(s)
    /\ UNCHANGED <<doc, moved, strayWrites>>

(***************************************************************************)
(* What a save judges: at most one return node, every node that needs a    *)
(* connection has one, every required config value is there or has a       *)
(* default (which is filled in), schemas and cron expressions parse, and a *)
(* sub-workflow node names a workflow of the tenant, or the workflow       *)
(* itself.  No write happens in between, so it is one step, at the read of *)
(* the target.                                                             *)
(***************************************************************************)
DraftValid(draft) == draft.returns <= 1 /\ draft.wired /\ draft.config # "missing"
Backfilled(draft) == [draft EXCEPT !.config = "given"]
AnyTarget(r) == r.sends.target \in {NoTarget, r.id} \/ Exists(r.sends.target)
OwnTarget(r) == r.sends.target \in {NoTarget, r.id} \/ GetByIDForTenant(r.sends.target, r.tenant)

JudgeDraft(s) ==
    /\ Stands(s, "judge")
    /\ IF DraftValid(save[s].sends) /\ OwnTarget(save[s])
       THEN save' = [save EXCEPT ![s].at = "upsert", ![s].sends = Backfilled(@)]
       ELSE Ends(s)
    /\ UNCHANGED <<doc, moved, strayWrites>>

(***************************************************************************)
(* A write by bare id.  Arrives: the id has a new tenant, which requests   *)
(* that already read it do not know.                                       *)
(***************************************************************************)
Arrives(s, i, t) ==
    save' = [r \in Savers |->
               IF r = s THEN Idle
               ELSE IF save[r] # Idle /\ save[r].id = i /\ save[r].tenant # t
                    THEN [save[r] EXCEPT !.newcomer = TRUE] ELSE save[r]]
Strays(s) ==
    LET r == save[s]
    IN strayWrites' = IF /\ Exists(r.id) /\ doc[r.id].tenant # r.tenant
                         /\ ~r.newcomer /\ ~r.misread
                      THEN strayWrites \cup {r.op} ELSE strayWrites
Overwrites(s) == Exists(save[s].id) /\ doc[save[s].id].tenant # save[s].tenant

Upsert(s) ==
    /\ Stands(s, "upsert")
    /\ LET r == save[s]
       IN /\ doc' = [doc EXCEPT ![r.id] = [tenant |-> r.tenant, draft |-> r.sends]]
          /\ IF GetByIDForTenant(r.id, r.tenant) THEN Ends(s) ELSE Arrives(s, r.id, r.tenant)
          /\ moved' = IF Overwrites(s) THEN moved \cup {r.id} ELSE moved
    /\ Strays(s)

(***************************************************************************)
(* DuplicateWorkflow: a copy of the source, as it was read, with another   *)
(* name and under an id that must be free; nothing is judged again.        *)
(* ForkWorkflowTemplate: a copy of a bundled template, likewise; the       *)
(* connections it needs are left for the next save to insist on.           *)
(***************************************************************************)
DuplicateWorkflow(s, t, source, new, name) ==
    /\ GetByIDForTenant(source, t)
    /\ Asks(s, Request(t, new, "duplicate", "probe", [doc[source].draft EXCEPT !.name = name]))
    /\ UNCHANGED <<doc, moved, strayWrites>>

ForkWorkflowTemplate(s, t, new, template, name) ==
    /\ Asks(s, Request(t, new, "fork", "probe", [template EXCEPT !.enabled = TRUE, !.name = name]))
    /\ UNCHANGED <<doc, moved, strayWrites>>

ProbeNewId(s) ==
    /\ Stands(s, "probe") /\ save[s].op \in {"duplicate", "fork"}
    /\ IF Taken(save[s].id) THEN Ends(s) ELSE GoesOn(s, "upsert")
    /\ UNCHANGED <<doc, moved, strayWrites>>

(***************************************************************************)
(* The patches: nothing to do is no write; the write is by bare id, and    *)
(* does nothing when the document is gone.                                 *)
(***************************************************************************)
PatchWorkflowEnabled(s, t, i, on) ==
    /\ GetByIDForTenant(i, t) /\ doc[i].draft.enabled # on
    /\ Asks(s, Request(t, i, "enable", "set", on))
    /\ UNCHANGED <<doc, moved, strayWrites>>

PatchWorkflowName(s, t, i, name) ==
    /\ GetByIDForTenant(i, t) /\ doc[i].draft.name # name
    /\ Asks(s, Request(t, i, "rename", "set", name))
    /\ UNCHANGED <<doc, moved, strayWrites>>

SetEnabled(s) ==
    /\ Stands(s, "set") /\ save[s].op = "enable"
    /\ doc' = IF Exists(save[s].id)
              THEN [doc EXCEPT ![save[s].id].draft.enabled = save[s].sends] ELSE doc
    /\ Ends(s) /\ Strays(s)
    /\ UNCHANGED moved

SetName(s) ==
    /\ Stands(s, "set") /\ save[s].op = "rename"
    /\ doc' = IF Exists(save[s].id)
              THEN [doc EXCEPT ![save[s].id].draft.name = save[s].sends] ELSE doc
    /\ Ends(s) /\ Strays(s)
    /\ UNCHANGED moved

DeleteWorkflow(s, t, i) ==
    /\ GetByIDForTenant(i, t)
    /\ Asks(s, Request(t, i, "delete", "delete", "nothing"))
    /\ UNCHANGED <<doc, moved, strayWrites>>

Delete(s) ==
    /\ Stands(s, "delete")
    /\ doc' = [doc EXCEPT ![save[s].id] = NoDoc]
    /\ moved' = moved \cup {save[s].id}
    /\ Ends(s) /\ Strays(s)

DocsNext ==
    \E s \in Savers :
       \/ \E t \in WorkflowTenants, i \in WorkflowIds :
             \/ \E draft \in Drafts : UpsertWorkflow(s, t, i, draft)
             \/ \E new \in WorkflowIds, name \in DocNames : DuplicateWorkflow(s, t, i, new, name)
             \/ \E on \in BOOLEAN : PatchWorkflowEnabled(s, t, i, on)
             \/ \E name \in DocNames :
                   \/ PatchWorkflowName(s, t, i, name)
                   \/ \E template \in Templates : ForkWorkflowTemplate(s, t, i, template, name)
             \/ DeleteWorkflow(s, t, i)
       \/ ProbeForeign(s) \/ ProbeFails(s) \/ ProbeNewId(s) \/ JudgeDraft(s)
       \/ Upsert(s) \/ SetEnabled(s) \/ SetName(s) \/ Delete(s)

DocsSpec == DocsInit /\ [][DocsNext]_docVars

----------------------------------------------------------------------------
(***************************************************************************)
(* The handlers check the tenant and then write by bare id.  A request     *)
(* still touches another tenant's document only if that tenant came to the *)
(* id after the check, or the database did not answer the probe of a save. *)
(***************************************************************************)
WritesOwn == strayWrites = {}

(***************************************************************************)
(* What is stored passed the judgement of a save, however saves, copies,   *)
(* patches and deletions interleave: one return node at most, its required *)
(* config filled in, its connections named.  The only documents with no    *)
(* connections are templates nobody has saved since, or copies of these.   *)
(* And a document calls a workflow of its own tenant, unless that one was  *)
(* deleted or overwritten.                                                 *)
(***************************************************************************)
Forked(draft) ==
    \E t \in Templates : draft = [t EXCEPT !.enabled = draft.enabled, !.name = draft.name]

StoredSound ==
    \A i \in WorkflowIds : Exists(i) =>
       LET d == doc[i].draft
       IN /\ d.returns <= 1 /\ d.config = "given" /\ (d.wired \/ Forked(d))
          /\ \/ d.target \in {NoTarget, i} \cup moved
             \/ GetByIDForTenant(d.target, doc[i].tenant)

\* A document and who may write it: both of the above.
DocsSound == WritesOwn /\ StoredSound
=============================================================================
