------------------------------ MODULE Tenancy ------------------------------
(***************************************************************************)
(* The members of one tenant: invites, their acceptance and revocation,    *)
(* removal, and the transfer of ownership.  Tenants share no rows, so one  *)
(* is enough.                                                              *)
(*                                                                         *)
(* A handler is a sequence of single-document reads and writes.  Its first *)
(* step is the role check (requireTenantAdmin, or the owner check of the   *)
(* transfer); each later step is an action, and a request may stop between *)
(* two of them: the write failed, or the process died.                     *)
(***************************************************************************)
EXTENDS Integers, FiniteSets

CONSTANTS
  Users,            \* accounts, each with an e-mail address of its own
  Founder,          \* the one who registered and owns the tenant
  Joined,           \* those who may have joined before
  Invites,          \* invites that can be made
  Calls,            \* requests in flight
  MaxTenancyFaults  \* bound: requests that stop half-way

ASSUME TenancyIsFinite == IsFiniteSet(Users) /\ IsFiniteSet(Calls) /\ Founder \in Users

VARIABLES
  ownerId,          \* tenants.owner_id
  member,           \* tenant_members: user -> role, "none" without a row
  invite,           \* tenant_invites
  call,
  tenancyFaults,
  overtaken,        \* history: removals that met a transfer between their read
                    \* of owner_id and their deletion
  misremoved,       \* history: one of them deleted an owner's row
  unsynced          \* history: a transfer lost its write of owner_id, or wrote
                    \* somebody who was no owner any more

tenancyHistory == <<tenancyFaults, overtaken, misremoved, unsynced>>
tenancyVars == <<ownerId, member, invite, call, tenancyHistory>>

NoCall == [op |-> "none"]
NoInvite == [status |-> "none"]

TenancyInit ==
    /\ ownerId = Founder
    /\ \/ /\ member = [u \in Users |-> IF u = Founder THEN "owner" ELSE "none"]
          /\ invite = [i \in Invites |-> NoInvite]
       \/ /\ member = [u \in Users |-> IF u = Founder THEN "owner"          \* grown: the
                                     ELSE IF u \in Joined THEN "admin" ELSE "none"]  \* invites
          /\ invite \in [Invites -> {[status |-> "accepted", email |-> u, role |-> "admin"] :
                                    u \in Joined}]                           \* are used up
    /\ call = [c \in Calls |-> NoCall]
    /\ tenancyFaults = 0 /\ overtaken = {} /\ misremoved = FALSE /\ unsynced = FALSE

Owners == {u \in Users : member[u] = "owner"}
RequireTenantAdmin(u) == member[u] \in {"owner", "admin"}

Starts(c, record) == call[c] = NoCall /\ call' = [call EXCEPT ![c] = record]
Proceeds(c, at) == call' = [call EXCEPT ![c].at = at]
Returns(c) == call' = [call EXCEPT ![c] = NoCall]
At(c, op, at) == call[c] # NoCall /\ call[c].op = op /\ call[c].at = at

Removing == {c \in Calls : At(c, "remove", "delete")}
Halfway == {c \in Calls : At(c, "transfer", "second")}
Syncing == {c \in Calls : At(c, "transfer", "sync")}

----------------------------------------------------------------------------
(***************************************************************************)
(* Invites.  The owner's role cannot be invited: anything but admin is     *)
(* member.  Revoke only touches an invite still active.                    *)
(***************************************************************************)
InvitedRole(asked) == IF asked = "admin" THEN "admin" ELSE "member"

CreateInvite(c, u) ==
    /\ RequireTenantAdmin(u)
    /\ \E to \in Users, asked \in {"owner", "admin"} :
          Starts(c, [op |-> "invite", at |-> "insert", to |-> to, role |-> InvitedRole(asked)])
    /\ UNCHANGED <<ownerId, member, invite, tenancyHistory>>

InsertInvite(c, i) ==
    /\ At(c, "invite", "insert") /\ invite[i] = NoInvite
    /\ invite' = [invite EXCEPT ![i] = [status |-> "active", email |-> call[c].to,
                                         role |-> call[c].role]]
    /\ Returns(c)
    /\ UNCHANGED <<ownerId, member, tenancyHistory>>

RevokeInvite(c, u, i) ==
    /\ RequireTenantAdmin(u)
    /\ Starts(c, [op |-> "revoke", at |-> "update", invite |-> i])
    /\ UNCHANGED <<ownerId, member, invite, tenancyHistory>>

Marks(i, status) ==
    invite' = IF invite[i].status = "active" THEN [invite EXCEPT ![i].status = status] ELSE invite

Revoke(c) ==
    /\ At(c, "revoke", "update")
    /\ Marks(call[c].invite, "revoked") /\ Returns(c)
    /\ UNCHANGED <<ownerId, member, tenancyHistory>>

(***************************************************************************)
(* AcceptInvite: the invite must be active and to the caller's e-mail;     *)
(* AddMember inserts the row, and leaves one that is there as it is;       *)
(* MarkAccepted consumes the invite if it is still active (410 otherwise,  *)
(* with the member added).                                                 *)
(***************************************************************************)
ForCaller(i, u) == invite[i].email = u

AcceptInvite(c, u, i) ==
    /\ invite[i].status = "active" /\ ForCaller(i, u)
    /\ Starts(c, [op |-> "accept", at |-> "add", by |-> u, invite |-> i])
    /\ UNCHANGED <<ownerId, member, invite, tenancyHistory>>

Adds(u, role) == IF member[u] = "none" THEN role ELSE member[u]

AddMember(c) ==
    /\ At(c, "accept", "add")
    /\ LET u == call[c].by
       IN member' = [member EXCEPT ![u] = Adds(u, invite[call[c].invite].role)]
    /\ Proceeds(c, "mark")
    /\ UNCHANGED <<ownerId, invite, tenancyHistory>>

MarkAccepted(c) ==
    /\ At(c, "accept", "mark")
    /\ Marks(call[c].invite, "accepted") /\ Returns(c)
    /\ UNCHANGED <<ownerId, member, tenancyHistory>>

----------------------------------------------------------------------------
(***************************************************************************)
(* RemoveMember reads tenants.owner_id, refuses to remove that user, and   *)
(* deletes the row whatever its role is by then.                           *)
(***************************************************************************)
NotTheOwner(target) == ownerId # target

RemoveMember(c, u, target) ==
    /\ RequireTenantAdmin(u)
    /\ Starts(c, [op |-> "remove", at |-> "check", target |-> target])
    /\ UNCHANGED <<ownerId, member, invite, tenancyHistory>>

CheckOwner(c) ==
    /\ At(c, "remove", "check")
    /\ IF NotTheOwner(call[c].target) THEN Proceeds(c, "delete") ELSE Returns(c)
    /\ overtaken' = IF Halfway \cup Syncing # {} THEN overtaken \cup ({c} \cap Removing')
                    ELSE overtaken
    /\ UNCHANGED <<ownerId, member, invite, tenancyFaults, misremoved, unsynced>>

DeleteMember(c) ==
    /\ At(c, "remove", "delete")
    /\ LET target == call[c].target
       IN /\ member' = [member EXCEPT ![target] = "none"]
          /\ misremoved' = (misremoved \/ (member[target] = "owner" /\ c \in overtaken))
    /\ overtaken' = overtaken \ {c}
    /\ Returns(c)
    /\ UNCHANGED <<ownerId, invite, tenancyFaults, unsynced>>

(***************************************************************************)
(* TransferOwnership: promote the target, which must be a member and no    *)
(* owner, then demote the source, then write owner_id (whose failure is    *)
(* ignored).                                                               *)
(***************************************************************************)
TransferOwnership(c, u, to) ==
    /\ member[u] = "owner" /\ to # u
    /\ Starts(c, [op |-> "transfer", at |-> "first", from |-> u, to |-> to])
    /\ UNCHANGED <<ownerId, member, invite, tenancyHistory>>

CanPromote(c) == member[call[c].to] \in {"admin", "member"}
Promoted(c) == [member EXCEPT ![call[c].to] = "owner"]
Demoted(c) == [member EXCEPT ![call[c].from] = IF @ = "owner" THEN "admin" ELSE @]

WriteSwapped(c, step) == IF step = 1 THEN Demoted(c) ELSE Promoted(c)
Write(c, step) == IF step = 1 THEN Promoted(c) ELSE Demoted(c)

TransferStep1(c) ==
    /\ At(c, "transfer", "first")
    /\ IF CanPromote(c)
       THEN member' = Write(c, 1) /\ Proceeds(c, "second") /\ overtaken' = Removing
       ELSE Returns(c) /\ UNCHANGED <<member, overtaken>>
    /\ UNCHANGED <<ownerId, invite, tenancyFaults, misremoved, unsynced>>

TransferStep2(c) ==
    /\ At(c, "transfer", "second")
    /\ member' = Write(c, 2) /\ Proceeds(c, "sync")
    /\ UNCHANGED <<ownerId, invite, tenancyHistory>>

TransferStep3(c) ==
    /\ At(c, "transfer", "sync")
    /\ ownerId' = call[c].to /\ Returns(c)
    /\ unsynced' = (unsynced \/ member[call[c].to] # "owner")
    /\ UNCHANGED <<member, invite, tenancyFaults, overtaken, misremoved>>

(***************************************************************************)
(* A request stops between two writes: an error, or the process died.  (To *)
(* stop before its first write is to do nothing.)                          *)
(***************************************************************************)
Stops(c) ==
    /\ tenancyFaults < MaxTenancyFaults
    /\ At(c, "transfer", "second") \/ At(c, "transfer", "sync") \/ At(c, "accept", "mark")
    /\ tenancyFaults' = tenancyFaults + 1
    /\ unsynced' = (unsynced \/ c \in Syncing)
    /\ Returns(c)
    /\ UNCHANGED <<ownerId, member, invite, overtaken, misremoved>>

TenancyNext ==
    \E c \in Calls :
       \/ \E u \in Users :
             \/ CreateInvite(c, u)
             \/ \E i \in Invites : RevokeInvite(c, u, i) \/ AcceptInvite(c, u, i)
             \/ \E v \in Users : RemoveMember(c, u, v) \/ TransferOwnership(c, u, v)
       \/ \E i \in Invites : InsertInvite(c, i)
       \/ Revoke(c) \/ AddMember(c) \/ MarkAccepted(c) \/ CheckOwner(c) \/ DeleteMember(c)
       \/ TransferStep1(c) \/ TransferStep2(c) \/ TransferStep3(c) \/ Stops(c)

TenancySpec == TenancyInit /\ [][TenancyNext]_tenancyVars

----------------------------------------------------------------------------
(***************************************************************************)
(* However transfers overlap, stop half-way and are run again, whoever     *)
(* accepts, leaves and is removed meanwhile, the tenant has an owner: a    *)
(* removal spares the last one.  It does not in two cases only: it read    *)
(* owner_id, or deletes, beside a transfer (requests that overlap); or     *)
(* owner_id no longer names an owner, because a transfer lost its last     *)
(* write (tenant.go ignores its error) or two of them wrote it in the      *)
(* other order.                                                            *)
(***************************************************************************)
OwnerKept == Owners # {} \/ misremoved \/ unsynced

(***************************************************************************)
(* What the comment of RemoveMember says: it refuses to remove the owner.  *)
(* So a removal that meets no transfer leaves the tenant an owner.         *)
(***************************************************************************)
RemovalSparesOwner == Owners # {} \/ misremoved

(***************************************************************************)
(* What the comments of TransferOwnership say: its first write refuses a   *)
(* target that is no member, and a retry after a partial failure runs both *)
(* writes again.                                                           *)
(***************************************************************************)
RetryRunsBoth ==
    [][\A c \in Calls :
          At(c, "transfer", "first") /\ call'[c] # call[c] /\ member[call[c].to] # "none" =>
              c \in Halfway']_tenancyVars
============================================================================
