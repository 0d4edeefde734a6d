------------------------------ MODULE Accounts ------------------------------
(***************************************************************************)
(* One e-mail address: its account, the ways to sign in to it (a password, *)
(* links to OAuth providers), the personal workspaces minted for it, and   *)
(* the requests about it.  Accounts share nothing but the unique index on  *)
(* e-mail addresses, so one address is enough.                             *)
(*                                                                         *)
(* Every read and every write of a handler is a step; a request may stop   *)
(* after any of its writes.                                                *)
(***************************************************************************)
EXTENDS Integers, FiniteSets

CONSTANTS
  Links,            \* <<provider, subject>>: identities with this address
  Requests,         \* requests in flight
  MaxWorkspaces,    \* bound: tenants minted
  MaxAccountFaults  \* bound: requests that stop half-way, and failed reads

VARIABLES
  registered,       \* the users row exists
  password,         \* its password_hash is set
  links,            \* its oauth_providers
  workspaces,       \* tenants rows with this owner_id
  joined,           \* those with their tenant_members row
  resetKey,         \* the Redis key of a reset token: "none", "live", "burnt"
  request,
  accountFaults,    \* requests that stopped half-way
  misread,          \* reads of the memberships that failed
  overlapped        \* history: an unlink decided on links no longer there

accountHistory == <<accountFaults, misread, overlapped>>
accountVars == <<registered, password, links, workspaces, joined, resetKey,
                 request, accountHistory>>
userRow == <<registered, password, links>>
tenantRows == <<workspaces, joined>>

ASSUME RequestsAreFinite == IsFiniteSet(Requests)

NoRequest == [at |-> "none"]
Providers == {l[1] : l \in Links}

AccountsInit ==
    /\ registered = FALSE /\ password = FALSE /\ links = {}
    /\ workspaces = 0 /\ joined = 0
    /\ resetKey = "none"
    /\ request = [r \in Requests |-> NoRequest]
    /\ accountFaults = 0 /\ misread = 0 /\ overlapped = FALSE

Begins(r, record) == request[r] = NoRequest /\ request' = [request EXCEPT ![r] = record]
Goes(r, at) == request' = [request EXCEPT ![r] = [at |-> at]]
Answered(r) == request' = [request EXCEPT ![r] = NoRequest]

----------------------------------------------------------------------------
(***************************************************************************)
(* CreateWithOwner: insert the tenant, then the owner's member row.        *)
(***************************************************************************)
InsertTenant(r) ==
    /\ request[r].at = "mint" /\ workspaces < MaxWorkspaces
    /\ workspaces' = workspaces + 1
    /\ Goes(r, "own")
    /\ UNCHANGED <<userRow, joined, resetKey, accountHistory>>

InsertOwner(r) ==
    /\ request[r].at = "own"
    /\ joined' = joined + 1
    /\ Answered(r)
    /\ UNCHANGED <<userRow, workspaces, resetKey, accountHistory>>

(***************************************************************************)
(* Register: the unique index decides between two; Login, and the OAuth    *)
(* callback, mint a workspace only for an account that has none, as far as *)
(* they can see: both drop the error of the read, and go on with no        *)
(* memberships.                                                            *)
(***************************************************************************)
Register(r) ==
    /\ request[r] = NoRequest /\ ~registered
    /\ registered' = TRUE /\ password' = TRUE
    /\ Goes(r, "mint")
    /\ UNCHANGED <<links, tenantRows, resetKey, accountHistory>>

Login(r) ==
    /\ registered /\ password
    /\ Begins(r, [at |-> "list"])
    /\ UNCHANGED <<userRow, tenantRows, resetKey, accountHistory>>

HasWorkspace == joined > 0

ListMemberships(r) ==
    /\ request[r].at = "list"
    /\ IF HasWorkspace THEN Answered(r) ELSE Goes(r, "mint")
    /\ UNCHANGED <<userRow, tenantRows, resetKey, accountHistory>>

MissesMemberships(r) ==
    /\ request[r].at = "list" /\ accountFaults + misread < MaxAccountFaults
    /\ misread' = misread + 1
    /\ Goes(r, "mint")
    /\ UNCHANGED <<userRow, tenantRows, resetKey, accountFaults, overlapped>>

\* A lookup of the account that fails counts as one that finds none.
UpsertOAuthUser(r) ==
    /\ \E l \in Links, found \in {registered, FALSE} :
          Begins(r, [at |-> IF found THEN "link" ELSE "create", link |-> l])
    /\ UNCHANGED <<userRow, tenantRows, resetKey, accountHistory>>

LinkOAuth(r) ==
    /\ request[r].at = "link"
    /\ links' = links \cup {request[r].link}
    /\ Goes(r, "list")
    /\ UNCHANGED <<registered, password, tenantRows, resetKey, accountHistory>>

CreateOAuth(r) ==
    /\ request[r].at = "create"
    /\ IF registered
       THEN Answered(r) /\ UNCHANGED userRow
       ELSE /\ registered' = TRUE /\ links' = {request[r].link} /\ UNCHANGED password
            /\ Goes(r, "mint")
    /\ UNCHANGED <<tenantRows, resetKey, accountHistory>>

(***************************************************************************)
(* UnlinkOAuth reads the user, refuses to take its only link when it has   *)
(* no password, and pulls every link of the provider.                      *)
(***************************************************************************)
Of(provider) == {l \in links : l[1] = provider}
NeverOnly(provider) == FALSE
OnlyProvider(provider) == Cardinality(links) = 1 /\ Of(provider) = links

UnlinkOAuth(r) ==
    /\ registered
    /\ \E p \in Providers :
          /\ password \/ ~OnlyProvider(p)
          /\ Begins(r, [at |-> "pull", provider |-> p, seen |-> links])
    /\ UNCHANGED <<userRow, tenantRows, resetKey, accountHistory>>

PullLinks(r) ==
    /\ request[r].at = "pull"
    /\ LET p == request[r].provider
       IN /\ links' = links \ Of(p)
          /\ overlapped' = (overlapped \/ ~(request[r].seen \subseteq links)
                                      \/ Cardinality(Of(p)) > 1)
    /\ Answered(r)
    /\ UNCHANGED <<registered, password, tenantRows, resetKey, accountFaults, misread>>

(***************************************************************************)
(* The password: changed (or set for the first time) by the signed-in      *)
(* user, or reset through a link whose key Redis holds.  Confirm looks for *)
(* the key, writes the hash, then deletes the key; the lost write of a key *)
(* leaves a link that is refused, the lost deletion one that still works.  *)
(***************************************************************************)
ChangePassword(r) ==
    /\ registered
    /\ Begins(r, [at |-> "hash", burns |-> FALSE])
    /\ UNCHANGED <<userRow, tenantRows, resetKey, accountHistory>>

PasswordResetRequest ==
    /\ registered /\ resetKey = "none" /\ resetKey' = "live"
    /\ UNCHANGED <<userRow, tenantRows, request, accountHistory>>

PasswordResetConfirm(r) ==
    /\ resetKey = "live"
    /\ Begins(r, [at |-> "hash", burns |-> TRUE])
    /\ UNCHANGED <<userRow, tenantRows, resetKey, accountHistory>>

UpdatePasswordHash(r) ==
    /\ request[r].at = "hash"
    /\ password' = TRUE
    /\ IF request[r].burns THEN Goes(r, "burn") ELSE Answered(r)
    /\ UNCHANGED <<registered, links, tenantRows, resetKey, accountHistory>>

BurnToken(r) ==
    /\ request[r].at = "burn"
    /\ resetKey' = "burnt"
    /\ Answered(r)
    /\ UNCHANGED <<userRow, tenantRows, accountHistory>>

(***************************************************************************)
(* The key's TTL, and a request that stops between two of its writes.      *)
(***************************************************************************)
TokenExpires ==
    /\ resetKey = "live" /\ resetKey' = "burnt"
    /\ UNCHANGED <<userRow, tenantRows, request, accountHistory>>

RequestStops(r) ==
    /\ request[r].at \in {"mint", "own", "list", "burn"}
    /\ accountFaults + misread < MaxAccountFaults
    /\ accountFaults' = accountFaults + 1
    /\ Answered(r)
    /\ UNCHANGED <<userRow, tenantRows, resetKey, misread, overlapped>>

AccountsNext ==
    \/ PasswordResetRequest \/ TokenExpires
    \/ \E r \in Requests :
          \/ Register(r) \/ Login(r) \/ ListMemberships(r) \/ MissesMemberships(r)
          \/ InsertTenant(r) \/ InsertOwner(r)
          \/ UpsertOAuthUser(r) \/ LinkOAuth(r) \/ CreateOAuth(r)
          \/ UnlinkOAuth(r) \/ PullLinks(r)
          \/ ChangePassword(r) \/ PasswordResetConfirm(r) \/ UpdatePasswordHash(r)
          \/ BurnToken(r) \/ RequestStops(r)

AccountsSpec == AccountsInit /\ [][AccountsNext]_accountVars

----------------------------------------------------------------------------
(***************************************************************************)
(* An account keeps a way to sign in: a password or a link to a provider.  *)
(* The guard of UnlinkOAuth looks before it pulls, so two unlinks at once, *)
(* or a provider linked under two subjects, still take the last one away.  *)
(***************************************************************************)
SignInKept == registered => password \/ links # {} \/ overlapped

(***************************************************************************)
(* Sign-ins that overlap before an account has a workspace mint one each.  *)
(* A request that begins after one of them finished mints another only if  *)
(* its read of the memberships failed, an error the code drops.  A tenant  *)
(* row without its owner's row is what a request still writes or left when *)
(* it stopped.                                                             *)
(***************************************************************************)
WorkspacesBounded ==
    /\ joined <= Cardinality(Requests) + misread
    /\ workspaces <= joined + Cardinality({r \in Requests : request[r].at = "own"}) + accountFaults

\* Requests that overlap cost an account neither its sign-in nor, unless a read
\* failed, extra tenants.
AccountSound == SignInKept /\ WorkspacesBounded
============================================================================
