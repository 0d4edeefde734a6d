--------------------------- MODULE ServiceProofs ---------------------------
(***************************************************************************)
(* What holds of the services around a run for every value of their        *)
(* constants: a removal takes a tenant's last owner only beside a transfer *)
(* or after one lost its last write (Tenancy); requests that overlap cost  *)
(* an account no way to sign in and, unless a read failed, no further      *)
(* workspace (Accounts); an edit reaches the cache and no open client is   *)
(* lost from sight (Connections); who waits for a run is told that it      *)
(* ended, or its run_done was lost or never sent (RunWatch); no request    *)
(* writes another tenant's document, and what is stored was judged or is a *)
(* template's copy (WorkflowDocs); and an eval overruns the daily cap by   *)
(* no more than what ran at once or never showed (EvalRuns).  The six      *)
(* share nothing; each has its inductive invariant and its argument below. *)
(***************************************************************************)
EXTENDS Tenancy, Accounts, Connections, RunWatch, WorkflowDocs, EvalRuns,
        FiniteSetTheorems, TLAPS

(***************************************************************************)
(* Tenancy.  The argument counts.  A transfer makes an owner before it     *)
(* unmakes one, so the owners always outnumber the transfers that have     *)
(* promoted their target and not yet demoted their source; however         *)
(* transfers overlap or stop, one owner is left over.  A removal that met  *)
(* no transfer may still delete an owner's row, but not the one owner_id   *)
(* names, and that one is an owner's unless a transfer is about to write   *)
(* owner_id, or lost that write.                                           *)
(***************************************************************************)
CallRecords ==
    {NoCall}
    \cup [op : {"invite"}, at : {"insert"}, to : Users, role : {"admin", "member"}]
    \cup [op : {"revoke"}, at : {"update"}, invite : Invites]
    \cup [op : {"accept"}, at : {"add", "mark"}, by : Users, invite : Invites]
    \cup [op : {"remove"}, at : {"check", "delete"}, target : Users]
    \cup [op : {"transfer"}, at : {"first", "second", "sync"}, from : Users, to : Users]

TenancyTypes ==
    /\ ownerId \in Users
    /\ member = [u \in Users |-> member[u]]
    /\ call \in [Calls -> CallRecords]
    /\ misremoved \in BOOLEAN /\ unsynced \in BOOLEAN

OwnersOutnumber == Cardinality(Owners) > Cardinality(Halfway)
OwnerNamed == Syncing # {} \/ member[ownerId] = "owner"
RemovalsFresh ==
    \A c \in Removing \ overtaken : Halfway \cup Syncing = {} /\ ownerId # call[c].target

TenancyInvariant ==
    /\ TenancyTypes /\ RemovalsFresh
    /\ misremoved \/ unsynced \/ (OwnersOutnumber /\ OwnerNamed)

-----------------------------------------------------------------------------
(***************************************************************************)
(* Both sets are finite, so they can be counted.                           *)
(***************************************************************************)
LEMMA Countable ==
    /\ IsFiniteSet(Owners) /\ IsFiniteSet(Owners')
    /\ IsFiniteSet(Halfway) /\ IsFiniteSet(Halfway')
    /\ Cardinality(Owners) \in Nat /\ Cardinality(Owners') \in Nat
    /\ Cardinality(Halfway) \in Nat /\ Cardinality(Halfway') \in Nat
<1>1. Owners \subseteq Users /\ Owners' \subseteq Users
  BY DEF Owners
<1>2. Halfway \subseteq Calls /\ Halfway' \subseteq Calls
  BY DEF Halfway
<1>3. IsFiniteSet(Owners) /\ IsFiniteSet(Owners') /\ IsFiniteSet(Halfway) /\ IsFiniteSet(Halfway')
  BY <1>1, <1>2, TenancyIsFinite, FS_Subset
<1> QED
  BY <1>3, FS_CardinalityType

LEMMA InitiallyOwned == TenancyInit => TenancyInvariant
<1> SUFFICES ASSUME TenancyInit PROVE TenancyInvariant
  OBVIOUS
<1>1. TenancyTypes
  BY TenancyIsFinite DEF TenancyInit, TenancyTypes, CallRecords
<1>2. Owners = {Founder} /\ Halfway = {} /\ Removing = {}
  BY TenancyIsFinite DEF TenancyInit, Owners, Halfway, Removing, At
<1>3. Cardinality(Owners) = 1 /\ Cardinality(Halfway) = 0
  BY <1>2, FS_Singleton, FS_EmptySet
<1>4. member[ownerId] = "owner"
  BY TenancyIsFinite DEF TenancyInit
<1> QED
  BY <1>1, <1>2, <1>3, <1>4 DEF TenancyInvariant, OwnersOutnumber, OwnerNamed, RemovalsFresh

-----------------------------------------------------------------------------
(***************************************************************************)
(* What a request that goes on to r does to the sets of those at a step.   *)
(***************************************************************************)
Names(r, op, at) == r # NoCall /\ r.op = op /\ r.at = at
Joins(set, then, c, joins) ==
    /\ joins => then = set \cup {c}
    /\ ~joins => then = set \ {c}

LEMMA CallMoves ==
    ASSUME TenancyTypes, NEW c \in Calls, NEW r \in CallRecords,
           call' = [call EXCEPT ![c] = r]
    PROVE  /\ call' \in [Calls -> CallRecords]
           /\ call'[c] = r /\ \A d \in Calls \ {c} : call'[d] = call[d]
           /\ Joins(Halfway, Halfway', c, Names(r, "transfer", "second"))
           /\ Joins(Syncing, Syncing', c, Names(r, "transfer", "sync"))
           /\ Joins(Removing, Removing', c, Names(r, "remove", "delete"))
<1>1. call' \in [Calls -> CallRecords]
  BY DEF TenancyTypes
<1>2. call'[c] = r /\ \A d \in Calls \ {c} : call'[d] = call[d]
  BY DEF TenancyTypes
<1>3. Joins(Halfway, Halfway', c, Names(r, "transfer", "second"))
  BY <1>2 DEF Halfway, At, Joins, Names
<1>4. Joins(Syncing, Syncing', c, Names(r, "transfer", "sync"))
  BY <1>2 DEF Syncing, At, Joins, Names
<1>5. Joins(Removing, Removing', c, Names(r, "remove", "delete"))
  BY <1>2 DEF Removing, At, Joins, Names
<1> QED
  BY <1>1, <1>2, <1>3, <1>4, <1>5

(***************************************************************************)
(* A step that takes no owner away, of a request that neither is in a      *)
(* transfer past its first write nor gets there, changes nothing.          *)
(***************************************************************************)
OutOfTransfer(r) ==
    ~Names(r, "transfer", "second") /\ ~Names(r, "transfer", "sync")

LEMMA NoOwnerLost ==
    ASSUME TenancyInvariant, NEW c \in Calls, NEW r \in CallRecords,
           call' = [call EXCEPT ![c] = r], OutOfTransfer(call[c]), OutOfTransfer(r),
           member' = [u \in Users |-> member'[u]],
           \A u \in Users : member[u] = "owner" => member'[u] = "owner",
           UNCHANGED <<ownerId, misremoved, unsynced>>,
           \/ ~Names(r, "remove", "delete") /\ overtaken' = overtaken
           \/ overtaken \subseteq overtaken' /\ c \in overtaken'
           \/ /\ overtaken' = overtaken /\ Halfway \cup Syncing = {}
              /\ Names(r, "remove", "delete") => ownerId # r.target
    PROVE  TenancyInvariant'
<1>1. TenancyTypes /\ RemovalsFresh
  BY DEF TenancyInvariant
<1>a. /\ call' \in [Calls -> CallRecords]
      /\ call'[c] = r /\ \A d \in Calls \ {c} : call'[d] = call[d]
      /\ Joins(Halfway, Halfway', c, Names(r, "transfer", "second"))
      /\ Joins(Syncing, Syncing', c, Names(r, "transfer", "sync"))
      /\ Joins(Removing, Removing', c, Names(r, "remove", "delete"))
  BY <1>1, CallMoves
<1>b. Halfway' = Halfway \ {c} /\ Syncing' = Syncing \ {c}
  BY <1>a DEF OutOfTransfer, Joins
<1>2. /\ call' \in [Calls -> CallRecords]
      /\ call'[c] = r /\ \A d \in Calls \ {c} : call'[d] = call[d]
      /\ Halfway' = Halfway \ {c} /\ Syncing' = Syncing \ {c}
      /\ Joins(Removing, Removing', c, Names(r, "remove", "delete"))
  BY <1>a, <1>b
<1>3. c \notin Halfway /\ c \notin Syncing
  BY DEF OutOfTransfer, Names, Halfway, Syncing, At
<1>4. Halfway' = Halfway /\ Syncing' = Syncing
  BY <1>2, <1>3
<1>5. TenancyTypes'
  BY <1>1, <1>2 DEF TenancyTypes
<1>6. RemovalsFresh'
  <2> SUFFICES ASSUME NEW d \in Removing', d \notin overtaken'
               PROVE  Halfway' \cup Syncing' = {} /\ ownerId' # call'[d].target
    BY DEF RemovalsFresh
  <2>1. CASE d # c
    <3>1. d \in Removing /\ d \notin overtaken /\ d \in Calls
      BY <1>2, <2>1 DEF Joins, Removing
    <3> QED
      BY <1>1, <1>2, <1>4, <2>1, <3>1 DEF RemovalsFresh
  <2>2. CASE d = c
    <3>1. Names(r, "remove", "delete")
      BY <1>2, <2>2 DEF Joins
    <3> QED
      BY <1>2, <1>4, <2>2, <3>1
  <2> QED
    BY <2>1, <2>2
<1>7. OwnersOutnumber => OwnersOutnumber'
  <2>1. Owners \subseteq Owners'
    BY DEF Owners
  <2>2. Cardinality(Owners) <= Cardinality(Owners')
    BY <2>1, Countable, FS_Subset
  <2> QED
    BY <1>4, <2>2, Countable DEF OwnersOutnumber
<1>8. OwnerNamed => OwnerNamed'
  BY <1>1, <1>4 DEF OwnerNamed, TenancyTypes
<1> QED
  BY <1>5, <1>6, <1>7, <1>8 DEF TenancyInvariant

(***************************************************************************)
(* The first write of a transfer: one owner more, one demotion due.  Every *)
(* removal that has read owner_id has met it.                              *)
(***************************************************************************)
LEMMA Promotion ==
    ASSUME TenancyInvariant, NEW c \in Calls, TransferStep1(c)
    PROVE  TenancyInvariant'
<1>1. TenancyTypes
  BY DEF TenancyInvariant
<1>2. /\ call[c] \in [op : {"transfer"}, at : {"first", "second", "sync"}, from : Users, to : Users]
      /\ call[c].at = "first"
  BY <1>1 DEF TransferStep1, TenancyTypes, CallRecords, At, NoCall
<1>3. CASE ~CanPromote(c)
  <2> DEFINE r == NoCall
  <2>1. call' = [call EXCEPT ![c] = r] /\ r \in CallRecords
    BY <1>3 DEF TransferStep1, Returns, CallRecords
  <2>2. OutOfTransfer(call[c]) /\ OutOfTransfer(r) /\ ~Names(r, "remove", "delete")
    BY <1>2 DEF OutOfTransfer, Names
  <2>3. UNCHANGED <<ownerId, member, overtaken, misremoved, unsynced>>
    BY <1>3 DEF TransferStep1
  <2>4. member' = [u \in Users |-> member'[u]]
    BY <1>1, <2>3 DEF TenancyTypes
  <2> HIDE DEF r
  <2> QED
    BY <2>1, <2>2, <2>3, <2>4, NoOwnerLost
<1>4. CASE CanPromote(c)
  <2> DEFINE to == call[c].to
  <2> DEFINE r == [call[c] EXCEPT !.at = "second"]
  <2>1. to \in Users /\ to \notin Owners
    BY <1>2, <1>4 DEF CanPromote, Owners
  <2>2. /\ member' = [member EXCEPT ![to] = "owner"]
        /\ call' = [call EXCEPT ![c] = r]
        /\ overtaken' = Removing
        /\ UNCHANGED <<ownerId, misremoved, unsynced>>
    BY <1>4 DEF TransferStep1, Write, Promoted, Proceeds
  <2>3. r \in CallRecords /\ Names(r, "transfer", "second") /\ ~Names(r, "transfer", "sync")
        /\ ~Names(r, "remove", "delete")
    BY <1>2 DEF CallRecords, Names, NoCall
  <2>4. c \notin Halfway /\ c \notin Syncing /\ c \notin Removing
    BY <1>2 DEF Halfway, Syncing, Removing, At
  <2> HIDE DEF r
  <2>a. /\ call' \in [Calls -> CallRecords]
        /\ Joins(Halfway, Halfway', c, Names(r, "transfer", "second"))
        /\ Joins(Syncing, Syncing', c, Names(r, "transfer", "sync"))
        /\ Joins(Removing, Removing', c, Names(r, "remove", "delete"))
    BY <1>1, <2>2, <2>3, CallMoves
  <2>b. Halfway' = Halfway \cup {c} /\ Syncing' = Syncing \ {c} /\ Removing' = Removing \ {c}
    BY <2>3, <2>a DEF Joins
  <2>5. /\ call' \in [Calls -> CallRecords]
        /\ Halfway' = Halfway \cup {c} /\ Syncing' = Syncing /\ Removing' = Removing
    BY <2>4, <2>a, <2>b
  <2>6. Owners' = Owners \cup {to}
    BY <1>1, <2>1, <2>2 DEF Owners, TenancyTypes
  <2>7. TenancyTypes'
    BY <1>1, <2>2, <2>5 DEF TenancyTypes
  <2>8. Cardinality(Owners') = Cardinality(Owners) + 1
    BY <2>1, <2>6, Countable, FS_AddElement
  <2>9. Cardinality(Halfway') = Cardinality(Halfway) + 1
    BY <2>4, <2>5, Countable, FS_AddElement
  <2>10. OwnersOutnumber => OwnersOutnumber'
    BY <2>8, <2>9, Countable DEF OwnersOutnumber
  <2>11. OwnerNamed => OwnerNamed'
    BY <1>1, <2>2, <2>5 DEF OwnerNamed, TenancyTypes
  <2>12. RemovalsFresh'
    BY <2>2, <2>5 DEF RemovalsFresh
  <2> QED
    BY <2>2, <2>7, <2>10, <2>11, <2>12 DEF TenancyInvariant
<1> QED
  BY <1>3, <1>4

(***************************************************************************)
(* Past its first write a transfer has met every removal that read         *)
(* owner_id, and its later steps are of no concern to them.                *)
(***************************************************************************)
LEMMA AllOvertaken ==
    ASSUME TenancyInvariant, NEW c \in Calls, NEW r \in CallRecords,
           c \in Halfway \cup Syncing, call' = [call EXCEPT ![c] = r],
           ~Names(r, "remove", "delete"), overtaken' = overtaken
    PROVE  RemovalsFresh'
<1>1. TenancyTypes /\ Removing \subseteq overtaken
  BY DEF TenancyInvariant, RemovalsFresh
<1>2. Joins(Removing, Removing', c, Names(r, "remove", "delete"))
  BY <1>1, CallMoves
<1>3. Removing' \subseteq Removing
  BY <1>2 DEF Joins
<1> QED
  BY <1>1, <1>3 DEF RemovalsFresh

(***************************************************************************)
(* The second write: one demotion less due, and at most one owner less.    *)
(***************************************************************************)
LEMMA Demotion ==
    ASSUME TenancyInvariant, NEW c \in Calls, TransferStep2(c)
    PROVE  TenancyInvariant'
<1>1. TenancyTypes
  BY DEF TenancyInvariant
<1>2. /\ call[c] \in [op : {"transfer"}, at : {"first", "second", "sync"}, from : Users, to : Users]
      /\ c \in Halfway
  BY <1>1 DEF TransferStep2, TenancyTypes, CallRecords, At, NoCall, Halfway
<1> DEFINE from == call[c].from
<1> DEFINE r == [call[c] EXCEPT !.at = "sync"]
<1>3. /\ member' = [member EXCEPT ![from] = IF @ = "owner" THEN "admin" ELSE @]
      /\ call' = [call EXCEPT ![c] = r]
      /\ UNCHANGED <<ownerId, overtaken, misremoved, unsynced>>
  BY DEF TransferStep2, Write, Demoted, Proceeds, tenancyHistory
<1>4. r \in CallRecords /\ Names(r, "transfer", "sync") /\ ~Names(r, "transfer", "second")
      /\ ~Names(r, "remove", "delete")
  BY <1>2 DEF CallRecords, Names, NoCall
<1>5. from \in Users
  BY <1>2
<1> HIDE DEF r
<1>a. /\ call' \in [Calls -> CallRecords]
      /\ Joins(Halfway, Halfway', c, Names(r, "transfer", "second"))
      /\ Joins(Syncing, Syncing', c, Names(r, "transfer", "sync"))
  BY <1>1, <1>3, <1>4, CallMoves
<1>6. call' \in [Calls -> CallRecords] /\ Halfway' = Halfway \ {c} /\ c \in Syncing'
  BY <1>4, <1>a DEF Joins
<1>7. Owners' = Owners \ {from}
  BY <1>1, <1>3, <1>5 DEF Owners, TenancyTypes
<1>8. TenancyTypes'
  BY <1>1, <1>3, <1>6 DEF TenancyTypes
<1>9. Cardinality(Owners') >= Cardinality(Owners) - 1
  <2>1. IsFiniteSet(Owners) /\ Cardinality(Owners) \in Nat
    BY Countable
  <2>2. CASE from \in Owners
    <3>1. Cardinality(Owners \ {from}) = Cardinality(Owners) - 1
      BY <2>1, <2>2, FS_RemoveElement
    <3> QED
      BY <1>7, <2>1, <3>1
  <2>3. CASE from \notin Owners
    <3>1. Owners' = Owners
      BY <1>7, <2>3
    <3> QED
      BY <2>1, <3>1
  <2> QED
    BY <2>2, <2>3
<1>10. Cardinality(Halfway') = Cardinality(Halfway) - 1
  BY <1>2, <1>6, Countable, FS_RemoveElement
<1>11. OwnersOutnumber => OwnersOutnumber'
  BY <1>9, <1>10, Countable DEF OwnersOutnumber
<1>12. OwnerNamed'
  BY <1>6 DEF OwnerNamed
<1>13. RemovalsFresh'
  BY <1>2, <1>3, <1>4, AllOvertaken
<1> QED
  BY <1>3, <1>8, <1>11, <1>12, <1>13 DEF TenancyInvariant

(***************************************************************************)
(* The write of owner_id names the new owner, or somebody who is no owner  *)
(* any more; a transfer that stops leaves its two owners, or a stale       *)
(* owner_id.                                                               *)
(***************************************************************************)
LEMMA TransferEnds ==
    ASSUME TenancyInvariant, NEW c \in Calls, c \in Halfway \cup Syncing,
           call' = [call EXCEPT ![c] = NoCall], UNCHANGED <<member, overtaken, misremoved>>,
           ownerId' \in Users, unsynced' \in BOOLEAN,
           unsynced => unsynced',
           unsynced' \/ member[ownerId'] = "owner" \/ (c \in Halfway /\ ownerId' = ownerId)
    PROVE  TenancyInvariant'
<1>1. TenancyTypes
  BY DEF TenancyInvariant
<1> DEFINE r == NoCall
<1>2. r \in CallRecords /\ ~Names(r, "transfer", "sync") /\ ~Names(r, "transfer", "second")
      /\ ~Names(r, "remove", "delete")
  BY DEF CallRecords, Names
<1>3. call' = [call EXCEPT ![c] = r]
  OBVIOUS
<1> HIDE DEF r
<1>a. /\ call' \in [Calls -> CallRecords]
      /\ Joins(Halfway, Halfway', c, Names(r, "transfer", "second"))
      /\ Joins(Syncing, Syncing', c, Names(r, "transfer", "sync"))
  BY <1>1, <1>2, <1>3, CallMoves
<1>4. /\ call' \in [Calls -> CallRecords]
      /\ Halfway' = Halfway \ {c} /\ Syncing' = Syncing \ {c}
  BY <1>2, <1>a DEF Joins
<1>5. TenancyTypes'
  BY <1>1, <1>4 DEF TenancyTypes
<1>6. RemovalsFresh'
  BY <1>2, <1>3, AllOvertaken
<1>7. OwnersOutnumber => OwnersOutnumber'
  <2>1. Owners' = Owners
    BY DEF Owners
  <2>2. Cardinality(Halfway') <= Cardinality(Halfway)
    BY <1>4, Countable, FS_Subset
  <2> QED
    BY <2>1, <2>2, Countable DEF OwnersOutnumber
<1>8. OwnerNamed => OwnerNamed' \/ unsynced'
  <2>1. CASE member[ownerId'] = "owner"
    BY <2>1 DEF OwnerNamed
  <2>2. CASE c \in Halfway /\ ownerId' = ownerId
    <3>1. c \notin Syncing
      BY <2>2 DEF Halfway, Syncing, At
    <3> QED
      BY <1>4, <2>2, <3>1 DEF OwnerNamed
  <2> QED
    BY <2>1, <2>2
<1> QED
  BY <1>1, <1>5, <1>6, <1>7, <1>8 DEF TenancyInvariant, TenancyTypes

(***************************************************************************)
(* A removal deletes whoever is there by now: an owner's row while         *)
(* owner_id names another one, or after it met a transfer.                 *)
(***************************************************************************)
LEMMA Removal ==
    ASSUME TenancyInvariant, NEW c \in Calls, DeleteMember(c)
    PROVE  TenancyInvariant'
<1>1. TenancyTypes /\ RemovalsFresh
  BY DEF TenancyInvariant
<1>2. /\ call[c] \in [op : {"remove"}, at : {"check", "delete"}, target : Users]
      /\ c \in Removing /\ c \notin Halfway /\ c \notin Syncing
  BY <1>1 DEF DeleteMember, TenancyTypes, CallRecords, At, NoCall, Removing, Halfway, Syncing
<1> DEFINE target == call[c].target
<1> DEFINE r == NoCall
<1>3. /\ member' = [member EXCEPT ![target] = "none"]
      /\ misremoved' = (misremoved \/ (member[target] = "owner" /\ c \in overtaken))
      /\ overtaken' = overtaken \ {c}
      /\ call' = [call EXCEPT ![c] = r]
      /\ UNCHANGED <<ownerId, unsynced>>
  BY DEF DeleteMember, Returns
<1>4. target \in Users
  BY <1>2
<1>5. r \in CallRecords /\ ~Names(r, "transfer", "sync") /\ ~Names(r, "transfer", "second")
      /\ ~Names(r, "remove", "delete")
  BY DEF CallRecords, Names
<1> HIDE DEF r
<1>a. /\ call' \in [Calls -> CallRecords] /\ \A d \in Calls \ {c} : call'[d] = call[d]
      /\ Joins(Halfway, Halfway', c, Names(r, "transfer", "second"))
      /\ Joins(Syncing, Syncing', c, Names(r, "transfer", "sync"))
      /\ Joins(Removing, Removing', c, Names(r, "remove", "delete"))
  BY <1>1, <1>3, <1>5, CallMoves
<1>b. Halfway' = Halfway \ {c} /\ Syncing' = Syncing \ {c} /\ Removing' = Removing \ {c}
  BY <1>5, <1>a DEF Joins
<1>6. /\ call' \in [Calls -> CallRecords] /\ \A d \in Calls \ {c} : call'[d] = call[d]
      /\ Halfway' = Halfway /\ Syncing' = Syncing /\ Removing' = Removing \ {c}
  BY <1>2, <1>a, <1>b
<1>7. TenancyTypes'
  BY <1>1, <1>3, <1>6 DEF TenancyTypes
<1>8. RemovalsFresh'
  <2>1. Removing \subseteq Calls
    BY DEF Removing
  <2> QED
    BY <1>1, <1>3, <1>6, <2>1 DEF RemovalsFresh
<1>9. CASE misremoved'
  BY <1>7, <1>8, <1>9 DEF TenancyInvariant
<1>10. CASE unsynced
  BY <1>3, <1>7, <1>8, <1>10 DEF TenancyInvariant
<1>11. CASE ~misremoved' /\ ~unsynced
  <2>1. OwnersOutnumber /\ OwnerNamed /\ ~misremoved
    BY <1>1, <1>3, <1>11 DEF TenancyInvariant, TenancyTypes
  <2>2. CASE member[target] # "owner"
    <3>1. Owners' = Owners
      BY <1>1, <1>3, <1>4, <2>2 DEF Owners, TenancyTypes
    <3>2. OwnersOutnumber'
      BY <1>6, <2>1, <3>1 DEF OwnersOutnumber
    <3>3. OwnerNamed'
      BY <1>1, <1>3, <1>6, <2>1, <2>2 DEF OwnerNamed, TenancyTypes
    <3> QED
      BY <1>7, <1>8, <3>2, <3>3 DEF TenancyInvariant
  <2>3. CASE member[target] = "owner"
    <3>1. c \notin overtaken
      BY <1>3, <1>11, <2>3
    <3>2. Halfway = {} /\ Syncing = {} /\ ownerId # target
      BY <1>1, <1>2, <3>1 DEF RemovalsFresh
    <3>3. ownerId \in Owners' /\ OwnerNamed'
      BY <1>1, <1>3, <2>1, <3>2 DEF OwnerNamed, TenancyTypes, Owners
    <3>4. Cardinality(Owners') # 0
      BY <3>3, Countable, FS_EmptySet
    <3>5. Cardinality(Halfway') = 0
      BY <1>6, <3>2, FS_EmptySet
    <3>6. OwnersOutnumber'
      BY <3>4, <3>5, Countable DEF OwnersOutnumber
    <3> QED
      BY <1>7, <1>8, <3>3, <3>6 DEF TenancyInvariant
  <2> QED
    BY <2>2, <2>3
<1> QED
  BY <1>3, <1>7, <1>9, <1>10, <1>11 DEF TenancyTypes

(***************************************************************************)
(* A removal that read owner_id: it met a transfer that is past its first  *)
(* write, or owner_id names somebody else.                                 *)
(***************************************************************************)
LEMMA OwnerChecked ==
    ASSUME TenancyInvariant, NEW c \in Calls, CheckOwner(c)
    PROVE  TenancyInvariant'
<1>1. TenancyTypes
  BY DEF TenancyInvariant
<1>2. call[c] \in [op : {"remove"}, at : {"check", "delete"}, target : Users]
  BY <1>1 DEF CheckOwner, TenancyTypes, CallRecords, At, NoCall
<1>3. OutOfTransfer(call[c])
  BY <1>2 DEF OutOfTransfer, Names
<1>4. /\ UNCHANGED <<ownerId, member, misremoved, unsynced>>
      /\ overtaken' = IF Halfway \cup Syncing # {} THEN overtaken \cup ({c} \cap Removing')
                      ELSE overtaken
  BY DEF CheckOwner
<1>5. member' = [u \in Users |-> member'[u]]
  BY <1>1, <1>4 DEF TenancyTypes
<1>6. CASE ~NotTheOwner(call[c].target)
  <2> DEFINE r == NoCall
  <2>1. call' = [call EXCEPT ![c] = r] /\ r \in CallRecords
    BY <1>6 DEF CheckOwner, Returns, CallRecords
  <2>2. OutOfTransfer(r) /\ ~Names(r, "remove", "delete")
    BY DEF OutOfTransfer, Names
  <2> HIDE DEF r
  <2>a. Joins(Removing, Removing', c, Names(r, "remove", "delete"))
    BY <1>1, <2>1, CallMoves
  <2>3. c \notin Removing'
    BY <2>2, <2>a DEF Joins
  <2>4. overtaken' = overtaken
    BY <1>4, <2>3
  <2> QED
    BY <1>3, <1>4, <1>5, <2>1, <2>2, <2>4, NoOwnerLost
<1>7. CASE NotTheOwner(call[c].target)
  <2> DEFINE r == [call[c] EXCEPT !.at = "delete"]
  <2>1. call' = [call EXCEPT ![c] = r]
    BY <1>7 DEF CheckOwner, Proceeds
  <2>2. r \in CallRecords /\ OutOfTransfer(r) /\ Names(r, "remove", "delete")
    BY <1>2 DEF CallRecords, OutOfTransfer, Names, NoCall
  <2>3. r.target = call[c].target
    BY <1>2
  <2> HIDE DEF r
  <2>a. Joins(Removing, Removing', c, Names(r, "remove", "delete"))
    BY <1>1, <2>1, <2>2, CallMoves
  <2>4. c \in Removing'
    BY <2>2, <2>a DEF Joins
  <2>5. \/ overtaken \subseteq overtaken' /\ c \in overtaken'
        \/ overtaken' = overtaken /\ Halfway \cup Syncing = {}
    BY <1>4, <2>4
  <2>6. ownerId # r.target
    BY <1>7, <2>3 DEF NotTheOwner
  <2> QED
    BY <1>3, <1>4, <1>5, <2>1, <2>2, <2>5, <2>6, NoOwnerLost
<1> QED
  BY <1>6, <1>7

(***************************************************************************)
(* Every other step of a request leaves the members as they are, or adds   *)
(* one where no row is.                                                    *)
(***************************************************************************)
LEMMA OwnersUntouched ==
    ASSUME TenancyInvariant, NEW c \in Calls, NEW r \in CallRecords,
           call' = [call EXCEPT ![c] = r],
           r = NoCall \/ r.op \in {"invite", "revoke", "accept"} \/ r.at \in {"check", "first"},
           call[c] = NoCall \/ call[c].op \in {"invite", "revoke", "accept"},
           \/ member' = member
           \/ \E u \in Users : \E role : member' = [member EXCEPT ![u] = Adds(u, role)],
           UNCHANGED <<ownerId, overtaken, misremoved, unsynced>>
    PROVE  TenancyInvariant'
<1>1. TenancyTypes
  BY DEF TenancyInvariant
<1>2. OutOfTransfer(call[c]) /\ OutOfTransfer(r) /\ ~Names(r, "remove", "delete")
  BY DEF OutOfTransfer, Names
<1>3. /\ member' = [u \in Users |-> member'[u]]
      /\ \A u \in Users : member[u] = "owner" => member'[u] = "owner"
  BY <1>1 DEF TenancyTypes, Adds
<1> QED
  BY <1>2, <1>3, NoOwnerLost

LEMMA RequestBegins ==
    ASSUME TenancyInvariant, NEW c \in Calls, NEW r \in CallRecords,
           Starts(c, r), r.op \in {"invite", "revoke", "accept"} \/ r.at \in {"check", "first"},
           UNCHANGED <<ownerId, member, overtaken, misremoved, unsynced>>
    PROVE  TenancyInvariant'
BY OwnersUntouched DEF Starts

LEMMA RequestReturns ==
    ASSUME TenancyInvariant, NEW c \in Calls, Returns(c),
           call[c].op \in {"invite", "revoke", "accept"},
           UNCHANGED <<ownerId, member, overtaken, misremoved, unsynced>>
    PROVE  TenancyInvariant'
<1>1. NoCall \in CallRecords /\ call' = [call EXCEPT ![c] = NoCall]
  BY DEF CallRecords, Returns
<1> QED
  BY <1>1, OwnersUntouched

LEMMA Addition ==
    ASSUME TenancyInvariant, NEW c \in Calls, AddMember(c)
    PROVE  TenancyInvariant'
<1>1. call[c] \in [op : {"accept"}, at : {"add", "mark"}, by : Users, invite : Invites]
  BY DEF AddMember, TenancyInvariant, TenancyTypes, CallRecords, At, NoCall
<1> DEFINE r == [call[c] EXCEPT !.at = "mark"]
<1>2. r \in CallRecords /\ r.op = "accept" /\ call[c].op = "accept"
  BY <1>1 DEF CallRecords
<1>3. call' = [call EXCEPT ![c] = r]
  BY DEF AddMember, Proceeds
<1>4. \E u \in Users : \E role : member' = [member EXCEPT ![u] = Adds(u, role)]
  BY <1>1 DEF AddMember
<1>5. UNCHANGED <<ownerId, overtaken, misremoved, unsynced>>
  BY DEF AddMember, tenancyHistory
<1> HIDE DEF r
<1> QED
  BY <1>2, <1>3, <1>4, <1>5, OwnersUntouched

LEMMA Stopping ==
    ASSUME TenancyInvariant, NEW c \in Calls, Stops(c)
    PROVE  TenancyInvariant'
<1>1. /\ call' = [call EXCEPT ![c] = NoCall]
      /\ unsynced' = (unsynced \/ c \in Syncing)
      /\ UNCHANGED <<ownerId, member, overtaken, misremoved>>
  BY DEF Stops, Returns
<1>2. TenancyTypes
  BY DEF TenancyInvariant
<1>3. CASE c \in Halfway \cup Syncing
  <2>1. ownerId' \in Users /\ unsynced' \in BOOLEAN /\ (unsynced => unsynced')
    BY <1>1, <1>2 DEF TenancyTypes
  <2>2. unsynced' \/ (c \in Halfway /\ ownerId' = ownerId)
    BY <1>1, <1>3
  <2> QED
    BY <1>1, <1>3, <2>1, <2>2, TransferEnds
<1>4. CASE c \notin Halfway \cup Syncing
  <2>1. call[c].op = "accept"
    BY <1>4 DEF Stops, Halfway, Syncing, At
  <2>2. unsynced' = unsynced
    BY <1>1, <1>2, <1>4 DEF TenancyTypes
  <2> QED
    BY <1>1, <2>1, <2>2, RequestReturns DEF Returns
<1> QED
  BY <1>3, <1>4

LEMMA OwnerIdWritten ==
    ASSUME TenancyInvariant, NEW c \in Calls, TransferStep3(c)
    PROVE  TenancyInvariant'
<1>1. /\ call' = [call EXCEPT ![c] = NoCall] /\ ownerId' = call[c].to
      /\ unsynced' = (unsynced \/ member[call[c].to] # "owner")
      /\ UNCHANGED <<member, overtaken, misremoved>>
  BY DEF TransferStep3, Returns
<1>2. TenancyTypes
  BY DEF TenancyInvariant
<1>3. c \in Syncing /\ call[c].to \in Users
  BY <1>2 DEF TransferStep3, TenancyTypes, CallRecords, At, NoCall, Syncing
<1>4. ownerId' \in Users /\ unsynced' \in BOOLEAN /\ (unsynced => unsynced')
  BY <1>1, <1>2, <1>3 DEF TenancyTypes
<1>5. unsynced' \/ member[ownerId'] = "owner"
  BY <1>1
<1> QED
  BY <1>1, <1>3, <1>4, <1>5, TransferEnds

LEMMA StepKeepsOwners == TenancyInvariant /\ [TenancyNext]_tenancyVars => TenancyInvariant'
<1> SUFFICES ASSUME TenancyInvariant, [TenancyNext]_tenancyVars
             PROVE  TenancyInvariant'
  OBVIOUS
<1> USE DEF tenancyHistory
<1>1. CASE UNCHANGED tenancyVars
  BY <1>1 DEF TenancyInvariant, TenancyTypes, OwnersOutnumber, OwnerNamed, RemovalsFresh,
              Owners, Halfway, Syncing, Removing, At, tenancyVars
<1>3. ASSUME NEW c \in Calls, NEW u \in Users, CreateInvite(c, u) PROVE TenancyInvariant'
  <2>1. PICK to \in Users, role \in {"admin", "member"} :
          Starts(c, [op |-> "invite", at |-> "insert", to |-> to, role |-> role])
    BY <1>3 DEF CreateInvite, InvitedRole
  <2> DEFINE r == [op |-> "invite", at |-> "insert", to |-> to, role |-> role]
  <2>2. r \in CallRecords /\ r.op = "invite" /\ Starts(c, r)
    BY <2>1 DEF CallRecords
  <2> HIDE DEF r
  <2> QED
    BY <1>3, <2>2, RequestBegins DEF CreateInvite
<1>4. ASSUME NEW c \in Calls, NEW u \in Users, NEW i \in Invites, RevokeInvite(c, u, i)
      PROVE  TenancyInvariant'
  <2> DEFINE r == [op |-> "revoke", at |-> "update", invite |-> i]
  <2>1. r \in CallRecords /\ r.op = "revoke" /\ Starts(c, r)
    BY <1>4 DEF CallRecords, RevokeInvite
  <2> HIDE DEF r
  <2> QED
    BY <1>4, <2>1, RequestBegins DEF RevokeInvite
<1>5. ASSUME NEW c \in Calls, NEW u \in Users, NEW i \in Invites, AcceptInvite(c, u, i)
      PROVE  TenancyInvariant'
  <2> DEFINE r == [op |-> "accept", at |-> "add", by |-> u, invite |-> i]
  <2>1. r \in CallRecords /\ r.op = "accept" /\ Starts(c, r)
    BY <1>5 DEF CallRecords, AcceptInvite
  <2> HIDE DEF r
  <2> QED
    BY <1>5, <2>1, RequestBegins DEF AcceptInvite
<1>6. ASSUME NEW c \in Calls, NEW u \in Users, NEW v \in Users, RemoveMember(c, u, v)
      PROVE  TenancyInvariant'
  <2> DEFINE r == [op |-> "remove", at |-> "check", target |-> v]
  <2>1. r \in CallRecords /\ r.at = "check" /\ Starts(c, r)
    BY <1>6 DEF CallRecords, RemoveMember
  <2> HIDE DEF r
  <2> QED
    BY <1>6, <2>1, RequestBegins DEF RemoveMember
<1>7. ASSUME NEW c \in Calls, NEW u \in Users, NEW v \in Users, TransferOwnership(c, u, v)
      PROVE  TenancyInvariant'
  <2> DEFINE r == [op |-> "transfer", at |-> "first", from |-> u, to |-> v]
  <2>1. r \in CallRecords /\ r.at = "first" /\ Starts(c, r)
    BY <1>7 DEF CallRecords, TransferOwnership
  <2> HIDE DEF r
  <2> QED
    BY <1>7, <2>1, RequestBegins DEF TransferOwnership
<1>8. ASSUME NEW c \in Calls,
              \/ \E i \in Invites : InsertInvite(c, i)
              \/ Revoke(c) \/ MarkAccepted(c)
       PROVE  TenancyInvariant'
  <2>1. /\ call[c].op \in {"invite", "revoke", "accept"} /\ Returns(c)
        /\ UNCHANGED <<ownerId, member, overtaken, misremoved, unsynced>>
    BY <1>8 DEF InsertInvite, Revoke, MarkAccepted, At
  <2> QED
    BY <2>1, RequestReturns
<1> QED
  BY <1>1, <1>3, <1>4, <1>5, <1>6, <1>7, <1>8, OwnerChecked, Promotion, Demotion, Removal,
     Addition, Stopping, OwnerIdWritten
  DEF TenancyNext

-----------------------------------------------------------------------------
(***************************************************************************)
(* The tenant has an owner, unless a removal that overlapped a transfer    *)
(* took the last one, or owner_id no longer named an owner (a transfer     *)
(* whose last write failed, or two that wrote it in the other order): for  *)
(* any number of users, of requests in flight and of faults.               *)
(***************************************************************************)
THEOREM OwnershipIsKept == TenancySpec => []OwnerKept
<1>1. TenancyInvariant => OwnerKept
  <2> SUFFICES ASSUME TenancyInvariant, ~misremoved, ~unsynced, Owners = {} PROVE FALSE
    BY DEF OwnerKept
  <2>1. Cardinality(Owners) = 0
    BY FS_EmptySet
  <2> QED
    BY <2>1, Countable DEF TenancyInvariant, OwnersOutnumber
<1> QED
  BY <1>1, InitiallyOwned, StepKeepsOwners, PTL DEF TenancySpec

-----------------------------------------------------------------------------
(***************************************************************************)
(* Accounts.  A request that mints a workspace found none, or made the     *)
(* account, or could not read the memberships: but for these, once there   *)
(* is one no further request starts to, so those that do and those that    *)
(* did are at most the requests.  An unlink has seen more than the link it *)
(* takes, or there is a password: what it pulls is the last way in only if *)
(* the links are no longer those it saw, or were several of one provider.  *)
(***************************************************************************)
Minting == {r \in Requests : request[r].at \in {"mint", "own"}}
Owning == {r \in Requests : request[r].at = "own"}

LeavesLink(p, seen) == ~(Cardinality(seen) = 1 /\ {l \in seen : l[1] = p} = seen)

AccountShape ==
    /\ registered \in BOOLEAN /\ password \in BOOLEAN /\ overlapped \in BOOLEAN
    /\ joined \in Nat /\ workspaces \in Nat /\ accountFaults \in Nat /\ misread \in Nat
    /\ IsFiniteSet(links) /\ DOMAIN request = Requests
    /\ joined > 0 => registered
    /\ \A r \in Requests : request[r].at \in {"link", "list", "mint", "own"} => registered

UnlinksLeaveOne ==
    \A r \in Requests : request[r].at = "pull" =>
        \/ password \/ overlapped
        \/ request[r].seen # {} /\ LeavesLink(request[r].provider, request[r].seen)

AccountInvariant ==
    /\ AccountShape /\ UnlinksLeaveOne /\ SignInKept
    /\ joined + Cardinality(Minting) <= Cardinality(Requests) + misread
    /\ workspaces <= joined + Cardinality(Owning) + accountFaults

LEMMA RequestCounts ==
    /\ IsFiniteSet(Minting) /\ IsFiniteSet(Minting') /\ IsFiniteSet(Owning) /\ IsFiniteSet(Owning')
    /\ Cardinality(Minting) \in Nat /\ Cardinality(Minting') \in Nat
    /\ Cardinality(Owning) \in Nat /\ Cardinality(Owning') \in Nat
    /\ Cardinality(Requests) \in Nat /\ Cardinality(Minting') <= Cardinality(Requests)
<1>1. /\ Minting \subseteq Requests /\ Minting' \subseteq Requests
      /\ Owning \subseteq Requests /\ Owning' \subseteq Requests
  BY DEF Minting, Owning
<1> QED
  BY <1>1, RequestsAreFinite, FS_Subset, FS_CardinalityType

LEMMA AccountsBegin == AccountsInit => AccountInvariant
<1> SUFFICES ASSUME AccountsInit PROVE AccountInvariant
  OBVIOUS
<1>1. \A r \in Requests : request[r].at = "none"
  BY DEF AccountsInit, NoRequest
<1>2. IsFiniteSet(links)
  BY FS_EmptySet DEF AccountsInit
<1>3. AccountShape
  <2>1. /\ registered \in BOOLEAN /\ password \in BOOLEAN /\ overlapped \in BOOLEAN
        /\ DOMAIN request = Requests
    BY DEF AccountsInit
  <2>2. joined = 0 /\ workspaces = 0 /\ accountFaults = 0 /\ misread = 0
    BY DEF AccountsInit
  <2> QED
    BY <1>1, <1>2, <2>1, <2>2 DEF AccountShape
<1>4. UnlinksLeaveOne /\ SignInKept
  BY <1>1 DEF AccountsInit, UnlinksLeaveOne, SignInKept
<1>5. Minting = {} /\ Owning = {}
  BY <1>1 DEF Minting, Owning
<1>6. Cardinality(Minting) = 0 /\ Cardinality(Owning) = 0
  BY <1>5, FS_EmptySet
<1>7. joined = 0 /\ workspaces = 0 /\ accountFaults = 0 /\ misread = 0
  BY DEF AccountsInit
<1> QED
  BY <1>3, <1>4, <1>6, <1>7, RequestCounts DEF AccountInvariant

\* What a request becomes: nobody starts to mint once there is a workspace.
LEMMA RequestMoves ==
    ASSUME AccountInvariant, AccountsNext
    PROVE  /\ DOMAIN request' = Requests
           /\ registered => registered'
           /\ \A r \in Requests :
                 request'[r].at \in {"link", "list", "mint", "own"} => registered'
           /\ \/ misread' = misread /\ (joined > 0 => Minting' \subseteq Minting)
              \/ misread' = misread + 1 /\ \E r \in Requests : Minting' \subseteq Minting \cup {r}
<1>1. DOMAIN request = Requests /\ (joined > 0 => registered)
      /\ \A r \in Requests : request[r].at \in {"link", "list", "mint", "own"} => registered
  BY DEF AccountInvariant, AccountShape
<1>2. CASE \E r \in Requests : MissesMemberships(r)
  <2> PICK r \in Requests : MissesMemberships(r)
    BY <1>2
  <2>1. /\ request[r].at = "list" /\ request' = [request EXCEPT ![r] = [at |-> "mint"]]
        /\ misread' = misread + 1 /\ registered' = registered
    BY DEF MissesMemberships, Goes, userRow
  <2>2. Minting' \subseteq Minting \cup {r}
    BY <1>1, <2>1 DEF Minting
  <2> QED
    BY <1>1, <2>1, <2>2
<1>3. CASE ~(\E r \in Requests : MissesMemberships(r))
  BY <1>1, <1>3 DEF AccountsNext, Register, Login, ListMemberships,
     InsertTenant, InsertOwner, UpsertOAuthUser, LinkOAuth, CreateOAuth, UnlinkOAuth, PullLinks,
     ChangePassword, PasswordResetConfirm, UpdatePasswordHash, BurnToken, RequestStops,
     PasswordResetRequest, TokenExpires, Begins, Goes, Answered, NoRequest, HasWorkspace,
     userRow, tenantRows, accountHistory, Minting
<1> QED
  BY <1>2, <1>3

LEMMA ShapeKept ==
    ASSUME AccountInvariant, AccountsNext
    PROVE  AccountShape'
<1>1. AccountShape
  BY DEF AccountInvariant
<1>2. DOMAIN request' = Requests
      /\ \A r \in Requests :
            request'[r].at \in {"link", "list", "mint", "own"} => registered'
  BY RequestMoves
<1>3. IsFiniteSet(links')
  <2>1. PICK l : links' \subseteq links \cup {l}
    BY DEF AccountsNext, Register, Login, ListMemberships, MissesMemberships,
       InsertTenant, InsertOwner, UpsertOAuthUser, LinkOAuth, CreateOAuth, UnlinkOAuth, PullLinks,
       ChangePassword, PasswordResetConfirm, UpdatePasswordHash, BurnToken, RequestStops,
       PasswordResetRequest, TokenExpires, userRow, accountHistory
  <2>2. IsFiniteSet(links \cup {l})
    BY <1>1, FS_AddElement DEF AccountShape
  <2> QED
    BY <2>1, <2>2, FS_Subset
<1>a. registered' \in BOOLEAN
  BY <1>1 DEF AccountShape, AccountsNext, Register, Login, ListMemberships, MissesMemberships,
     InsertTenant, InsertOwner, UpsertOAuthUser, LinkOAuth, CreateOAuth, UnlinkOAuth, PullLinks,
     ChangePassword, PasswordResetConfirm, UpdatePasswordHash, BurnToken, RequestStops,
     PasswordResetRequest, TokenExpires, userRow, tenantRows, accountHistory
<1>b. password' \in BOOLEAN
  BY <1>1 DEF AccountShape, AccountsNext, Register, Login, ListMemberships, MissesMemberships,
     InsertTenant, InsertOwner, UpsertOAuthUser, LinkOAuth, CreateOAuth, UnlinkOAuth, PullLinks,
     ChangePassword, PasswordResetConfirm, UpdatePasswordHash, BurnToken, RequestStops,
     PasswordResetRequest, TokenExpires, userRow, tenantRows, accountHistory
<1>c. overlapped' \in BOOLEAN
  BY <1>1 DEF AccountShape, AccountsNext, Register, Login, ListMemberships, MissesMemberships,
     InsertTenant, InsertOwner, UpsertOAuthUser, LinkOAuth, CreateOAuth, UnlinkOAuth, PullLinks,
     ChangePassword, PasswordResetConfirm, UpdatePasswordHash, BurnToken, RequestStops,
     PasswordResetRequest, TokenExpires, userRow, tenantRows, accountHistory
<1>4. registered' \in BOOLEAN /\ password' \in BOOLEAN /\ overlapped' \in BOOLEAN
  BY <1>a, <1>b, <1>c
<1>6. /\ joined' = joined \/ joined' = joined + 1
      /\ workspaces' = workspaces \/ workspaces' = workspaces + 1
      /\ accountFaults' = accountFaults \/ accountFaults' = accountFaults + 1
      /\ misread' = misread \/ misread' = misread + 1
  BY DEF AccountsNext, Register, Login, ListMemberships, MissesMemberships,
     InsertTenant, InsertOwner, UpsertOAuthUser, LinkOAuth, CreateOAuth, UnlinkOAuth, PullLinks,
     ChangePassword, PasswordResetConfirm, UpdatePasswordHash, BurnToken, RequestStops,
     PasswordResetRequest, TokenExpires, userRow, tenantRows, accountHistory
<1>7. joined' \in Nat /\ workspaces' \in Nat /\ accountFaults' \in Nat /\ misread' \in Nat
  BY <1>1, <1>6 DEF AccountShape
<1>5. joined' > 0 => registered'
  <2>1. joined' = joined \/ \E r \in Requests : request[r].at = "own"
    BY DEF AccountsNext, Register, Login, ListMemberships, MissesMemberships,
       InsertTenant, InsertOwner, UpsertOAuthUser, LinkOAuth, CreateOAuth, UnlinkOAuth, PullLinks,
       ChangePassword, PasswordResetConfirm, UpdatePasswordHash, BurnToken, RequestStops,
       PasswordResetRequest, TokenExpires, tenantRows
  <2> QED
    BY <1>1, <2>1, RequestMoves DEF AccountShape
<1> QED
  BY <1>2, <1>3, <1>4, <1>5, <1>7 DEF AccountShape

\* Nobody but the unlink that pulls takes a link away or decides on one.
LEMMA UnlinkKept ==
    ASSUME AccountInvariant, AccountsNext
    PROVE  (UnlinksLeaveOne /\ SignInKept)'
<1>1. AccountShape /\ UnlinksLeaveOne /\ SignInKept
  BY DEF AccountInvariant
<1>2. CASE \E r \in Requests : UnlinkOAuth(r)
  <2> PICK r \in Requests : UnlinkOAuth(r)
    BY <1>2
  <2>1. registered /\ UNCHANGED <<registered, password, links, overlapped>>
    BY DEF UnlinkOAuth, userRow, accountHistory
  <2>2. SignInKept'
    BY <1>1, <2>1 DEF SignInKept
  <2>3. PICK p \in Providers :
           /\ password \/ ~OnlyProvider(p)
           /\ request' = [request EXCEPT ![r] = [at |-> "pull", provider |-> p, seen |-> links]]
    BY DEF UnlinkOAuth, Begins
  <2>4. request'[r].provider = p /\ request'[r].seen = links
    BY <1>1, <2>3 DEF AccountShape
  <2>5. password \/ overlapped \/ links # {}
    BY <1>1, <2>1 DEF SignInKept
  <2>6. password \/ LeavesLink(p, links)
    BY <2>3 DEF OnlyProvider, Of, LeavesLink
  <2>7. \A q \in Requests : q # r => request'[q] = request[q]
    BY <2>3
  <2> QED
    BY <1>1, <2>1, <2>2, <2>4, <2>5, <2>6, <2>7 DEF UnlinksLeaveOne
<1>3. CASE \E r \in Requests : PullLinks(r)
  <2> PICK r \in Requests : PullLinks(r)
    BY <1>3
  <2> DEFINE p == request[r].provider
  <2> DEFINE seen == request[r].seen
  <2>1. /\ request[r].at = "pull" /\ UNCHANGED <<registered, password>>
        /\ links' = links \ Of(p)
        /\ overlapped' = (overlapped \/ ~(seen \subseteq links) \/ Cardinality(Of(p)) > 1)
        /\ request' = [request EXCEPT ![r] = NoRequest]
    BY DEF PullLinks, Answered
  <2>2. UnlinksLeaveOne'
    <3>1. \A q \in Requests : request'[q].at = "pull" => request'[q] = request[q]
      BY <1>1, <2>1 DEF AccountShape, NoRequest
    <3> QED
      BY <1>1, <2>1, <3>1 DEF UnlinksLeaveOne, AccountShape
  <2>3. SUFFICES ASSUME registered, ~password, links' = {}, ~overlapped'
                 PROVE  FALSE
    BY <2>1, <2>2 DEF SignInKept
  <2>4. ~overlapped /\ seen \subseteq links /\ ~(Cardinality(Of(p)) > 1)
    BY <2>1, <2>3, <1>1 DEF AccountShape
  <2>5. seen # {} /\ LeavesLink(p, seen)
    BY <1>1, <2>1, <2>3, <2>4 DEF UnlinksLeaveOne
  <2>6. links = Of(p)
    BY <2>1, <2>3 DEF Of
  <2>7. IsFiniteSet(seen) /\ Cardinality(seen) <= Cardinality(links)
    BY <1>1, <2>4, FS_Subset DEF AccountShape
  <2>8. Cardinality(seen) \in Nat /\ Cardinality(links) \in Nat
    BY <1>1, <2>7, FS_CardinalityType DEF AccountShape
  <2>9. Cardinality(seen) # 0
    BY <2>5, <2>7, FS_EmptySet
  <2>10. Cardinality(links) <= 1
    BY <2>4, <2>6, <2>8
  <2>11. Cardinality(seen) = 1
    BY <2>7, <2>8, <2>9, <2>10
  <2>12. {l \in seen : l[1] = p} = seen
    BY <2>4, <2>6 DEF Of
  <2> QED
    BY <2>5, <2>11, <2>12 DEF LeavesLink
<1>4. ASSUME ~(\E r \in Requests : UnlinkOAuth(r)), ~(\E r \in Requests : PullLinks(r))
      PROVE  (UnlinksLeaveOne /\ SignInKept)'
  <2>1. /\ (password => password') /\ (overlapped => overlapped')
        /\ \A r \in Requests : request'[r].at = "pull" => request'[r] = request[r]
    BY <1>1, <1>4 DEF AccountShape, AccountsNext, Register, Login, ListMemberships, MissesMemberships,
       InsertTenant, InsertOwner, UpsertOAuthUser, LinkOAuth, CreateOAuth,
       ChangePassword, PasswordResetConfirm, UpdatePasswordHash, BurnToken, RequestStops,
       PasswordResetRequest, TokenExpires, userRow, tenantRows, accountHistory, Begins, Goes, Answered, NoRequest
  <2>2. ((registered' => registered) /\ links \subseteq links') \/ password' \/ links' # {}
    BY <1>4 DEF AccountsNext, Register, Login, ListMemberships, MissesMemberships,
       InsertTenant, InsertOwner, UpsertOAuthUser, LinkOAuth, CreateOAuth,
       ChangePassword, PasswordResetConfirm, UpdatePasswordHash, BurnToken, RequestStops,
       PasswordResetRequest, TokenExpires, userRow, tenantRows, accountHistory
  <2>3. SignInKept'
    <3>1. SUFFICES ASSUME registered', ~password', links' = {} PROVE overlapped'
      BY DEF SignInKept
    <3>2. registered /\ ~password /\ links = {}
      BY <2>1, <2>2, <3>1
    <3> QED
      BY <1>1, <2>1, <3>2 DEF SignInKept
  <2>4. UnlinksLeaveOne'
    <3>1. SUFFICES ASSUME NEW r \in Requests, request'[r].at = "pull", ~password', ~overlapped'
                   PROVE  /\ request'[r].seen # {}
                          /\ LeavesLink(request'[r].provider, request'[r].seen)
      BY DEF UnlinksLeaveOne
    <3>2. request'[r] = request[r] /\ ~password /\ ~overlapped
      BY <2>1, <3>1
    <3>3. request[r].seen # {} /\ LeavesLink(request[r].provider, request[r].seen)
      BY <1>1, <3>1, <3>2 DEF UnlinksLeaveOne
    <3> QED
      BY <3>2, <3>3
  <2> QED
    BY <2>3, <2>4
<1> QED
  BY <1>2, <1>3, <1>4

LEMMA MintsCounted ==
    ASSUME AccountInvariant, AccountsNext
    PROVE  joined' + Cardinality(Minting') <= Cardinality(Requests) + misread'
<1>1. /\ joined \in Nat /\ misread \in Nat
      /\ joined + Cardinality(Minting) <= Cardinality(Requests) + misread
      /\ DOMAIN request = Requests
  BY DEF AccountInvariant, AccountShape
<1>2. CASE \E r \in Requests : InsertOwner(r)
  <2> PICK r \in Requests : InsertOwner(r)
    BY <1>2
  <2>1. /\ request[r].at = "own" /\ joined' = joined + 1 /\ misread' = misread
        /\ request' = [request EXCEPT ![r] = NoRequest]
    BY DEF InsertOwner, Answered, accountHistory
  <2>2. r \in Minting /\ Minting' = Minting \ {r}
    BY <1>1, <2>1 DEF Minting, NoRequest
  <2>3. Cardinality(Minting') = Cardinality(Minting) - 1
    BY <2>2, RequestCounts, FS_RemoveElement
  <2> QED
    BY <1>1, <2>1, <2>3, RequestCounts
<1>3. ASSUME ~(\E r \in Requests : InsertOwner(r))
      PROVE  joined' + Cardinality(Minting') <= Cardinality(Requests) + misread'
  <2>1. joined' = joined
    BY <1>3 DEF AccountsNext, Register, Login, ListMemberships, MissesMemberships,
       InsertTenant, UpsertOAuthUser, LinkOAuth, CreateOAuth, UnlinkOAuth, PullLinks,
       ChangePassword, PasswordResetConfirm, UpdatePasswordHash, BurnToken, RequestStops,
       PasswordResetRequest, TokenExpires, tenantRows
  <2>2. CASE misread' = misread + 1
    <3>1. PICK r \in Requests : Minting' \subseteq Minting \cup {r}
      BY <1>1, <2>2, RequestMoves
    <3>2. IsFiniteSet(Minting) /\ Cardinality(Minting) \in Nat
      BY RequestCounts
    <3>3. PICK n : n = Cardinality(Minting \cup {r})
      OBVIOUS
    <3>4. IsFiniteSet(Minting \cup {r}) /\ n \in Nat
      BY <3>2, <3>3, FS_AddElement, FS_CardinalityType
    <3>5. n = Cardinality(Minting) \/ n = Cardinality(Minting) + 1
      BY <3>2, <3>3, FS_AddElement
    <3>6. Cardinality(Minting') <= n
      BY <3>1, <3>3, <3>4, FS_Subset
    <3> QED
      BY <1>1, <2>1, <2>2, <3>2, <3>4, <3>5, <3>6, RequestCounts
  <2>3. CASE misread' = misread /\ joined > 0
    <3>1. Cardinality(Minting') <= Cardinality(Minting)
      BY <1>1, <2>3, RequestMoves, RequestCounts, FS_Subset
    <3> QED
      BY <1>1, <2>1, <2>3, <3>1, RequestCounts
  <2>4. CASE misread' = misread /\ joined = 0
    BY <1>1, <2>1, <2>4, RequestCounts
  <2> QED
    BY <1>1, <2>2, <2>3, <2>4, RequestMoves
<1> QED
  BY <1>2, <1>3

LEMMA WorkspacesCounted ==
    ASSUME AccountInvariant, AccountsNext
    PROVE  workspaces' <= joined' + Cardinality(Owning') + accountFaults'
<1>1. /\ joined \in Nat /\ workspaces \in Nat /\ accountFaults \in Nat /\ misread \in Nat
      /\ workspaces <= joined + Cardinality(Owning) + accountFaults
      /\ DOMAIN request = Requests
  BY DEF AccountInvariant, AccountShape
<1>2. CASE \E r \in Requests : InsertTenant(r)
  <2> PICK r \in Requests : InsertTenant(r)
    BY <1>2
  <2>1. /\ request[r].at = "mint" /\ workspaces' = workspaces + 1
        /\ request' = [request EXCEPT ![r] = [at |-> "own"]]
        /\ joined' = joined /\ accountFaults' = accountFaults
    BY DEF InsertTenant, Goes, accountHistory
  <2>2. r \notin Owning /\ Owning' = Owning \cup {r}
    BY <1>1, <2>1 DEF Owning
  <2>3. Cardinality(Owning') = Cardinality(Owning) + 1
    BY <2>2, RequestCounts, FS_AddElement
  <2> QED
    BY <1>1, <2>1, <2>3, RequestCounts
<1>3. CASE \E r \in Requests : InsertOwner(r) \/ RequestStops(r)
  <2> PICK r \in Requests : InsertOwner(r) \/ RequestStops(r)
    BY <1>3
  <2>1. /\ workspaces' = workspaces
        /\ request' = [request EXCEPT ![r] = NoRequest]
        /\ \/ joined' = joined + 1 /\ accountFaults' = accountFaults
           \/ joined' = joined /\ accountFaults' = accountFaults + 1
        /\ joined' \in Nat /\ accountFaults' \in Nat
    BY <1>1 DEF InsertOwner, RequestStops, Answered, tenantRows, accountHistory
  <2>2. Owning' = Owning \ {r}
    BY <1>1, <2>1 DEF Owning, NoRequest
  <2>3. Cardinality(Owning') >= Cardinality(Owning) - 1
    BY <2>2, RequestCounts, FS_RemoveElement
  <2> QED
    BY <1>1, <2>1, <2>3, RequestCounts
<1>4. ASSUME ~(\E r \in Requests : InsertTenant(r)),
             ~(\E r \in Requests : InsertOwner(r) \/ RequestStops(r))
      PROVE  workspaces' <= joined' + Cardinality(Owning') + accountFaults'
  <2>1. /\ workspaces' = workspaces /\ joined' = joined /\ accountFaults' = accountFaults
        /\ \A r \in Requests : request'[r].at = "own" <=> request[r].at = "own"
    BY <1>1, <1>4 DEF AccountsNext, Register, Login, ListMemberships, MissesMemberships,
       UpsertOAuthUser, LinkOAuth, CreateOAuth, UnlinkOAuth, PullLinks,
       ChangePassword, PasswordResetConfirm, UpdatePasswordHash, BurnToken,
       PasswordResetRequest, TokenExpires, tenantRows, accountHistory, Begins, Goes, Answered, NoRequest,
       HasWorkspace
  <2>2. Owning' = Owning
    BY <2>1 DEF Owning
  <2> QED
    BY <1>1, <2>1, <2>2, RequestCounts
<1> QED
  BY <1>2, <1>3, <1>4

\* Requests about one account, in any number and order, interrupted or not, keep it a
\* way to sign in; at most as many workspaces as requests in flight have their owner's
\* row, and one more per failed read of the memberships (UnlinkOAuth, CreateWithOwner).
THEOREM AccountsStaySound == AccountsSpec => []AccountSound
<1>1. AccountInvariant /\ [AccountsNext]_accountVars => AccountInvariant'
  <2>1. ASSUME AccountInvariant, AccountsNext PROVE AccountInvariant'
    BY <2>1, ShapeKept, UnlinkKept, MintsCounted, WorkspacesCounted DEF AccountInvariant
  <2>2. ASSUME AccountInvariant, UNCHANGED accountVars PROVE AccountInvariant'
    <3>1. /\ Minting' = Minting /\ Owning' = Owning
          /\ (UnlinksLeaveOne <=> UnlinksLeaveOne') /\ (SignInKept <=> SignInKept')
          /\ (AccountShape <=> AccountShape')
      BY <2>2 DEF accountVars, accountHistory, Minting, Owning, UnlinksLeaveOne, SignInKept, AccountShape
    <3> QED
      BY <2>2, <3>1 DEF AccountInvariant, accountVars, accountHistory
  <2> QED
    BY <2>1, <2>2
<1>2. AccountInvariant => AccountSound
  <2> SUFFICES ASSUME AccountInvariant PROVE AccountSound
    OBVIOUS
  <2>1. joined <= Cardinality(Requests) + misread
    BY RequestCounts DEF AccountInvariant, AccountShape
  <2>2. WorkspacesBounded
    BY <2>1 DEF AccountInvariant, WorkspacesBounded, Owning
  <2> QED
    BY <2>2 DEF AccountInvariant, AccountSound
<1> QED
  BY AccountsBegin, <1>1, <1>2, PTL DEF AccountsSpec

-----------------------------------------------------------------------------
(***************************************************************************)
(* Connections.  Every client belongs to the process that dialled it, and  *)
(* only that process holds or caches it: so a restart closes exactly what  *)
(* is lost with it.                                                        *)
(***************************************************************************)
ClientRecords == [process : Processes, config : Nat, open : BOOLEAN]
StepRecords ==
    {AtRest}
    \cup [at : {"load"}, process : Processes]
    \cup [at : {"dial"}, process : Processes, config : Nat]
    \cup [at : {"store", "use"}, process : Processes, client : Nat]

ConnectionTypes ==
    /\ record \in Nat /\ edits \in Nat
    /\ editor \in [Editors -> {"idle", "invalidate"}]
    /\ client \in Seq(ClientRecords)
    /\ cached \in [Processes -> 0 .. Len(client)]
    /\ step \in [Steps -> StepRecords]

ClientsPlaced ==
    /\ \A p \in Processes : cached[p] # NoClient => client[cached[p]].process = p
    /\ \A s \in Steps : step[s].at = "store" =>
          /\ step[s].client \in 1 .. Len(client)
          /\ client[step[s].client].process = step[s].process

ConnectionInvariant == ConnectionTypes /\ ClientsPlaced /\ CacheSound

LEMMA ConnectionsBegin == ConnectionsInit => ConnectionInvariant
<1> SUFFICES ASSUME ConnectionsInit PROVE ConnectionInvariant
  OBVIOUS
<1>1. /\ record = 0 /\ edits = 0 /\ client = <<>> /\ Len(client) = 0
      /\ editor = [e \in Editors |-> "idle"]
      /\ cached = [p \in Processes |-> 0]
      /\ step = [s \in Steps |-> AtRest]
  BY DEF ConnectionsInit, NoClient
<1>2. ConnectionTypes
  BY <1>1 DEF ConnectionTypes, StepRecords
<1>3. ClientsPlaced
  BY <1>1 DEF ClientsPlaced, NoClient, AtRest
<1>4. CacheSound
  BY <1>1, ApiProcessIsOne DEF CacheSound, EditReachesApi, NoClientForgotten, NoClient, Dialled
<1> QED
  BY <1>2, <1>3, <1>4 DEF ConnectionInvariant

\* A step that only moves one node, to a place where it stores nothing.
LEMMA NodeMoves ==
    ASSUME ConnectionInvariant, NEW s \in Steps, NEW to \in StepRecords,
           to.at # "store", step[s].at # "store",
           step' = [step EXCEPT ![s] = to],
           UNCHANGED <<record, edits, editor, client, cached, outrun, displaced>>
    PROVE  ConnectionInvariant'
<1>1. ConnectionTypes /\ ClientsPlaced /\ EditReachesApi /\ NoClientForgotten
  BY DEF ConnectionInvariant, CacheSound
<1>2. ConnectionTypes'
  BY <1>1 DEF ConnectionTypes
<1>3. \A q \in Steps : /\ step'[q].at = "store" => step'[q] = step[q]
                       /\ step[q].at = "store" => step'[q] = step[q]
  BY <1>1 DEF ConnectionTypes
<1>4. ClientsPlaced'
  BY <1>1, <1>3 DEF ClientsPlaced
<1>5. EditReachesApi'
  BY <1>1 DEF EditReachesApi
<1>6. NoClientForgotten'
  BY <1>1, <1>3 DEF NoClientForgotten, Dialled
<1> QED
  BY <1>2, <1>4, <1>5, <1>6 DEF ConnectionInvariant, CacheSound

LEMMA ResolveKeeps ==
    ASSUME ConnectionInvariant, NEW s \in Steps,
           \/ \E p \in Processes : ResolveHit(s, p) \/ ResolveMiss(s, p)
           \/ LoadConnection(s) \/ DialFails(s) \/ StepEnds(s)
    PROVE  ConnectionInvariant'
<1>1. ConnectionTypes
  BY DEF ConnectionInvariant
<1>2. step[s].at # "store"
  BY DEF ResolveHit, ResolveMiss, LoadConnection, DialFails, StepEnds, AtRest
<1>3. UNCHANGED <<record, edits, editor, client, cached, outrun, displaced>>
  BY DEF ResolveHit, ResolveMiss, LoadConnection, DialFails, StepEnds
<1>4. step[s].at = "load" => step[s].process \in Processes
  BY <1>1 DEF ConnectionTypes, StepRecords, AtRest
<1>5. \E to \in StepRecords : to.at # "store" /\ step' = [step EXCEPT ![s] = to]
  <2>1. CASE \E p \in Processes : ResolveHit(s, p)
    <3> PICK p \in Processes : ResolveHit(s, p)
      BY <2>1
    <3> DEFINE to == [at |-> "use", process |-> p, client |-> cached[p]]
    <3>1. cached[p] \in Nat
      BY <1>1 DEF ConnectionTypes
    <3>2. to \in StepRecords /\ to.at # "store"
      BY <3>1 DEF StepRecords
    <3> QED
      BY <3>2 DEF ResolveHit
  <2>2. CASE \E p \in Processes : ResolveMiss(s, p)
    <3> PICK p \in Processes : ResolveMiss(s, p)
      BY <2>2
    <3> DEFINE to == [at |-> "load", process |-> p]
    <3>1. to \in StepRecords /\ to.at # "store"
      BY DEF StepRecords
    <3> QED
      BY <3>1 DEF ResolveMiss
  <2>3. CASE LoadConnection(s)
    <3> DEFINE to == [at |-> "dial", process |-> step[s].process, config |-> record]
    <3>1. to \in StepRecords /\ to.at # "store"
      BY <1>1, <1>4, <2>3 DEF StepRecords, LoadConnection, ConnectionTypes
    <3>2. AtRest \in StepRecords /\ AtRest.at # "store"
      BY DEF StepRecords, AtRest
    <3>3. step' = [step EXCEPT ![s] = AtRest] \/ step' = [step EXCEPT ![s] = to]
      BY <2>3 DEF LoadConnection
    <3> QED
      BY <3>1, <3>2, <3>3
  <2>4. CASE DialFails(s) \/ StepEnds(s)
    BY <2>4 DEF DialFails, StepEnds, StepRecords, AtRest
  <2> QED
    BY <2>1, <2>2, <2>3, <2>4
<1> QED
  BY <1>2, <1>3, <1>5, NodeMoves

LEMMA DialKeeps ==
    ASSUME ConnectionInvariant, NEW s \in Steps, Dial(s)
    PROVE  ConnectionInvariant'
<1> DEFINE new == Len(client) + 1
<1> DEFINE to == [at |-> "store", process |-> step[s].process, client |-> new]
<1> DEFINE fresh == [process |-> step[s].process, config |-> step[s].config, open |-> TRUE]
<1>1. ConnectionTypes /\ ClientsPlaced /\ EditReachesApi /\ NoClientForgotten
  BY DEF ConnectionInvariant, CacheSound
<1>2. /\ step[s].at = "dial" /\ client' = Append(client, fresh)
      /\ step' = [step EXCEPT ![s] = to]
      /\ UNCHANGED <<record, edits, editor, cached, outrun, displaced>>
  BY DEF Dial
<1>3. step[s].process \in Processes /\ step[s].config \in Nat
  BY <1>1, <1>2 DEF ConnectionTypes, StepRecords, AtRest
<1>4. fresh \in ClientRecords
  BY <1>3 DEF ClientRecords
<1>5. to \in StepRecords
  BY <1>1, <1>3 DEF StepRecords, ConnectionTypes
<1>6. /\ client' \in Seq(ClientRecords) /\ Len(client') = new /\ client'[new] = fresh
      /\ \A c \in 1 .. Len(client) : client'[c] = client[c]
      /\ Len(client) \in Nat
  BY <1>1, <1>2, <1>4 DEF ConnectionTypes
<1> HIDE DEF new, fresh
<1>7. ConnectionTypes'
  BY <1>1, <1>2, <1>5, <1>6 DEF ConnectionTypes, new
<1>8. step'[s] = to /\ \A q \in Steps : q # s => step'[q] = step[q]
  BY <1>1, <1>2 DEF ConnectionTypes
<1>9. \A p \in Processes : cached'[p] = cached[p] /\ cached[p] \in 0 .. Len(client)
  BY <1>1, <1>2 DEF ConnectionTypes
<1>10. ClientsPlaced'
  <2>1. \A p \in Processes : cached'[p] # NoClient => client'[cached'[p]].process = p
    BY <1>1, <1>6, <1>9 DEF ClientsPlaced, NoClient
  <2>2. ASSUME NEW q \in Steps, step'[q].at = "store"
        PROVE  /\ step'[q].client \in 1 .. Len(client')
               /\ client'[step'[q].client].process = step'[q].process
    <3>1. CASE q = s
      BY <1>6, <1>8, <3>1 DEF fresh, new
    <3>2. CASE q # s
      BY <1>1, <1>6, <1>8, <2>2, <3>2 DEF ClientsPlaced, new
    <3> QED
      BY <3>1, <3>2
  <2> QED
    BY <2>1, <2>2 DEF ClientsPlaced
<1>11. EditReachesApi'
  BY <1>1, <1>2, <1>6, <1>9, ApiProcessIsOne DEF EditReachesApi, NoClient
<1>12. NoClientForgotten'
  <2>1. SUFFICES ASSUME NEW c \in 1 .. new, client'[c].open
                 PROVE  \/ c \in displaced
                        \/ \E p \in Processes : cached[p] = c
                        \/ \E q \in Steps : step'[q].at = "store" /\ step'[q].client = c
    BY <1>2, <1>6 DEF NoClientForgotten, Dialled
  <2>2. CASE c = new
    BY <1>8, <2>2
  <2>3. CASE c \in 1 .. Len(client)
    <3>1. \/ c \in displaced
          \/ \E p \in Processes : cached[p] = c
          \/ \E q \in Steps : step[q].at = "store" /\ step[q].client = c
      BY <1>1, <1>6, <2>1, <2>3 DEF NoClientForgotten, Dialled, ConnectionTypes
    <3> QED
      BY <1>2, <1>8, <3>1
  <2> QED
    BY <1>6, <2>2, <2>3 DEF new
<1> QED
  BY <1>7, <1>10, <1>11, <1>12 DEF ConnectionInvariant, CacheSound

LEMMA StoreKeeps ==
    ASSUME ConnectionInvariant, NEW s \in Steps, StoreClient(s)
    PROVE  ConnectionInvariant'
<1> DEFINE p == step[s].process
<1> DEFINE c == step[s].client
<1>1. ConnectionTypes /\ ClientsPlaced /\ EditReachesApi /\ NoClientForgotten
  BY DEF ConnectionInvariant, CacheSound
<1>2. /\ step[s].at = "store" /\ cached' = [cached EXCEPT ![p] = c]
      /\ displaced' = displaced \cup ({cached[p]} \ {NoClient})
      /\ outrun' = IF client[c].config # record THEN outrun \cup {c} ELSE outrun
      /\ step' = [step EXCEPT ![s].at = "use"]
      /\ UNCHANGED <<record, edits, editor, client>>
  BY DEF StoreClient
<1>3. /\ step[s] \in [at : {"store", "use"}, process : Processes, client : Nat]
      /\ p \in Processes /\ c \in 1 .. Len(client) /\ client[c].process = p
  BY <1>1, <1>2 DEF ConnectionTypes, StepRecords, ClientsPlaced, AtRest
<1> HIDE DEF p, c
<1>4. /\ step'[s].at = "use" /\ step'[s] \in StepRecords
      /\ \A q \in Steps : q # s => step'[q] = step[q]
      /\ DOMAIN step' = Steps
  BY <1>1, <1>2, <1>3 DEF ConnectionTypes, StepRecords
<1>5. /\ cached' \in [Processes -> 0 .. Len(client)]
      /\ cached'[p] = c /\ \A q \in Processes : q # p => cached'[q] = cached[q]
  BY <1>1, <1>2, <1>3 DEF ConnectionTypes
<1>6. ConnectionTypes'
  <2>1. step' \in [Steps -> StepRecords]
    BY <1>1, <1>2, <1>4 DEF ConnectionTypes
  <2> QED
    BY <1>1, <1>2, <1>5, <2>1 DEF ConnectionTypes
<1>7. ClientsPlaced'
  BY <1>1, <1>2, <1>3, <1>4, <1>5 DEF ClientsPlaced
<1>8. EditReachesApi'
  <2>1. CASE p = ApiProcess
    BY <1>2, <1>5, <2>1 DEF EditReachesApi
  <2>2. CASE p # ApiProcess
    BY <1>1, <1>2, <1>5, <2>2, ApiProcessIsOne DEF EditReachesApi
  <2> QED
    BY <2>1, <2>2
<1>9. NoClientForgotten'
  <2>1. SUFFICES ASSUME NEW d \in Dialled, client[d].open
                 PROVE  \/ d \in displaced'
                        \/ \E q \in Processes : cached'[q] = d
                        \/ \E q \in Steps : step'[q].at = "store" /\ step'[q].client = d
    BY <1>2 DEF NoClientForgotten, Dialled
  <2>2. \/ d \in displaced
        \/ \E q \in Processes : cached[q] = d
        \/ \E q \in Steps : step[q].at = "store" /\ step[q].client = d
    BY <1>1, <2>1 DEF NoClientForgotten
  <2>3. d # NoClient
    BY <1>1, <2>1 DEF Dialled, NoClient, ConnectionTypes
  <2>4. CASE d \in displaced
    BY <1>2, <2>4
  <2>5. CASE \E q \in Processes : cached[q] = d
    <3> PICK q \in Processes : cached[q] = d
      BY <2>5
    <3>1. CASE q = p
      BY <1>2, <2>3, <3>1
    <3>2. CASE q # p
      BY <1>5, <3>2
    <3> QED
      BY <3>1, <3>2
  <2>6. CASE \E q \in Steps : step[q].at = "store" /\ step[q].client = d
    <3> PICK q \in Steps : step[q].at = "store" /\ step[q].client = d
      BY <2>6
    <3>1. CASE q = s
      BY <1>3, <1>5, <3>1 DEF c
    <3>2. CASE q # s
      BY <1>4, <3>2
    <3> QED
      BY <3>1, <3>2
  <2> QED
    BY <2>2, <2>4, <2>5, <2>6
<1> QED
  BY <1>6, <1>7, <1>8, <1>9 DEF ConnectionInvariant, CacheSound

LEMMA EditKeepsCache ==
    ASSUME ConnectionInvariant, NEW e \in Editors, UpsertConnection(e) \/ DeleteConnection(e)
    PROVE  ConnectionInvariant'
<1>1. ConnectionTypes /\ ClientsPlaced /\ NoClientForgotten
  BY DEF ConnectionInvariant, CacheSound
<1>2. /\ editor' = [editor EXCEPT ![e] = "invalidate"]
      /\ UNCHANGED <<client, cached, step, outrun, displaced>>
      /\ edits' = edits + 1 /\ record' \in {0, edits + 1}
  BY DEF UpsertConnection, DeleteConnection, AfterWrite
<1>3. ConnectionTypes'
  BY <1>1, <1>2 DEF ConnectionTypes
<1>4. ClientsPlaced' /\ NoClientForgotten'
  BY <1>1, <1>2 DEF ClientsPlaced, NoClientForgotten, Dialled
<1>5. editor'[e] = "invalidate"
  BY <1>1, <1>2 DEF ConnectionTypes
<1>6. EditReachesApi'
  BY <1>5 DEF EditReachesApi
<1> QED
  BY <1>3, <1>4, <1>6 DEF ConnectionInvariant, CacheSound

LEMMA InvalidateKeeps ==
    ASSUME ConnectionInvariant, NEW e \in Editors, Invalidate(e)
    PROVE  ConnectionInvariant'
<1> DEFINE k == cached[ApiProcess]
<1>1. ConnectionTypes /\ ClientsPlaced /\ EditReachesApi /\ NoClientForgotten
  BY DEF ConnectionInvariant, CacheSound
<1>2. /\ client' = IF k = NoClient THEN client ELSE [client EXCEPT ![k].open = FALSE]
      /\ cached' = [cached EXCEPT ![ApiProcess] = NoClient]
      /\ editor' = [editor EXCEPT ![e] = "idle"]
      /\ UNCHANGED <<record, edits, step, outrun, displaced>>
  BY DEF Invalidate, Disconnected
<1>3. k \in 0 .. Len(client)
  BY <1>1, ApiProcessIsOne DEF ConnectionTypes
<1> HIDE DEF k
<1>4. /\ client' \in Seq(ClientRecords) /\ Len(client') = Len(client)
      /\ \A c \in 1 .. Len(client) : client'[c].process = client[c].process
                                   /\ (client'[c].open => client[c].open /\ c # k)
  <2>1. CASE k = NoClient
    BY <1>1, <1>2, <2>1 DEF NoClient, ConnectionTypes
  <2>2. CASE k # NoClient
    <3>1. client[k] \in ClientRecords
      BY <1>1, <1>3, <2>2 DEF NoClient, ConnectionTypes
    <3>2. [client[k] EXCEPT !.open = FALSE] \in ClientRecords
      BY <3>1 DEF ClientRecords
    <3>3. client' = [client EXCEPT ![k] = [client[k] EXCEPT !.open = FALSE]]
      BY <1>2, <2>2
    <3>4. client' \in Seq(ClientRecords) /\ Len(client') = Len(client)
      <4>1. client \in [1 .. Len(client) -> ClientRecords] /\ Len(client) \in Nat
        BY <1>1 DEF ConnectionTypes
      <4>2. client' \in [1 .. Len(client) -> ClientRecords]
        BY <3>2, <3>3, <4>1
      <4> QED
        BY <4>1, <4>2
    <3>5. ASSUME NEW c \in 1 .. Len(client)
          PROVE  client'[c].process = client[c].process /\ (client'[c].open => client[c].open /\ c # k)
      <4>1. CASE c = k
        BY <1>1, <1>3, <3>1, <3>3, <4>1 DEF ClientRecords, ConnectionTypes
      <4>2. CASE c # k
        BY <1>1, <3>3, <4>2 DEF ConnectionTypes
      <4> QED
        BY <4>1, <4>2
    <3> QED
      BY <3>4, <3>5
  <2> QED
    BY <2>1, <2>2
<1>5. /\ cached' \in [Processes -> 0 .. Len(client)] /\ cached'[ApiProcess] = NoClient
      /\ \A q \in Processes : q # ApiProcess => cached'[q] = cached[q]
  BY <1>1, <1>2, ApiProcessIsOne DEF ConnectionTypes, NoClient
<1>6. ConnectionTypes'
  BY <1>1, <1>2, <1>4, <1>5 DEF ConnectionTypes
<1>7. ClientsPlaced'
  <2>1. \A p \in Processes : cached'[p] # NoClient => client'[cached'[p]].process = p
    BY <1>1, <1>4, <1>5 DEF ClientsPlaced, NoClient, ConnectionTypes
  <2>2. \A s \in Steps : step'[s].at = "store" =>
          /\ step'[s].client \in 1 .. Len(client')
          /\ client'[step'[s].client].process = step'[s].process
    BY <1>1, <1>2, <1>4 DEF ClientsPlaced
  <2> QED
    BY <2>1, <2>2 DEF ClientsPlaced
<1>8. EditReachesApi'
  BY <1>5 DEF EditReachesApi
<1>9. NoClientForgotten'
  <2>1. SUFFICES ASSUME NEW c \in 1 .. Len(client), client'[c].open
                 PROVE  \/ c \in displaced
                        \/ \E p \in Processes : cached'[p] = c
                        \/ \E s \in Steps : step[s].at = "store" /\ step[s].client = c
    BY <1>2, <1>4 DEF NoClientForgotten, Dialled
  <2>2. client[c].open /\ c # k
    BY <1>4, <2>1
  <2>3. \/ c \in displaced
        \/ \E p \in Processes : cached[p] = c
        \/ \E s \in Steps : step[s].at = "store" /\ step[s].client = c
    BY <1>1, <2>2 DEF NoClientForgotten, Dialled, ConnectionTypes
  <2> QED
    BY <1>5, <2>2, <2>3 DEF k
<1> QED
  BY <1>6, <1>7, <1>8, <1>9 DEF ConnectionInvariant, CacheSound

LEMMA UnansweredKeeps ==
    ASSUME ConnectionInvariant, NEW e \in Editors, EditLandsUnanswered(e)
    PROVE  ConnectionInvariant'
<1> DEFINE k == cached[ApiProcess]
<1>1. ConnectionTypes /\ ClientsPlaced /\ NoClientForgotten
  BY DEF ConnectionInvariant, CacheSound
<1>2. /\ editor' = [editor EXCEPT ![e] = "idle"]
      /\ outrun' = outrun \cup {c \in Dialled : k = c /\ client[c].config # record}
      /\ UNCHANGED <<record, edits, client, cached, step, displaced>>
  BY DEF EditLandsUnanswered
<1>3. k \in 0 .. Len(client)
  BY <1>1, ApiProcessIsOne DEF ConnectionTypes
<1>4. ConnectionTypes'
  BY <1>1, <1>2 DEF ConnectionTypes
<1>5. ClientsPlaced' /\ NoClientForgotten'
  BY <1>1, <1>2 DEF ClientsPlaced, NoClientForgotten, Dialled
<1>6. k # NoClient => k \in Dialled
  BY <1>1, <1>3 DEF NoClient, Dialled, ConnectionTypes
<1>7. EditReachesApi'
  BY <1>2, <1>6 DEF EditReachesApi
<1> QED
  BY <1>4, <1>5, <1>7 DEF ConnectionInvariant, CacheSound

LEMMA ProcessRestartKeeps ==
    ASSUME ConnectionInvariant, NEW p \in Processes, ProcessRestarts(p)
    PROVE  ConnectionInvariant'
<1>1. ConnectionTypes /\ ClientsPlaced /\ EditReachesApi /\ NoClientForgotten
  BY DEF ConnectionInvariant, CacheSound
<1>2. /\ client' = [c \in Dialled |-> IF client[c].process = p
                                     THEN [client[c] EXCEPT !.open = FALSE] ELSE client[c]]
      /\ cached' = [cached EXCEPT ![p] = NoClient]
      /\ step' = [s \in Steps |-> IF step[s] # AtRest /\ step[s].process = p THEN AtRest
                                 ELSE step[s]]
      /\ editor' = IF p = ApiProcess THEN [e \in Editors |-> "idle"] ELSE editor
      /\ UNCHANGED <<record, edits, outrun, displaced>>
  BY DEF ProcessRestarts
<1>3. /\ client \in [1 .. Len(client) -> ClientRecords] /\ Len(client) \in Nat
      /\ Dialled = 1 .. Len(client)
  BY <1>1 DEF ConnectionTypes, Dialled
<1>4. \A c \in 1 .. Len(client) :
         /\ client'[c] \in ClientRecords
         /\ client'[c].process = client[c].process /\ client'[c].config = client[c].config
         /\ client'[c].open => client[c].open /\ client[c].process # p
  <2> SUFFICES ASSUME NEW c \in 1 .. Len(client)
               PROVE  /\ client'[c] \in ClientRecords
                      /\ client'[c].process = client[c].process
                      /\ client'[c].config = client[c].config
                      /\ client'[c].open => client[c].open /\ client[c].process # p
    OBVIOUS
  <2>1. client[c] \in ClientRecords
    BY <1>3
  <2>2. client'[c] = IF client[c].process = p
                     THEN [client[c] EXCEPT !.open = FALSE] ELSE client[c]
    BY <1>2, <1>3
  <2> QED
    BY <2>1, <2>2 DEF ClientRecords
<1>5. client' \in Seq(ClientRecords) /\ Len(client') = Len(client)
  <2>1. client' \in [1 .. Len(client) -> ClientRecords]
    BY <1>2, <1>3, <1>4
  <2> QED
    BY <1>3, <2>1
<1>6. /\ cached' \in [Processes -> 0 .. Len(client)] /\ cached'[p] = NoClient
      /\ \A q \in Processes : q # p => cached'[q] = cached[q]
  BY <1>1, <1>2 DEF ConnectionTypes, NoClient
<1>7. \A s \in Steps : /\ step'[s] \in StepRecords
                       /\ step'[s].at = "store" => step'[s] = step[s]
                       /\ step[s].at = "store" /\ step[s].process # p => step'[s] = step[s]
  BY <1>1, <1>2 DEF ConnectionTypes, StepRecords, AtRest
<1>8. ConnectionTypes'
  <2>1. step' \in [Steps -> StepRecords]
    BY <1>2, <1>7
  <2>2. editor' \in [Editors -> {"idle", "invalidate"}]
    BY <1>1, <1>2 DEF ConnectionTypes
  <2> QED
    BY <1>1, <1>2, <1>5, <1>6, <2>1, <2>2 DEF ConnectionTypes
<1>9. ClientsPlaced'
  <2>1. \A q \in Processes : cached'[q] # NoClient => client'[cached'[q]].process = q
    BY <1>1, <1>4, <1>6 DEF ClientsPlaced, NoClient, ConnectionTypes
  <2>2. \A s \in Steps : step'[s].at = "store" =>
          /\ step'[s].client \in 1 .. Len(client')
          /\ client'[step'[s].client].process = step'[s].process
    BY <1>1, <1>4, <1>5, <1>7 DEF ClientsPlaced
  <2> QED
    BY <2>1, <2>2 DEF ClientsPlaced
<1>10. EditReachesApi'
  <2>1. CASE p = ApiProcess
    BY <1>6, <2>1 DEF EditReachesApi
  <2>2. CASE p # ApiProcess
    <3>1. cached'[ApiProcess] = cached[ApiProcess] /\ editor' = editor
      BY <1>2, <1>6, <2>2, ApiProcessIsOne
    <3>2. cached[ApiProcess] \in 0 .. Len(client)
      BY <1>1, ApiProcessIsOne DEF ConnectionTypes
    <3>3. cached[ApiProcess] # NoClient =>
             client'[cached[ApiProcess]].config = client[cached[ApiProcess]].config
      BY <1>4, <3>2 DEF NoClient
    <3> QED
      BY <1>1, <1>2, <3>1, <3>3 DEF EditReachesApi
  <2> QED
    BY <2>1, <2>2
<1>11. NoClientForgotten'
  <2>1. SUFFICES ASSUME NEW c \in 1 .. Len(client), client'[c].open
                 PROVE  \/ c \in displaced
                        \/ \E q \in Processes : cached'[q] = c
                        \/ \E s \in Steps : step'[s].at = "store" /\ step'[s].client = c
    BY <1>2, <1>3, <1>5 DEF NoClientForgotten, Dialled
  <2>2. client[c].open /\ client[c].process # p
    BY <1>4, <2>1
  <2>3. \/ c \in displaced
        \/ \E q \in Processes : cached[q] = c
        \/ \E s \in Steps : step[s].at = "store" /\ step[s].client = c
    BY <1>1, <1>3, <2>2 DEF NoClientForgotten
  <2>4. CASE \E q \in Processes : cached[q] = c
    <3> PICK q \in Processes : cached[q] = c
      BY <2>4
    <3>1. client[c].process = q
      BY <1>1 DEF ClientsPlaced, NoClient
    <3> QED
      BY <1>6, <2>2, <3>1
  <2>5. CASE \E s \in Steps : step[s].at = "store" /\ step[s].client = c
    <3> PICK s \in Steps : step[s].at = "store" /\ step[s].client = c
      BY <2>5
    <3>1. step[s].process # p
      BY <1>1, <2>2 DEF ClientsPlaced
    <3> QED
      BY <1>7, <3>1
  <2> QED
    BY <2>3, <2>4, <2>5
<1> QED
  BY <1>8, <1>9, <1>10, <1>11 DEF ConnectionInvariant, CacheSound

\* An edit reaches the next node the API process resolves, unless a dial outran it or its
\* answer was lost, and no open client is lost from sight but one that was displaced, for
\* any number of processes, nodes and editors (ConnectionResolver).
THEOREM CachesStaySound == ConnectionsSpec => []CacheSound
<1>1. ConnectionInvariant /\ [ConnectionsNext]_connectionVars => ConnectionInvariant'
  <2>1. ASSUME ConnectionInvariant, ConnectionsNext PROVE ConnectionInvariant'
    <3>1. ASSUME NEW s \in Steps,
                 \/ \E p \in Processes : ResolveHit(s, p) \/ ResolveMiss(s, p)
                 \/ LoadConnection(s) \/ DialFails(s) \/ StepEnds(s)
          PROVE  ConnectionInvariant'
      BY <2>1, <3>1, ResolveKeeps
    <3>2. ASSUME NEW s \in Steps, Dial(s) PROVE ConnectionInvariant'
      BY <2>1, <3>2, DialKeeps
    <3>3. ASSUME NEW s \in Steps, StoreClient(s) PROVE ConnectionInvariant'
      BY <2>1, <3>3, StoreKeeps
    <3>4. ASSUME NEW e \in Editors, UpsertConnection(e) \/ DeleteConnection(e)
          PROVE  ConnectionInvariant'
      BY <2>1, <3>4, EditKeepsCache
    <3>5. ASSUME NEW e \in Editors, Invalidate(e) PROVE ConnectionInvariant'
      BY <2>1, <3>5, InvalidateKeeps
    <3>6. ASSUME NEW p \in Processes, ProcessRestarts(p) PROVE ConnectionInvariant'
      BY <2>1, <3>6, ProcessRestartKeeps
    <3>7. ASSUME NEW e \in Editors, EditLandsUnanswered(e) PROVE ConnectionInvariant'
      BY <2>1, <3>7, UnansweredKeeps
    <3> QED
      BY <2>1, <3>1, <3>2, <3>3, <3>4, <3>5, <3>6, <3>7 DEF ConnectionsNext
  <2>2. ASSUME ConnectionInvariant, UNCHANGED connectionVars PROVE ConnectionInvariant'
    BY <2>2 DEF ConnectionInvariant, connectionVars, ConnectionTypes, ClientsPlaced, CacheSound,
                EditReachesApi, NoClientForgotten, Dialled
  <2> QED
    BY <2>1, <2>2
<1>2. ConnectionInvariant => CacheSound
  BY DEF ConnectionInvariant
<1> QED
  BY ConnectionsBegin, <1>1, <1>2, PTL DEF ConnectionsSpec

-----------------------------------------------------------------------------
(***************************************************************************)
(* RunWatch.  A run that ended was announced, or is about to be, or its    *)
(* announcement reached nobody; a pass that is past its walk announced its *)
(* own.  Of a run nobody disturbed the lease says who drives it: its owner *)
(* is on a pass over it, nobody else is, and while somebody is, it runs;   *)
(* passes that yielded it may still be about, and if one of them goes on   *)
(* to write, the run is disturbed.  So an announcement comes from the one  *)
(* pass that then writes the end.                                          *)
(***************************************************************************)
RunRecords == [status : {"none", "queued", "running", "pending", "success", "error", "cancelled"},
               owner : Passes \cup {"none"}, lapsed : BOOLEAN, resumable : BOOLEAN]
PassRecords ==
    {NoPass}
    \cup [at : {"walk", "yielded", "reread", "final"}, run : WatchedRuns, failed : BOOLEAN]
    \cup [at : {"write"}, run : WatchedRuns, failed : BOOLEAN,
          owner : Passes \cup {"none"}, lapsed : BOOLEAN]

WatchTypes ==
    /\ watched \in [WatchedRuns -> RunRecords]
    /\ passOf \in [Passes -> PassRecords]
    /\ DOMAIN news = WatchedRuns /\ DOMAIN told = WatchedRuns
    /\ DOMAIN watcher = WatchedRuns /\ DOMAIN ender = WatchedRuns

Announced(r) == news[r] # "none" \/ r \in unheard
Drives(w, r) == PassOn(w, r) /\ passOf[w].at # "yielded"
PastWalk(w, r) == PassOn(w, r) /\ passOf[w].at \in {"reread", "final", "write"}

EndsAreAnnounced ==
    /\ \A r \in WatchedRuns : Terminal(watched[r].status) => Announced(r) \/ ender[r] # "none"
    /\ \A w \in Passes, r \in WatchedRuns : PastWalk(w, r) => Announced(r)

Undisturbed(r) ==
    /\ ~watched[r].lapsed /\ ender[r] = "none"
    /\ watched[r].owner # "none" => Drives(watched[r].owner, r)
    /\ \A w \in Passes : Drives(w, r) =>
          /\ watched[r].owner = w /\ watched[r].status = "running"
          /\ passOf[w].at = "write" => passOf[w].owner = w
    /\ news[r] # "none" \/ told[r] # "none" =>
          Terminal(watched[r].status) \/ \E w \in Passes : PastWalk(w, r)

OwnersHold == \A r \in WatchedRuns : r \notin disturbed => Undisturbed(r)

WatchInvariant == WatchTypes /\ EndsAreAnnounced /\ OwnersHold


LEMMA WatchBegins == WatchInit => WatchInvariant
<1> SUFFICES ASSUME WatchInit PROVE WatchInvariant
  OBVIOUS
<1>1. \A r \in WatchedRuns :
         /\ watched[r] = [status |-> "none", owner |-> "none", lapsed |-> FALSE, resumable |-> FALSE]
         /\ news[r] = "none" /\ told[r] = "none" /\ ender[r] = "none"
  BY DEF WatchInit
<1>2. \A w \in Passes : passOf[w] = NoPass
  BY DEF WatchInit
<1>3. WatchTypes
  BY DEF WatchInit, WatchTypes, RunRecords, PassRecords
<1>4. EndsAreAnnounced
  BY <1>1, <1>2 DEF EndsAreAnnounced, Terminal, PastWalk, Drives, PassOn
<1>5. OwnersHold
  BY <1>1, <1>2 DEF OwnersHold, Undisturbed, Drives, PassOn
<1> QED
  BY <1>3, <1>4, <1>5 DEF WatchInvariant

\* A run that a step does not touch.
LEMMA Untouched ==
    ASSUME NEW r \in WatchedRuns, Undisturbed(r),
           watched'[r] = watched[r], news'[r] = news[r], told'[r] = told[r], ender'[r] = ender[r],
           \A w \in Passes : passOf'[w] = passOf[w] \/ (~Drives(w, r) /\ ~Drives(w, r)'),
           watched[r].owner \in Passes \cup {"none"}
    PROVE  Undisturbed(r)'
<1>1. \A w \in Passes : /\ Drives(w, r)' <=> Drives(w, r)
                        /\ Drives(w, r) => passOf'[w] = passOf[w]
                        /\ PastWalk(w, r)' <=> PastWalk(w, r)
  BY DEF Drives, PassOn, PastWalk
<1>2. (watched[r].owner # "none" => Drives(watched[r].owner, r))'
  BY <1>1 DEF Undisturbed, Drives, PassOn
<1>3. (\A w \in Passes : Drives(w, r) =>
          /\ watched[r].owner = w /\ watched[r].status = "running"
          /\ passOf[w].at = "write" => passOf[w].owner = w)'
  BY <1>1 DEF Undisturbed
<1>4. (news[r] # "none" \/ told[r] # "none" =>
          Terminal(watched[r].status) \/ \E w \in Passes : PastWalk(w, r))'
  BY <1>1 DEF Undisturbed, Terminal
<1> QED
  BY <1>2, <1>3, <1>4 DEF Undisturbed

\* A publication announces the run it is about, and takes no announcement back.
LEMMA Publication ==
    ASSUME WatchTypes, NEW q \in WatchedRuns, NEW status, status # "none", Publishes(q, status)
    PROVE  /\ DOMAIN news' = WatchedRuns
           /\ Announced(q)'
           /\ \A r \in WatchedRuns : Announced(r) => Announced(r)'
           /\ \A r \in WatchedRuns : r # q => news'[r] = news[r]
<1>1. DOMAIN news = WatchedRuns
  BY DEF WatchTypes
<1>2. CASE news' = [news EXCEPT ![q] = IF @ = "none" THEN status ELSE @] /\ unheard' = unheard
  BY <1>1, <1>2 DEF Announced
<1>3. CASE unheard' = unheard \cup {q} /\ news' = news
  BY <1>1, <1>3 DEF Announced
<1> QED
  BY <1>2, <1>3 DEF Publishes

\* The watchers' own steps.
LEMMA WatchersKeep ==
    ASSUME WatchInvariant, NEW q \in WatchedRuns,
           RunWorkflowWS(q) \/ HandleWebhook(q) \/ Subscribe(q) \/ ForwardDone(q)
               \/ Polls(q) \/ WatcherGoes(q)
    PROVE  WatchInvariant'
<1>1. WatchTypes /\ EndsAreAnnounced /\ OwnersHold
  BY DEF WatchInvariant
<1>2. UNCHANGED <<passOf, news, ender, unheard, disturbed>>
  BY DEF RunWorkflowWS, HandleWebhook, Dispatches, Subscribe, ForwardDone, Polls, WatcherGoes, Leaves
<1>3. /\ watched' = watched
         \/ (watched[q].status = "none" /\ watched' = [watched EXCEPT ![q].status = "queued"])
      /\ DOMAIN watcher' = WatchedRuns
  BY <1>1 DEF RunWorkflowWS, HandleWebhook, Dispatches, Subscribe, ForwardDone, Polls, WatcherGoes,
              Leaves, AsOf, WatchTypes
<1>4. /\ DOMAIN told' = WatchedRuns
      /\ \A r \in WatchedRuns : told'[r] = told[r] \/
            news[r] # "none" \/ (Terminal(watched[r].status) /\ watched' = watched)
  BY <1>1 DEF RunWorkflowWS, HandleWebhook, Dispatches, Subscribe, ForwardDone, Polls, WatcherGoes,
              Leaves, WatchTypes
<1>5. /\ watched' \in [WatchedRuns -> RunRecords]
      /\ \A r \in WatchedRuns :
            /\ watched'[r].owner = watched[r].owner /\ watched'[r].lapsed = watched[r].lapsed
            /\ watched'[r].status = watched[r].status
               \/ (watched[r].status = "none" /\ watched'[r].status = "queued")
  BY <1>1, <1>3 DEF WatchTypes, RunRecords
<1>6. WatchTypes'
  BY <1>1, <1>2, <1>3, <1>4, <1>5 DEF WatchTypes
<1>7. EndsAreAnnounced'
  BY <1>1, <1>2, <1>5 DEF EndsAreAnnounced, Announced, PastWalk, Drives, PassOn, Terminal
<1>8. ASSUME NEW r \in WatchedRuns, r \notin disturbed PROVE Undisturbed(r)'
  <2>1. Undisturbed(r)
    BY <1>1, <1>8 DEF OwnersHold
  <2>2. \A w \in Passes : (Drives(w, r)' <=> Drives(w, r)) /\ (PastWalk(w, r)' <=> PastWalk(w, r))
    BY <1>2 DEF Drives, PassOn, PastWalk
  <2>3. (watched[r].owner # "none" => Drives(watched[r].owner, r))'
    BY <1>2, <1>5, <2>1 DEF Undisturbed, Drives, PassOn
  <2>4. (~watched[r].lapsed /\ ender[r] = "none")'
    BY <1>2, <1>5, <2>1 DEF Undisturbed
  <2>5. (\A w \in Passes : Drives(w, r) =>
          /\ watched[r].owner = w /\ watched[r].status = "running"
          /\ passOf[w].at = "write" => passOf[w].owner = w)'
    BY <1>2, <1>5, <2>1, <2>2 DEF Undisturbed
  <2>6. (news[r] # "none" \/ told[r] # "none" =>
          Terminal(watched[r].status) \/ \E w \in Passes : PastWalk(w, r))'
    <3>1. SUFFICES ASSUME news[r] # "none" \/ told'[r] # "none"
                   PROVE  Terminal(watched'[r].status) \/ \E w \in Passes : PastWalk(w, r)
      BY <1>2, <2>2
    <3>2. Terminal(watched[r].status) \/ \E w \in Passes : PastWalk(w, r)
      BY <1>4, <2>1, <3>1 DEF Undisturbed
    <3> QED
      BY <1>5, <3>2 DEF Terminal
  <2> QED
    BY <2>3, <2>4, <2>5, <2>6 DEF Undisturbed
<1>9. OwnersHold'
  BY <1>2, <1>8 DEF OwnersHold
<1> QED
  BY <1>6, <1>7, <1>9 DEF WatchInvariant

\* The steps of a pass over one run: the others are not touched.
LEMMA OthersKeep ==
    ASSUME WatchInvariant, NEW v \in Passes, NEW q \in WatchedRuns,
           NEW r \in WatchedRuns, r # q, r \notin disturbed,
           passOf' = [passOf EXCEPT ![v] = passOf'[v]],
           ~Drives(v, r), ~Drives(v, r)',
           watched'[r] = watched[r], news'[r] = news[r], told' = told, ender' = ender
    PROVE  Undisturbed(r)'
<1>1. Undisturbed(r) /\ watched[r].owner \in Passes \cup {"none"}
  BY DEF WatchInvariant, OwnersHold, WatchTypes, RunRecords
<1>2. \A w \in Passes : passOf'[w] = passOf[w] \/ w = v
  BY DEF WatchInvariant, WatchTypes
<1> QED
  BY <1>1, <1>2, Untouched

LEMMA ClaimRunKeeps ==
    ASSUME WatchInvariant, NEW v \in Passes, NEW q \in WatchedRuns, ClaimRun(v, q)
    PROVE  WatchInvariant'
<1> DEFINE now == [at |-> "walk", run |-> q, failed |-> FALSE]
<1>1. WatchTypes /\ EndsAreAnnounced /\ OwnersHold
  BY DEF WatchInvariant
<1>2. /\ passOf[v] = NoPass /\ Claimable(watched[q])
      /\ watched' = [watched EXCEPT ![q].status = "running", ![q].owner = v, ![q].lapsed = FALSE]
      /\ passOf' = [passOf EXCEPT ![v] = now]
      /\ UNCHANGED <<watcher, news, told, ender, lost, unheard, disturbed>>
  BY DEF ClaimRun
<1>3. now \in PassRecords
  BY DEF PassRecords
<1>4. /\ watched' \in [WatchedRuns -> RunRecords]
      /\ \A r \in WatchedRuns : r # q => watched'[r] = watched[r]
      /\ watched'[q].status = "running" /\ watched'[q].owner = v /\ watched'[q].lapsed = FALSE
  <2> DEFINE rec == [watched[q] EXCEPT !.status = "running", !.owner = v, !.lapsed = FALSE]
  <2>1. watched[q] \in RunRecords /\ DOMAIN watched = WatchedRuns
    BY <1>1 DEF WatchTypes
  <2>2. rec \in RunRecords /\ rec.status = "running" /\ rec.owner = v /\ rec.lapsed = FALSE
    BY <2>1 DEF RunRecords
  <2>3. watched' = [watched EXCEPT ![q] = rec]
    BY <1>2, <2>1
  <2> HIDE DEF rec
  <2> QED
    BY <1>1, <2>2, <2>3 DEF WatchTypes
<1>5. /\ passOf'[v] = now /\ \A w \in Passes : w # v => passOf'[w] = passOf[w]
      /\ passOf' \in [Passes -> PassRecords]
  BY <1>1, <1>2, <1>3 DEF WatchTypes
<1>6. WatchTypes'
  BY <1>1, <1>2, <1>4, <1>5 DEF WatchTypes
<1>7. \A w \in Passes, r \in WatchedRuns : PastWalk(w, r)' => PastWalk(w, r)
  BY <1>5 DEF PastWalk, Drives, PassOn
<1>8. EndsAreAnnounced'
  <2>1. \A r \in WatchedRuns : Terminal(watched'[r].status) => Terminal(watched[r].status)
    BY <1>4 DEF Terminal
  <2>2. \A r \in WatchedRuns : Announced(r) => Announced(r)'
    BY <1>2 DEF Announced
  <2> QED
    BY <1>1, <1>2, <1>7, <2>1, <2>2 DEF EndsAreAnnounced
<1>9. ASSUME NEW r \in WatchedRuns, r \notin disturbed PROVE Undisturbed(r)'
  <2>1. CASE r # q
    <3>1. ~Drives(v, r) /\ ~Drives(v, r)'
      BY <1>2, <1>5, <2>1 DEF Drives, PassOn
    <3> QED
      BY <1>2, <1>4, <1>5, <1>9, <2>1, <3>1, OthersKeep
  <2>2. CASE r = q
    <3>1. Undisturbed(q) /\ watched[q].owner = "none"
      BY <1>1, <1>2, <1>9, <2>2 DEF OwnersHold, Undisturbed, Claimable
    <3>2. \A w \in Passes : ~Drives(w, q)
      BY <3>1, NobodyIsNoPass DEF Undisturbed
    <3>3. news[q] = "none" /\ told[q] = "none"
      BY <1>2, <3>1, <3>2 DEF Undisturbed, PastWalk, Drives, Claimable, Terminal
    <3>4. \A w \in Passes : Drives(w, q)' => w = v
      BY <1>5, <3>2 DEF Drives, PassOn
    <3>5. Drives(v, q)' /\ passOf'[v].at = "walk"
      BY <1>5 DEF Drives, PassOn, NoPass
    <3>6. (watched[q].owner # "none" => Drives(watched[q].owner, q))'
      BY <1>4, <3>5 DEF Drives, PassOn
    <3> QED
      BY <1>2, <1>4, <2>2, <3>1, <3>3, <3>4, <3>5, <3>6 DEF Undisturbed
  <2> QED
    BY <2>1, <2>2
<1>10. OwnersHold'
  BY <1>2, <1>9 DEF OwnersHold
<1> QED
  BY <1>6, <1>8, <1>10 DEF WatchInvariant

\* A step that only moves a pass, still over its run, and announces nothing.
LEMMA PassMoves ==
    ASSUME WatchInvariant, NEW v \in Passes, passOf[v] # NoPass, NEW to \in PassRecords,
           to # NoPass, to.run = passOf[v].run, to.at # "yielded",
           passOf' = [passOf EXCEPT ![v] = to],
           to.at \in {"reread", "final", "write"} => Announced(to.run)',
           passOf[v].at \in {"reread", "final", "write"} => to.at \in {"reread", "final", "write"},
           passOf[v].at = "yielded" => to.run \in disturbed',
           to.at = "write" => to.owner = watched[to.run].owner,
           \A r \in WatchedRuns : Announced(r) => Announced(r)',
           \A r \in WatchedRuns : r # passOf[v].run => news'[r] = news[r],
           to.at \in {"reread", "final", "write"} \/ news' = news,
           DOMAIN news' = WatchedRuns, disturbed \subseteq disturbed',
           UNCHANGED <<watched, watcher, told, ender>>
    PROVE  WatchInvariant'
<1> PICK q : q = passOf[v].run
  OBVIOUS
<1>1. WatchTypes /\ EndsAreAnnounced /\ OwnersHold
  BY DEF WatchInvariant
<1>2. q \in WatchedRuns
  BY <1>1 DEF WatchTypes, PassRecords
<1>3. /\ passOf' \in [Passes -> PassRecords] /\ passOf'[v] = to
      /\ \A w \in Passes : w # v => passOf'[w] = passOf[w]
  BY <1>1 DEF WatchTypes
<1>4. /\ \A w \in Passes, r \in WatchedRuns : PastWalk(w, r) => PastWalk(w, r)'
      /\ \A w \in Passes, r \in WatchedRuns : PastWalk(w, r)' =>
            PastWalk(w, r) \/ (w = v /\ r = q /\ to.at \in {"reread", "final", "write"})
  BY <1>3 DEF PassOn, PastWalk
<1>5. WatchTypes'
  BY <1>1, <1>3 DEF WatchTypes
<1>6. EndsAreAnnounced'
  <2>1. \A r \in WatchedRuns : Terminal(watched'[r].status) => Announced(r)' \/ ender'[r] # "none"
    BY <1>1 DEF EndsAreAnnounced, Terminal
  <2>2. ASSUME NEW w \in Passes, NEW r \in WatchedRuns, PastWalk(w, r)' PROVE Announced(r)'
    BY <1>1, <1>4, <2>2 DEF EndsAreAnnounced
  <2> QED
    BY <2>1, <2>2 DEF EndsAreAnnounced, Terminal
<1>7. ASSUME NEW r \in WatchedRuns, r \notin disturbed' PROVE Undisturbed(r)'
  <2>1. Undisturbed(r)
    BY <1>1, <1>7 DEF OwnersHold
  <2>2. \A w \in Passes : Drives(w, r)' <=> Drives(w, r)
    <3>1. r = q => passOf[v].at # "yielded"
      BY <1>7
    <3> QED
      BY <1>3, <3>1 DEF Drives, PassOn
  <2>3. (watched[r].owner # "none" => Drives(watched[r].owner, r))'
    <3>1. watched[r].owner \in Passes \cup {"none"}
      BY <1>1 DEF WatchTypes, RunRecords
    <3>2. watched[r].owner # "none" => Drives(watched[r].owner, r)'
      BY <2>1, <2>2, <3>1 DEF Undisturbed
    <3> QED
      BY <3>2 DEF Drives, PassOn
  <2>4. ASSUME NEW w \in Passes, Drives(w, r)'
        PROVE  /\ watched[r].owner = w /\ watched[r].status = "running"
               /\ passOf'[w].at = "write" => passOf'[w].owner = w
    <3>1. Drives(w, r)
      BY <2>2, <2>4
    <3>2. watched[r].owner = w /\ watched[r].status = "running"
      BY <2>1, <3>1 DEF Undisturbed
    <3>3. CASE w # v
      BY <1>3, <2>1, <3>1, <3>2, <3>3 DEF Undisturbed
    <3>4. CASE w = v
      <4>1. r = q
        BY <3>1, <3>4 DEF Drives, PassOn
      <4> QED
        BY <1>3, <3>2, <3>4, <4>1
    <3> QED
      BY <3>2, <3>3, <3>4
  <2>5. (news[r] # "none" \/ told[r] # "none" =>
          Terminal(watched[r].status) \/ \E w \in Passes : PastWalk(w, r))'
    <3>1. SUFFICES ASSUME news'[r] # "none" \/ told[r] # "none"
                   PROVE  Terminal(watched[r].status) \/ \E w \in Passes : PastWalk(w, r)'
      OBVIOUS
    <3>2. CASE news[r] # "none" \/ told[r] # "none"
      BY <1>4, <2>1, <3>2 DEF Undisturbed
    <3>3. CASE news[r] = "none" /\ told[r] = "none"
      <4>1. r = q /\ to.at \in {"reread", "final", "write"}
        BY <3>1, <3>3
      <4>2. PastWalk(v, q)'
        BY <1>3, <4>1 DEF PastWalk, PassOn
      <4> QED
        BY <4>1, <4>2
    <3> QED
      BY <3>2, <3>3
  <2> QED
    BY <2>1, <2>3, <2>4, <2>5 DEF Undisturbed
<1>8. OwnersHold'
  BY <1>7 DEF OwnersHold
<1> QED
  BY <1>5, <1>6, <1>8 DEF WatchInvariant

\* A step that ends a pass that is not, or not any more, the one its run belongs to.
LEMMA PassLeaves ==
    ASSUME WatchInvariant, NEW v \in Passes, passOf[v] # NoPass,
           passOf[v].at = "yielded" \/ passOf[v].run \in disturbed,
           passOf' = [passOf EXCEPT ![v] = NoPass],
           UNCHANGED <<watched, watcher, news, told, ender, unheard, disturbed>>
    PROVE  WatchInvariant'
<1> PICK q : q = passOf[v].run
  OBVIOUS
<1>1. WatchTypes /\ EndsAreAnnounced /\ OwnersHold
  BY DEF WatchInvariant
<1>2. q \in WatchedRuns
  BY <1>1 DEF WatchTypes, PassRecords
<1>3. /\ passOf' \in [Passes -> PassRecords] /\ passOf'[v] = NoPass
      /\ \A w \in Passes : w # v => passOf'[w] = passOf[w]
  BY <1>1 DEF WatchTypes, PassRecords
<1>4. WatchTypes'
  BY <1>1, <1>3 DEF WatchTypes
<1>5. \A w \in Passes, r \in WatchedRuns : PastWalk(w, r)' => PastWalk(w, r)
  BY <1>3 DEF PassOn, PastWalk
<1>6. EndsAreAnnounced'
  BY <1>1, <1>5 DEF EndsAreAnnounced, Announced, Terminal
<1>7. ASSUME NEW r \in WatchedRuns, r \notin disturbed PROVE Undisturbed(r)'
  <2>1. ~Drives(v, r) /\ ~Drives(v, r)'
    BY <1>3, <1>7 DEF Drives, PassOn
  <2>2. Undisturbed(r) /\ watched[r].owner \in Passes \cup {"none"}
    BY <1>1, <1>7 DEF OwnersHold, WatchTypes, RunRecords
  <2>3. \A w \in Passes : passOf'[w] = passOf[w] \/ (~Drives(w, r) /\ ~Drives(w, r)')
    BY <1>3, <2>1
  <2>4. watched'[r] = watched[r] /\ news'[r] = news[r] /\ told'[r] = told[r] /\ ender'[r] = ender[r]
    OBVIOUS
  <2> QED
    BY <2>2, <2>3, <2>4, Untouched
<1>8. OwnersHold'
  BY <1>7 DEF OwnersHold
<1> QED
  BY <1>4, <1>6, <1>8 DEF WatchInvariant

LEMMA StepFailsKeeps ==
    ASSUME WatchInvariant, NEW v \in Passes, StepFails(v)
    PROVE  WatchInvariant'
<1> DEFINE to == [passOf[v] EXCEPT !.failed = TRUE]
<1>1. passOf[v].at = "walk" /\ passOf' = [passOf EXCEPT ![v].failed = TRUE]
      /\ UNCHANGED <<watched, watcher, news, told, ender, lost, unheard, disturbed>>
  BY DEF StepFails
<1>2. passOf[v] \in [at : {"walk", "yielded", "reread", "final"}, run : WatchedRuns, failed : BOOLEAN]
      /\ passOf[v] # NoPass /\ DOMAIN news = WatchedRuns
  BY <1>1 DEF WatchInvariant, WatchTypes, PassRecords, NoPass
<1>3. to \in PassRecords /\ to # NoPass /\ to.run = passOf[v].run /\ to.at = "walk"
  BY <1>1, <1>2 DEF PassRecords, NoPass
<1>4. passOf' = [passOf EXCEPT ![v] = to]
  BY <1>1
<1>5. \A r \in WatchedRuns : Announced(r) => Announced(r)'
  BY <1>1 DEF Announced
<1> HIDE DEF to
<1> QED
  BY <1>1, <1>2, <1>3, <1>4, <1>5, PassMoves

LEMMA WalkEndsKeep ==
    ASSUME WatchInvariant, NEW v \in Passes, WalkDone(v) \/ WalkReturnsError(v)
    PROVE  WatchInvariant'
<1> PICK q : q = passOf[v].run
  OBVIOUS
<1>1. /\ passOf[v].at = "walk"
      /\ UNCHANGED <<watched, watcher, told, ender, disturbed>>
  BY DEF WalkDone, WalkReturnsError
<1>2. passOf[v] \in [at : {"walk", "yielded", "reread", "final"}, run : WatchedRuns, failed : BOOLEAN]
      /\ passOf[v] # NoPass /\ WatchTypes
  BY <1>1 DEF WatchInvariant, WatchTypes, PassRecords, NoPass
<1>3. /\ DOMAIN news' = WatchedRuns
      /\ Announced(q)'
      /\ \A r \in WatchedRuns : Announced(r) => Announced(r)'
      /\ \A r \in WatchedRuns : r # q => news'[r] = news[r]
  <2>1. CASE WalkDone(v)
    BY <1>2, <2>1, Publication DEF WalkDone
  <2>2. CASE WalkReturnsError(v)
    BY <1>2, <2>2 DEF WalkReturnsError, Announced, WatchTypes
  <2> QED
    BY <2>1, <2>2
<1>4. PICK b \in BOOLEAN :
         passOf' = [passOf EXCEPT ![v] = [at |-> "reread", run |-> q, failed |-> b]]
  BY <1>2 DEF WalkDone, WalkReturnsError, GoesTo
<1> DEFINE to == [at |-> "reread", run |-> q, failed |-> b]
<1>5. to \in PassRecords /\ to # NoPass /\ to.run = q /\ to.at = "reread"
      /\ disturbed \subseteq disturbed'
  BY <1>1, <1>2 DEF PassRecords, NoPass
<1> HIDE DEF to
<1> QED
  BY <1>1, <1>2, <1>3, <1>4, <1>5, PassMoves DEF to

LEMMA StaysAtGateKeeps ==
    ASSUME WatchInvariant, NEW v \in Passes, StaysAtGate(v)
    PROVE  WatchInvariant'
<1> PICK q : q = passOf[v].run
  OBVIOUS
<1>1. /\ passOf[v].at \in {"yielded", "reread"} /\ watched[q].status = "pending"
      /\ passOf' = [passOf EXCEPT ![v] = NoPass]
      /\ UNCHANGED <<watched, watcher, news, told, ender, lost, unheard, disturbed>>
  BY DEF StaysAtGate, AsOf
<1>2. passOf[v] # NoPass /\ q \in WatchedRuns /\ OwnersHold
  BY <1>1 DEF WatchInvariant, WatchTypes, PassRecords, NoPass
<1>3. passOf[v].at = "yielded" \/ q \in disturbed
  BY <1>1, <1>2 DEF OwnersHold, Undisturbed, Drives, PassOn
<1> QED
  BY <1>1, <1>2, <1>3, PassLeaves

\* The pass that is not at a gate goes on to the second read.
LEMMA GoesOnKeeps ==
    ASSUME WatchInvariant, NEW v \in Passes,
           Reread(v) \/ DecisionOvertakes(v) \/ RereadFails(v)
    PROVE  WatchInvariant'
<1> PICK q : q = passOf[v].run
  OBVIOUS
<1>1. /\ passOf[v].at \in {"yielded", "reread"} /\ GoesTo(v, "final")
      /\ UNCHANGED <<watched, watcher, news, told, ender>>
      /\ disturbed \subseteq disturbed' /\ unheard \subseteq unheard'
      /\ passOf[v].at = "yielded" => q \in disturbed' /\ q \in unheard'
  BY DEF Reread, DecisionOvertakes, RereadFails, Loses
<1>2. passOf[v] \in [at : {"walk", "yielded", "reread", "final"}, run : WatchedRuns, failed : BOOLEAN]
      /\ passOf[v] # NoPass /\ WatchTypes /\ EndsAreAnnounced
  BY <1>1 DEF WatchInvariant, WatchTypes, PassRecords, NoPass
<1>3. PICK b \in BOOLEAN : passOf' = [passOf EXCEPT ![v] = [at |-> "final", run |-> q, failed |-> b]]
  BY <1>1, <1>2 DEF GoesTo
<1> DEFINE to == [at |-> "final", run |-> q, failed |-> b]
<1>4. to \in PassRecords /\ to # NoPass /\ to.run = q /\ to.at = "final"
  BY <1>2 DEF PassRecords, NoPass
<1>5. \A r \in WatchedRuns : Announced(r) => Announced(r)'
  BY <1>1 DEF Announced
<1>6. Announced(q)'
  <2>1. CASE passOf[v].at = "yielded"
    BY <1>1, <2>1 DEF Announced
  <2>2. CASE passOf[v].at = "reread"
    <3>1. q \in WatchedRuns /\ PastWalk(v, q)
      BY <1>2, <2>2 DEF PastWalk, PassOn
    <3>2. Announced(q)
      BY <1>2, <3>1 DEF EndsAreAnnounced
    <3> QED
      BY <1>5, <3>1, <3>2
  <2> QED
    BY <1>1, <2>1, <2>2
<1>7. DOMAIN news' = WatchedRuns
  BY <1>1, <1>2 DEF WatchTypes
<1> HIDE DEF to
<1> QED
  BY <1>1, <1>2, <1>3, <1>4, <1>5, <1>6, <1>7, PassMoves DEF to

LEMMA ReadFinalKeeps ==
    ASSUME WatchInvariant, NEW v \in Passes, ReadFinal(v)
    PROVE  WatchInvariant'
<1> PICK q : q = passOf[v].run
  OBVIOUS
<1> DEFINE to == [at |-> "write", run |-> q, failed |-> passOf[v].failed,
                  owner |-> watched[q].owner, lapsed |-> watched[q].lapsed]
<1>1. /\ passOf[v].at = "final" /\ passOf' = [passOf EXCEPT ![v] = to]
      /\ UNCHANGED <<watched, watcher, news, told, ender, lost, unheard, disturbed>>
  BY DEF ReadFinal
<1>2. passOf[v] \in [at : {"walk", "yielded", "reread", "final"}, run : WatchedRuns, failed : BOOLEAN]
      /\ passOf[v] # NoPass /\ WatchTypes /\ EndsAreAnnounced
  BY <1>1 DEF WatchInvariant, WatchTypes, PassRecords, NoPass
<1>3. watched[q] \in RunRecords
  BY <1>2 DEF WatchTypes
<1>4. to \in PassRecords
  BY <1>2, <1>3 DEF PassRecords, RunRecords
<1>5. to # NoPass /\ to.run = q /\ to.at = "write" /\ to.owner = watched[to.run].owner
  BY DEF NoPass
<1>6. Announced(q)'
  <2>1. q \in WatchedRuns /\ PastWalk(v, q)
    BY <1>1, <1>2 DEF PastWalk, PassOn
  <2>2. Announced(q)
    BY <1>2, <2>1 DEF EndsAreAnnounced
  <2> QED
    BY <1>1, <2>2 DEF Announced
<1>7. \A r \in WatchedRuns : Announced(r) => Announced(r)'
  BY <1>1 DEF Announced
<1>8. DOMAIN news' = WatchedRuns /\ disturbed \subseteq disturbed'
  BY <1>1, <1>2 DEF WatchTypes
<1> HIDE DEF to
<1> QED
  BY <1>1, <1>2, <1>4, <1>5, <1>6, <1>7, <1>8, PassMoves

\* A step that changes one record, not who owns it.
LEMMA RecordMoves ==
    ASSUME WatchInvariant, NEW q \in WatchedRuns, NEW d \in RunRecords,
           watched' = [watched EXCEPT ![q] = d],
           q \notin disturbed => d.owner = watched[q].owner /\ d.lapsed = watched[q].lapsed,
           d.status = watched[q].status
               \/ (watched[q].status = "pending" /\ d.status = "running"),
           UNCHANGED <<passOf, watcher, news, told, ender, unheard, disturbed>>
    PROVE  WatchInvariant'
<1>1. WatchTypes /\ EndsAreAnnounced /\ OwnersHold
  BY DEF WatchInvariant
<1>2. /\ watched' \in [WatchedRuns -> RunRecords] /\ watched'[q] = d
      /\ \A r \in WatchedRuns : r # q => watched'[r] = watched[r]
  BY <1>1 DEF WatchTypes
<1>3. WatchTypes'
  BY <1>1, <1>2 DEF WatchTypes
<1>4. \A w \in Passes, r \in WatchedRuns :
         (Drives(w, r)' <=> Drives(w, r)) /\ (PastWalk(w, r)' <=> PastWalk(w, r))
  BY DEF Drives, PassOn, PastWalk
<1>5. \A r \in WatchedRuns : Terminal(watched'[r].status) <=> Terminal(watched[r].status)
  BY <1>2 DEF Terminal
<1>6. EndsAreAnnounced'
  BY <1>1, <1>4, <1>5 DEF EndsAreAnnounced, Announced
<1>7. ASSUME NEW r \in WatchedRuns, r \notin disturbed PROVE Undisturbed(r)'
  <2>1. Undisturbed(r)
    BY <1>1, <1>7 DEF OwnersHold
  <2>2. /\ watched'[r].owner = watched[r].owner /\ watched'[r].lapsed = watched[r].lapsed
        /\ watched[r].status = "running" => watched'[r].status = "running"
    BY <1>2, <1>7
  <2>3. (watched[r].owner # "none" => Drives(watched[r].owner, r))'
    BY <2>1, <2>2 DEF Undisturbed, Drives, PassOn
  <2>4. (\A w \in Passes : Drives(w, r) =>
          /\ watched[r].owner = w /\ watched[r].status = "running"
          /\ passOf[w].at = "write" => passOf[w].owner = w)'
    BY <1>4, <2>1, <2>2 DEF Undisturbed
  <2>5. (news[r] # "none" \/ told[r] # "none" =>
          Terminal(watched[r].status) \/ \E w \in Passes : PastWalk(w, r))'
    BY <1>4, <1>5, <2>1 DEF Undisturbed
  <2> QED
    BY <2>1, <2>2, <2>3, <2>4, <2>5 DEF Undisturbed
<1>8. OwnersHold'
  BY <1>7 DEF OwnersHold
<1> QED
  BY <1>3, <1>6, <1>8 DEF WatchInvariant

\* A step by which a pass ends, or yields, and writes its run.
LEMMA PassEnds ==
    ASSUME WatchInvariant, NEW v \in Passes, passOf[v] # NoPass,
           NEW d \in RunRecords, NEW to \in PassRecords,
           to = NoPass \/ to.at = "yielded", passOf[v].at # "yielded",
           watched' = [watched EXCEPT ![passOf[v].run] = d],
           passOf' = [passOf EXCEPT ![v] = to],
           passOf[v].run \notin disturbed' =>
               /\ d.owner = "none" /\ ~d.lapsed
               /\ passOf[v].at = "walk" \/ Terminal(d.status),
           Terminal(d.status) => passOf[v].at \in {"reread", "final", "write"},
           disturbed \subseteq disturbed',
           UNCHANGED <<watcher, news, told, ender, unheard>>
    PROVE  WatchInvariant'
<1> PICK q : q = passOf[v].run
  OBVIOUS
<1>1. WatchTypes /\ EndsAreAnnounced /\ OwnersHold
  BY DEF WatchInvariant
<1>2. q \in WatchedRuns /\ Drives(v, q)
  BY <1>1 DEF WatchTypes, PassRecords, Drives, PassOn
<1>3. /\ watched' \in [WatchedRuns -> RunRecords] /\ watched'[q] = d
      /\ \A r \in WatchedRuns : r # q => watched'[r] = watched[r]
  BY <1>1, <1>2 DEF WatchTypes
<1>4. /\ passOf' \in [Passes -> PassRecords] /\ passOf'[v] = to
      /\ \A w \in Passes : w # v => passOf'[w] = passOf[w]
  BY <1>1 DEF WatchTypes
<1>5. WatchTypes'
  BY <1>1, <1>3, <1>4 DEF WatchTypes
<1>6. \A w \in Passes, r \in WatchedRuns :
         /\ Drives(w, r)' => Drives(w, r) /\ w # v
         /\ PastWalk(w, r)' => PastWalk(w, r)
  BY <1>4 DEF Drives, PassOn, PastWalk
<1>7. EndsAreAnnounced'
  <2>1. \A r \in WatchedRuns : Announced(r) <=> Announced(r)'
    BY DEF Announced
  <2>2. Terminal(d.status) => Announced(q)
    BY <1>1, <1>2 DEF EndsAreAnnounced, PastWalk, Drives
  <2>3. \A r \in WatchedRuns : Terminal(watched'[r].status) => Announced(r)' \/ ender'[r] # "none"
    BY <1>1, <1>3, <2>1, <2>2 DEF EndsAreAnnounced
  <2>4. \A w \in Passes, r \in WatchedRuns : PastWalk(w, r)' => Announced(r)'
    BY <1>1, <1>6, <2>1 DEF EndsAreAnnounced
  <2> QED
    BY <2>3, <2>4 DEF EndsAreAnnounced, Terminal
<1>8. ASSUME NEW r \in WatchedRuns, r \notin disturbed' PROVE Undisturbed(r)'
  <2>1. CASE r # q
    <3>1. ~Drives(v, r) /\ ~Drives(v, r)'
      BY <1>4, <2>1 DEF Drives, PassOn
    <3> QED
      BY <1>2, <1>3, <1>4, <1>8, <2>1, <3>1, OthersKeep
  <2>2. CASE r = q
    <3>1. Undisturbed(q)
      BY <1>1, <1>8, <2>2 DEF OwnersHold
    <3>2. \A w \in Passes : Drives(w, q) => w = v
      BY <1>2, <3>1 DEF Undisturbed
    <3>3. \A w \in Passes : ~Drives(w, q)'
      <4>1. ASSUME NEW w \in Passes, Drives(w, q)' PROVE FALSE
        <5>1. Drives(w, q) /\ w # v
          BY <1>2, <1>6, <4>1
        <5> QED
          BY <3>2, <5>1
      <4> QED
        BY <4>1
    <3>4. watched'[q].owner = "none" /\ ~watched'[q].lapsed
      BY <1>3, <1>8, <2>2
    <3>5. Terminal(d.status) \/ (news[q] = "none" /\ told[q] = "none")
      <4>1. SUFFICES ASSUME passOf[v].at = "walk" PROVE news[q] = "none" /\ told[q] = "none"
        BY <1>8, <2>2
      <4>2. watched[q].status = "running"
        BY <1>2, <3>1 DEF Undisturbed
      <4>3. \A w \in Passes : ~PastWalk(w, q)
        BY <3>2, <4>1 DEF PastWalk, Drives
      <4> QED
        BY <3>1, <4>2, <4>3 DEF Undisturbed, Terminal
    <3>6. (news[q] # "none" \/ told[q] # "none" =>
            Terminal(watched[q].status) \/ \E w \in Passes : PastWalk(w, q))'
      BY <1>3, <3>5
    <3> QED
      BY <2>2, <3>1, <3>3, <3>4, <3>6 DEF Undisturbed
  <2> QED
    BY <2>1, <2>2
<1>9. OwnersHold'
  BY <1>8 DEF OwnersHold
<1> QED
  BY <1>5, <1>7, <1>9 DEF WatchInvariant

LEMMA CheckpointStepKeeps ==
    ASSUME WatchInvariant, NEW v \in Passes, CheckpointStep(v)
    PROVE  WatchInvariant'
<1> PICK q : q = passOf[v].run
  OBVIOUS
<1> DEFINE d == [watched[q] EXCEPT !.resumable = TRUE]
<1>1. /\ passOf[v].at = "walk" /\ watched' = [watched EXCEPT ![q] = d]
      /\ UNCHANGED <<passOf, watcher, news, told, ender, lost, unheard, disturbed>>
  BY DEF CheckpointStep
<1>2. q \in WatchedRuns /\ watched[q] \in RunRecords
  BY <1>1 DEF WatchInvariant, WatchTypes, PassRecords, NoPass
<1>3. d \in RunRecords /\ d.owner = watched[q].owner /\ d.lapsed = watched[q].lapsed
      /\ d.status = watched[q].status
  BY <1>2 DEF RunRecords
<1> HIDE DEF d
<1> QED
  BY <1>1, <1>2, <1>3, RecordMoves

LEMMA LeaseIsGoneKeeps ==
    ASSUME WatchInvariant, NEW v \in Passes, LeaseIsGone(v)
    PROVE  WatchInvariant'
<1> PICK q : q = passOf[v].run
  OBVIOUS
<1>1. /\ passOf[v] # NoPass /\ watched[q].owner # v
      /\ passOf' = [passOf EXCEPT ![v] = NoPass]
      /\ UNCHANGED <<watched, watcher, news, told, ender, lost, unheard, disturbed>>
  BY DEF LeaseIsGone, Leased
<1>2. q \in WatchedRuns /\ OwnersHold
  BY <1>1 DEF WatchInvariant, WatchTypes, PassRecords
<1>3. passOf[v].at = "yielded" \/ q \in disturbed
  BY <1>1, <1>2 DEF OwnersHold, Undisturbed, Drives, PassOn
<1> QED
  BY <1>1, <1>3, PassLeaves

LEMMA YieldRunKeeps ==
    ASSUME WatchInvariant, NEW v \in Passes, YieldRun(v)
    PROVE  WatchInvariant'
<1> PICK q : q = passOf[v].run
  OBVIOUS
<1> DEFINE d == [status |-> "pending", owner |-> "none", lapsed |-> FALSE, resumable |-> TRUE]
<1>1. /\ passOf[v].at = "walk" /\ watched' = [watched EXCEPT ![q] = d] /\ GoesTo(v, "yielded")
      /\ UNCHANGED <<watcher, news, told, ender, unheard, disturbed>>
  BY DEF YieldRun
<1>2. passOf[v] \in [at : {"walk", "yielded", "reread", "final"}, run : WatchedRuns, failed : BOOLEAN]
      /\ passOf[v] # NoPass
  BY <1>1 DEF WatchInvariant, WatchTypes, PassRecords, NoPass
<1>3. d \in RunRecords /\ d.owner = "none" /\ ~d.lapsed /\ ~Terminal(d.status)
  BY DEF RunRecords, Terminal
<1>4. PICK b \in BOOLEAN : passOf' = [passOf EXCEPT ![v] = [at |-> "yielded", run |-> q, failed |-> b]]
  BY <1>1, <1>2 DEF GoesTo
<1> DEFINE to == [at |-> "yielded", run |-> q, failed |-> b]
<1>5. to \in PassRecords /\ to.at = "yielded"
  BY <1>2 DEF PassRecords
<1> HIDE DEF d, to
<1> QED
  BY <1>1, <1>2, <1>3, <1>4, <1>5, PassEnds DEF to

\* What ReleaseLease leaves is a record of the same status.
LEMMA ReleaseKeepsRecord ==
    ASSUME NEW d \in RunRecords, NEW w \in Passes
    PROVE  /\ Released(d, w) \in RunRecords /\ Released(d, w).status = d.status
           /\ d.owner = w => Released(d, w).owner = "none" /\ ~Released(d, w).lapsed
<1>1. CASE d.owner = w
  BY <1>1 DEF Released, RunRecords
<1>2. CASE d.owner # w
  BY <1>2 DEF Released
<1> QED
  BY <1>1, <1>2

LEMMA WriteEndKeeps ==
    ASSUME WatchInvariant, NEW v \in Passes, WriteEnd(v)
    PROVE  WatchInvariant'
<1> PICK p : p = passOf[v]
  OBVIOUS
<1> DEFINE e == [status |-> IF p.failed THEN "error" ELSE "success",
                 owner |-> p.owner, lapsed |-> p.lapsed, resumable |-> FALSE]
<1> DEFINE d == Released(e, v)
<1>1. /\ passOf[v].at = "write" /\ watched' = [watched EXCEPT ![p.run] = d]
      /\ passOf' = [passOf EXCEPT ![v] = NoPass]
      /\ UNCHANGED <<watcher, news, told, ender, unheard, disturbed>>
  BY DEF WriteEnd
<1>2. p \in [at : {"write"}, run : WatchedRuns, failed : BOOLEAN,
              owner : Passes \cup {"none"}, lapsed : BOOLEAN]
      /\ p # NoPass /\ OwnersHold
  BY <1>1 DEF WatchInvariant, WatchTypes, PassRecords, NoPass
<1>3. e \in RunRecords /\ e.status \in {"error", "success"} /\ e.owner = p.owner
  BY <1>2 DEF RunRecords
<1> HIDE DEF e
<1>4. /\ d \in RunRecords /\ d.status = e.status
      /\ e.owner = v => d.owner = "none" /\ ~d.lapsed
  BY <1>3, ReleaseKeepsRecord
<1>5. Terminal(d.status)
  BY <1>3, <1>4 DEF Terminal
<1>6. p.run \notin disturbed => p.owner = v
  BY <1>1, <1>2 DEF OwnersHold, Undisturbed, Drives, PassOn
<1>7. NoPass \in PassRecords
  BY DEF PassRecords
<1> HIDE DEF d
<1> QED
  BY <1>1, <1>2, <1>3, <1>4, <1>5, <1>6, <1>7, PassEnds

LEMMA EndIsNotWrittenKeeps ==
    ASSUME WatchInvariant, NEW v \in Passes, EndIsNotWritten(v)
    PROVE  WatchInvariant'
<1> PICK q : q = passOf[v].run
  OBVIOUS
<1> DEFINE d == Released(watched[q], v)
<1>1. /\ passOf[v].at \in {"final", "write"} /\ watched' = [watched EXCEPT ![q] = Released(@, v)]
      /\ passOf' = [passOf EXCEPT ![v] = NoPass]
      /\ disturbed' = disturbed \cup {q}
      /\ UNCHANGED <<watcher, news, told, ender, unheard>>
  BY DEF EndIsNotWritten, Loses
<1>2. passOf[v] # NoPass /\ q \in WatchedRuns /\ WatchTypes
  BY <1>1 DEF WatchInvariant, WatchTypes, PassRecords, NoPass
<1>3. watched' = [watched EXCEPT ![q] = d] /\ watched[q] \in RunRecords
  BY <1>1, <1>2 DEF WatchTypes
<1>4. d \in RunRecords
  BY <1>3, ReleaseKeepsRecord
<1>5. NoPass \in PassRecords
  BY DEF PassRecords
<1> HIDE DEF d
<1> QED
  BY <1>1, <1>2, <1>3, <1>4, <1>5, PassEnds

LEMMA WorkerDiesKeeps ==
    ASSUME WatchInvariant, NEW v \in Passes, WorkerDies(v)
    PROVE  WatchInvariant'
<1> PICK q : q = passOf[v].run
  OBVIOUS
<1>1. WatchTypes /\ EndsAreAnnounced /\ OwnersHold
  BY DEF WatchInvariant
<1>2. /\ passOf[v] # NoPass
      /\ watched' = [r \in WatchedRuns |-> IF watched[r].owner = v
                                          THEN [watched[r] EXCEPT !.lapsed = TRUE] ELSE watched[r]]
      /\ passOf' = [passOf EXCEPT ![v] = NoPass]
      /\ disturbed' = disturbed \cup {q}
      /\ UNCHANGED <<watcher, news, told, ender, unheard>>
  BY DEF WorkerDies, Loses
<1>3. q \in WatchedRuns
  BY <1>1, <1>2 DEF WatchTypes, PassRecords
<1>4. \A r \in WatchedRuns : watched[r] \in RunRecords
  BY <1>1 DEF WatchTypes
<1>5. \A r \in WatchedRuns :
         /\ watched'[r] \in RunRecords
         /\ watched'[r].status = watched[r].status
         /\ watched[r].owner # v => watched'[r] = watched[r]
  BY <1>2, <1>4 DEF RunRecords
<1>6. /\ passOf' \in [Passes -> PassRecords] /\ passOf'[v] = NoPass
      /\ \A w \in Passes : w # v => passOf'[w] = passOf[w]
  BY <1>1, <1>2 DEF WatchTypes, PassRecords
<1>7. WatchTypes'
  <2>1. watched' \in [WatchedRuns -> RunRecords]
    <3>1. \A r \in WatchedRuns : watched'[r] \in RunRecords
      BY <1>5
    <3>2. watched' = [r \in WatchedRuns |-> watched'[r]]
      BY <1>2
    <3> QED
      BY <3>1, <3>2
  <2> QED
    BY <1>1, <1>2, <1>6, <2>1 DEF WatchTypes
<1>8. \A w \in Passes, r \in WatchedRuns : PastWalk(w, r)' => PastWalk(w, r)
  BY <1>6 DEF Drives, PassOn, PastWalk
<1>9. EndsAreAnnounced'
  BY <1>1, <1>2, <1>5, <1>8 DEF EndsAreAnnounced, Announced
<1>10. ASSUME NEW r \in WatchedRuns, r \notin disturbed' PROVE Undisturbed(r)'
  <2>1. r # q /\ r \notin disturbed
    BY <1>2, <1>10
  <2>2. Undisturbed(r)
    BY <1>1, <2>1 DEF OwnersHold
  <2>3. ~Drives(v, r) /\ ~Drives(v, r)'
    BY <1>6, <2>1 DEF Drives, PassOn
  <2>4. watched[r].owner # v
    BY <2>2, <2>3, NobodyIsNoPass DEF Undisturbed
  <2>5. watched'[r] = watched[r]
    BY <1>2, <2>4
  <2> QED
    BY <1>2, <1>3, <1>6, <2>1, <2>3, <2>5, OthersKeep
<1>11. OwnersHold'
  BY <1>10 DEF OwnersHold
<1> QED
  BY <1>7, <1>9, <1>11 DEF WatchInvariant

\* A step about one run that is, or was already, disturbed.
LEMMA DisturbedKeeps ==
    ASSUME WatchInvariant, NEW q \in WatchedRuns, NEW d \in RunRecords,
           watched' = [watched EXCEPT ![q] = d],
           Terminal(d.status) => Announced(q)' \/ ender'[q] # "none",
           q \in disturbed', disturbed \subseteq disturbed',
           DOMAIN news' = WatchedRuns, DOMAIN ender' = WatchedRuns,
           \A r \in WatchedRuns : r # q => news'[r] = news[r] /\ ender'[r] = ender[r],
           \A r \in WatchedRuns : Announced(r) => Announced(r)',
           passOf' = passOf, watcher' = watcher, told' = told
    PROVE  WatchInvariant'
<1>1. WatchTypes /\ EndsAreAnnounced /\ OwnersHold
  BY DEF WatchInvariant
<1>2. /\ watched' \in [WatchedRuns -> RunRecords] /\ watched'[q] = d
      /\ \A r \in WatchedRuns : r # q => watched'[r] = watched[r]
  BY <1>1 DEF WatchTypes
<1>3. WatchTypes'
  BY <1>1, <1>2 DEF WatchTypes
<1>4. EndsAreAnnounced'
  <2>1. ASSUME NEW r \in WatchedRuns, Terminal(watched'[r].status)
        PROVE  Announced(r)' \/ ender'[r] # "none"
    BY <1>1, <1>2, <2>1 DEF EndsAreAnnounced
  <2>2. ASSUME NEW w \in Passes, NEW r \in WatchedRuns, PastWalk(w, r)' PROVE Announced(r)'
    BY <1>1, <2>2 DEF EndsAreAnnounced, PastWalk, Drives, PassOn
  <2> QED
    BY <2>1, <2>2 DEF EndsAreAnnounced, Terminal
<1>5. ASSUME NEW r \in WatchedRuns, r \notin disturbed' PROVE Undisturbed(r)'
  <2>1. r # q /\ Undisturbed(r) /\ watched[r].owner \in Passes \cup {"none"}
    BY <1>1, <1>5 DEF OwnersHold, WatchTypes, RunRecords
  <2>2. \A w \in Passes : passOf'[w] = passOf[w]
    OBVIOUS
  <2>3. watched'[r] = watched[r] /\ news'[r] = news[r] /\ told'[r] = told[r] /\ ender'[r] = ender[r]
    BY <1>2, <2>1
  <2> QED
    BY <2>1, <2>2, <2>3, Untouched
<1>6. OwnersHold'
  BY <1>5 DEF OwnersHold
<1> QED
  BY <1>3, <1>4, <1>6 DEF WatchInvariant

LEMMA RunStepsKeep ==
    ASSUME WatchInvariant, NEW q \in WatchedRuns,
           DecideRun(q) \/ LeaseLapses(q) \/ CancelWatched(q) \/ SweepOrphan(q)
               \/ EnderPublishes(q) \/ EnderDies(q) \/ EndsSilently(q)
    PROVE  WatchInvariant'
<1>1. WatchTypes /\ EndsAreAnnounced /\ OwnersHold
  BY DEF WatchInvariant
<1>2. watched[q] \in RunRecords /\ DOMAIN watched = WatchedRuns
  BY <1>1 DEF WatchTypes
<1>3. DOMAIN news = WatchedRuns /\ DOMAIN ender = WatchedRuns
  BY <1>1 DEF WatchTypes
<1>4. CASE DecideRun(q)
  <2> DEFINE d == [watched[q] EXCEPT !.status = "running", !.owner = "none", !.lapsed = FALSE]
  <2>1. d \in RunRecords /\ d.owner = "none" /\ d.lapsed = FALSE /\ d.status = "running"
    BY <1>2 DEF RunRecords
  <2>2. watched' = [watched EXCEPT ![q] = d] /\ watched[q].status = "pending"
        /\ UNCHANGED <<passOf, watcher, news, told, ender, unheard, disturbed>>
    BY <1>2, <1>4 DEF DecideRun, AsOf
  <2>3. q \notin disturbed => watched[q].owner = "none" /\ watched[q].lapsed = FALSE
    <3>1. watched[q].owner \in Passes \cup {"none"} /\ watched[q].lapsed \in BOOLEAN
      BY <1>2 DEF RunRecords
    <3> QED
      BY <1>1, <2>2, <3>1 DEF OwnersHold, Undisturbed
  <2> HIDE DEF d
  <2> QED
    BY <2>1, <2>2, <2>3, RecordMoves
<1>5. CASE LeaseLapses(q)
  <2> DEFINE d == [watched[q] EXCEPT !.lapsed = TRUE]
  <2>1. d \in RunRecords /\ d.status = watched[q].status
    BY <1>2 DEF RunRecords
  <2>2. watched' = [watched EXCEPT ![q] = d] /\ ~Terminal(watched[q].status)
        /\ disturbed' = disturbed \cup {q}
        /\ UNCHANGED <<passOf, watcher, news, told, ender, unheard>>
    BY <1>2, <1>5 DEF LeaseLapses, Loses
  <2>3. \A r \in WatchedRuns : Announced(r) => Announced(r)'
    BY <2>2 DEF Announced
  <2> HIDE DEF d
  <2> QED
    BY <1>3, <2>1, <2>2, <2>3, DisturbedKeeps
<1>6. CASE CancelWatched(q)
  <2> DEFINE d == CancelledRun(watched[q])
  <2>1. d \in RunRecords
    BY DEF RunRecords, CancelledRun
  <2>2. watched' = [watched EXCEPT ![q] = d] /\ ender' = [ender EXCEPT ![q] = "cancelled"]
        /\ disturbed' = disturbed \cup {q}
        /\ UNCHANGED <<passOf, watcher, news, told, unheard>>
    BY <1>2, <1>6 DEF CancelWatched
  <2>3. \A r \in WatchedRuns : Announced(r) => Announced(r)'
    BY <2>2 DEF Announced
  <2>4. DOMAIN ender' = WatchedRuns /\ ender'[q] # "none"
        /\ \A r \in WatchedRuns : r # q => ender'[r] = ender[r]
    BY <1>3, <2>2
  <2> HIDE DEF d
  <2> QED
    BY <1>3, <2>1, <2>2, <2>3, <2>4, DisturbedKeeps
<1>7. CASE SweepOrphan(q)
  <2> DEFINE d == EndedAs(watched[q], "error")
  <2>1. d \in RunRecords
    BY <1>2 DEF RunRecords, EndedAs
  <2>2. watched' = [watched EXCEPT ![q] = d] /\ ender' = [ender EXCEPT ![q] = "error"]
        /\ UNCHANGED <<passOf, watcher, news, told, unheard, disturbed>>
    BY <1>2, <1>7 DEF SweepOrphan
  <2>3. \A r \in WatchedRuns : Announced(r) => Announced(r)'
    BY <2>2 DEF Announced
  <2>4. DOMAIN ender' = WatchedRuns /\ ender'[q] # "none"
        /\ \A r \in WatchedRuns : r # q => ender'[r] = ender[r]
    BY <1>3, <2>2
  <2>5. q \in disturbed
    BY <1>1, <1>7 DEF SweepOrphan, Abandoned, OwnersHold, Undisturbed
  <2> HIDE DEF d
  <2> QED
    BY <1>3, <2>1, <2>2, <2>3, <2>4, <2>5, DisturbedKeeps
<1>8. CASE EnderPublishes(q)
  <2>1. watched' = [watched EXCEPT ![q] = watched[q]] /\ ender' = [ender EXCEPT ![q] = "none"]
        /\ UNCHANGED <<passOf, watcher, told, disturbed>>
    <3>1. [watched EXCEPT ![q] = watched[q]] = watched
      BY <1>1 DEF WatchTypes
    <3> QED
      BY <1>8, <3>1 DEF EnderPublishes
  <2>2. /\ DOMAIN news' = WatchedRuns
        /\ Announced(q)'
        /\ \A r \in WatchedRuns : Announced(r) => Announced(r)'
        /\ \A r \in WatchedRuns : r # q => news'[r] = news[r]
    BY <1>1, <1>8, Publication DEF EnderPublishes, Announces
  <2>3. DOMAIN ender' = WatchedRuns /\ \A r \in WatchedRuns : r # q => ender'[r] = ender[r]
    BY <1>3, <2>1
  <2>4. q \in disturbed
    BY <1>1, <1>8 DEF EnderPublishes, OwnersHold, Undisturbed
  <2> QED
    BY <1>2, <2>1, <2>2, <2>3, <2>4, DisturbedKeeps
<1>9. CASE EnderDies(q)
  <2>1. watched' = [watched EXCEPT ![q] = watched[q]] /\ ender' = [ender EXCEPT ![q] = "none"]
        /\ disturbed' = disturbed \cup {q} /\ unheard' = unheard \cup {q}
        /\ UNCHANGED <<passOf, watcher, news, told>>
    <3>1. [watched EXCEPT ![q] = watched[q]] = watched
      BY <1>1 DEF WatchTypes
    <3> QED
      BY <1>9, <3>1 DEF EnderDies, Loses
  <2>2. Announced(q)' /\ \A r \in WatchedRuns : Announced(r) => Announced(r)'
    BY <2>1 DEF Announced
  <2>3. DOMAIN ender' = WatchedRuns /\ \A r \in WatchedRuns : r # q => ender'[r] = ender[r]
    BY <1>3, <2>1
  <2> QED
    BY <1>2, <1>3, <2>1, <2>2, <2>3, DisturbedKeeps
<1>10. CASE EndsSilently(q)
  <2> DEFINE d == EndedAs(watched[q], "error")
  <2>1. d \in RunRecords
    BY <1>2 DEF RunRecords, EndedAs
  <2>2. watched' = [watched EXCEPT ![q] = d]
        /\ disturbed' = disturbed \cup {q} /\ unheard' = unheard \cup {q}
        /\ UNCHANGED <<passOf, watcher, news, told, ender>>
    BY <1>2, <1>10 DEF EndsSilently, Loses
  <2>3. Announced(q)' /\ \A r \in WatchedRuns : Announced(r) => Announced(r)'
    BY <2>2 DEF Announced
  <2> HIDE DEF d
  <2> QED
    BY <1>3, <2>1, <2>2, <2>3, DisturbedKeeps
<1> QED
  BY <1>4, <1>5, <1>6, <1>7, <1>8, <1>9, <1>10

\* A canvas that waits for a run that is over will be told so, or its run_done was lost or
\* never sent; who is told is told the truth, unless the run lost its worker or the write of
\* its end, was ended from outside, or was decided before the pass that yielded saw it at its
\* gate (RunWorkflowWS, RunFromCheckpoint, run_cancel).
THEOREM WatchersStayInformed == WatchSpec => []WatchersInformed
<1>1. WatchInvariant /\ [WatchNext]_watchVars => WatchInvariant'
  <2>1. ASSUME WatchInvariant, WatchNext PROVE WatchInvariant'
    <3>1. ASSUME NEW q \in WatchedRuns,
                 RunWorkflowWS(q) \/ HandleWebhook(q) \/ Subscribe(q) \/ ForwardDone(q)
                     \/ Polls(q) \/ WatcherGoes(q)
          PROVE  WatchInvariant'
      BY <2>1, <3>1, WatchersKeep
    <3>2. ASSUME NEW q \in WatchedRuns,
                 DecideRun(q) \/ LeaseLapses(q) \/ CancelWatched(q) \/ SweepOrphan(q)
                     \/ EnderPublishes(q) \/ EnderDies(q) \/ EndsSilently(q)
          PROVE  WatchInvariant'
      BY <2>1, <3>2, RunStepsKeep
    <3>3. ASSUME NEW v \in Passes, NEW q \in WatchedRuns, ClaimRun(v, q) PROVE WatchInvariant'
      BY <2>1, <3>3, ClaimRunKeeps
    <3>4. ASSUME NEW v \in Passes, StepFails(v) PROVE WatchInvariant'
      BY <2>1, <3>4, StepFailsKeeps
    <3>5. ASSUME NEW v \in Passes, CheckpointStep(v) PROVE WatchInvariant'
      BY <2>1, <3>5, CheckpointStepKeeps
    <3>6. ASSUME NEW v \in Passes, YieldRun(v) PROVE WatchInvariant'
      BY <2>1, <3>6, YieldRunKeeps
    <3>7. ASSUME NEW v \in Passes, WalkDone(v) \/ WalkReturnsError(v) PROVE WatchInvariant'
      BY <2>1, <3>7, WalkEndsKeep
    <3>8. ASSUME NEW v \in Passes, Reread(v) \/ DecisionOvertakes(v) \/ RereadFails(v)
          PROVE  WatchInvariant'
      BY <2>1, <3>8, GoesOnKeeps
    <3>9. ASSUME NEW v \in Passes, WriteEnd(v) PROVE WatchInvariant'
      BY <2>1, <3>9, WriteEndKeeps
    <3>10. ASSUME NEW v \in Passes, WorkerDies(v) PROVE WatchInvariant'
      BY <2>1, <3>10, WorkerDiesKeeps
    <3>11. ASSUME NEW v \in Passes, LeaseIsGone(v) PROVE WatchInvariant'
      BY <2>1, <3>11, LeaseIsGoneKeeps
    <3>12. ASSUME NEW v \in Passes, StaysAtGate(v) PROVE WatchInvariant'
      BY <2>1, <3>12, StaysAtGateKeeps
    <3>13. ASSUME NEW v \in Passes, ReadFinal(v) PROVE WatchInvariant'
      BY <2>1, <3>13, ReadFinalKeeps
    <3>14. ASSUME NEW v \in Passes, EndIsNotWritten(v) PROVE WatchInvariant'
      BY <2>1, <3>14, EndIsNotWrittenKeeps
    <3> QED
      BY <2>1, <3>1, <3>2, <3>3, <3>4, <3>5, <3>6, <3>7, <3>8, <3>9, <3>10, <3>11, <3>12,
         <3>13, <3>14
         DEF WatchNext
  <2>2. ASSUME WatchInvariant, UNCHANGED watchVars PROVE WatchInvariant'
    <3>1. WatchTypes /\ EndsAreAnnounced /\ OwnersHold
      BY <2>2 DEF WatchInvariant
    <3>2. WatchTypes'
      BY <2>2, <3>1 DEF watchVars, WatchTypes
    <3>3. EndsAreAnnounced'
      BY <2>2, <3>1 DEF watchVars, EndsAreAnnounced, Announced, Terminal, PastWalk, Drives, PassOn
    <3>4. OwnersHold'
      BY <2>2, <3>1 DEF watchVars, OwnersHold, Undisturbed, Terminal, PastWalk, Drives, PassOn
    <3> QED
      BY <3>2, <3>3, <3>4 DEF WatchInvariant
  <2> QED
    BY <2>1, <2>2
<1>2. WatchInvariant => WatchersInformed
  <2> SUFFICES ASSUME WatchInvariant PROVE WatchersInformed
    OBVIOUS
  <2>1. CanvasReleased
    BY DEF WatchInvariant, EndsAreAnnounced, Announced, CanvasReleased
  <2>2. ToldIsOver
    BY DEF WatchInvariant, OwnersHold, Undisturbed, PastWalk, ToldIsOver
  <2> QED
    BY <2>1, <2>2 DEF WatchersInformed
<1> QED
  BY WatchBegins, <1>1, <1>2, PTL DEF WatchSpec

-----------------------------------------------------------------------------
(***************************************************************************)
(* WorkflowDocs.  A request that is past its check knows whose document it *)
(* will write, unless another tenant came to the id since (it is a         *)
(* newcomer's then) or the check was not answered; and what it is going to *)
(* store is runnable, or a template's copy that lacks its connections, and *)
(* calls what its tenant owns or owned.                                    *)
(***************************************************************************)
RequestFields == {"op", "at", "tenant", "id", "sends", "newcomer", "misread"}
IsRequest(r) ==
    /\ DOMAIN r = RequestFields /\ r.id \in WorkflowIds /\ r.tenant \in WorkflowTenants
    /\ \/ r.op = "save" /\ r.at \in {"probe", "judge", "upsert"} /\ IsContent(r.sends)
       \/ r.op \in {"duplicate", "fork"} /\ r.at \in {"probe", "upsert"} /\ IsContent(r.sends)
       \/ r.op \in {"enable", "rename"} /\ r.at = "set"
       \/ r.op = "delete" /\ r.at = "delete"
IsDocument(d) ==
    /\ DOMAIN d = {"tenant", "draft"}
    /\ d.tenant \in WorkflowTenants /\ IsContent(d.draft)

DocsShape ==
    /\ DOMAIN doc = WorkflowIds /\ DOMAIN save = Savers
    /\ \A i \in WorkflowIds : Exists(i) => IsDocument(doc[i])
    /\ \A s \in Savers : save[s] # Idle => IsRequest(save[s])

Knows(r) ==
    r.at # "probe" /\ Exists(r.id) /\ doc[r.id].tenant # r.tenant => r.newcomer \/ r.misread
RunnableDraft(d) == d.returns <= 1 /\ d.config = "given" /\ (d.wired \/ Forked(d))
CallsOwn(d, i, t) == d.target \in {NoTarget, i} \cup moved \/ GetByIDForTenant(d.target, t)
StoresSound(r) ==
    r.op \in {"duplicate", "fork"} \/ r.at = "upsert" =>
        RunnableDraft(r.sends) /\ CallsOwn(r.sends, r.id, r.tenant)

DocsInvariant ==
    /\ DocsShape /\ strayWrites = {}
    /\ \A i \in WorkflowIds : Exists(i) =>
          RunnableDraft(doc[i].draft) /\ CallsOwn(doc[i].draft, i, doc[i].tenant)
    /\ \A s \in Savers : save[s] # Idle => Knows(save[s]) /\ StoresSound(save[s])


\* The parts of the invariant by name: a step disturbs one or two of them.
StoredRunnable ==
    \A i \in WorkflowIds : Exists(i) =>
        RunnableDraft(doc[i].draft) /\ CallsOwn(doc[i].draft, i, doc[i].tenant)
RequestsSound ==
    \A s \in Savers : save[s] # Idle => Knows(save[s]) /\ StoresSound(save[s])

LEMMA DocsParts ==
    DocsInvariant <=> DocsShape /\ strayWrites = {} /\ StoredRunnable /\ RequestsSound
BY DEF DocsInvariant, StoredRunnable, RequestsSound

LEMMA DocsBegin == DocsInit => DocsInvariant
BY DEF DocsInit, DocsInvariant, DocsShape, Exists

LEMMA RequestMade ==
    ASSUME NEW t \in WorkflowTenants, NEW i \in WorkflowIds, NEW op, NEW at, NEW sends
    PROVE  LET r == Request(t, i, op, at, sends)
           IN /\ DOMAIN r = RequestFields /\ r.op = op /\ r.at = at /\ r.tenant = t /\ r.id = i
              /\ r.sends = sends /\ ~r.newcomer /\ ~r.misread
BY DEF Request, RequestFields

\* A content under another name, switched on or off, is as sound as it was.
SameButNames(source, d) ==
    /\ DOMAIN d = ContentFields
    /\ d = [source EXCEPT !.enabled = d.enabled, !.name = d.name]

LEMMA RenamedIsSound ==
    ASSUME NEW source, NEW d, IsContent(source), SameButNames(source, d),
           NEW i \in WorkflowIds, NEW t
    PROVE  /\ IsContent(d)
           /\ RunnableDraft(source) => RunnableDraft(d)
           /\ CallsOwn(source, i, t) => CallsOwn(d, i, t)
<1>1. /\ d.target = source.target /\ d.returns = source.returns
      /\ d.wired = source.wired /\ d.config = source.config
  BY DEF SameButNames, IsContent, ContentFields
<1>2. IsContent(d)
  BY <1>1 DEF SameButNames, IsContent
<1>3. Forked(source) => Forked(d)
  <2>1. SUFFICES ASSUME NEW u \in Templates,
                        source = [u EXCEPT !.enabled = source.enabled, !.name = source.name]
                 PROVE  d = [u EXCEPT !.enabled = d.enabled, !.name = d.name]
    BY DEF Forked
  <2>2. DOMAIN u = ContentFields
    BY TemplatesAsShipped DEF IsContent
  <2> QED
    BY <2>1, <2>2 DEF SameButNames, ContentFields
<1> QED
  BY <1>1, <1>2, <1>3 DEF RunnableDraft, CallsOwn

\* A request that only moves on by itself.
LEMMA RequestMovesOn ==
    ASSUME DocsInvariant, NEW s \in Savers, NEW to,
           save' = [save EXCEPT ![s] = to],
           to = Idle \/ (IsRequest(to) /\ Knows(to) /\ StoresSound(to)),
           UNCHANGED <<doc, moved, strayWrites>>
    PROVE  DocsInvariant'
<1>1. DocsShape /\ strayWrites = {} /\ StoredRunnable /\ RequestsSound
  BY DocsParts
<1>2. /\ DOMAIN save' = Savers /\ save'[s] = to
      /\ \A q \in Savers : q # s => save'[q] = save[q]
  BY <1>1 DEF DocsShape
<1>3. DocsShape'
  BY <1>1, <1>2 DEF DocsShape, Exists
<1>4. StoredRunnable'
  BY <1>1 DEF StoredRunnable, Exists, CallsOwn, GetByIDForTenant
<1>5. ASSUME NEW q \in Savers, NEW r, r = save'[q], r # Idle
      PROVE  Knows(r)' /\ StoresSound(r)'
  <2>1. Knows(r) /\ StoresSound(r)
    BY <1>1, <1>2, <1>5 DEF RequestsSound
  <2> QED
    BY <2>1 DEF Knows, StoresSound, CallsOwn, GetByIDForTenant, Exists
<1>6. RequestsSound'
  BY <1>5 DEF RequestsSound
<1> QED
  BY <1>1, <1>3, <1>4, <1>6 DEF DocsInvariant, StoredRunnable, RequestsSound

\* The reads, probes and judgements: everything but the writes.
LEMMA ReadsKeep ==
    ASSUME DocsInvariant, NEW s \in Savers,
           \/ \E t \in WorkflowTenants, i \in WorkflowIds :
                 \/ \E draft \in Drafts : UpsertWorkflow(s, t, i, draft)
                 \/ \E new \in WorkflowIds, name \in DocNames : DuplicateWorkflow(s, t, i, new, name)
                 \/ \E on \in BOOLEAN : PatchWorkflowEnabled(s, t, i, on)
                 \/ \E name \in DocNames :
                       \/ PatchWorkflowName(s, t, i, name)
                       \/ \E template \in Templates :
                             ForkWorkflowTemplate(s, t, i, template, name)
                 \/ DeleteWorkflow(s, t, i)
           \/ ProbeForeign(s) \/ ProbeFails(s) \/ ProbeNewId(s) \/ JudgeDraft(s)
    PROVE  DocsInvariant'
<1>1. DocsShape /\ StoredRunnable /\ RequestsSound
  BY DocsParts
<1>2. UNCHANGED <<doc, moved, strayWrites>>
  BY DEF UpsertWorkflow, DuplicateWorkflow, ForkWorkflowTemplate, PatchWorkflowEnabled,
         PatchWorkflowName, DeleteWorkflow, ProbeForeign, ProbeFails, ProbeNewId, JudgeDraft
<1> DEFINE Fit(to) == to = Idle \/ (IsRequest(to) /\ Knows(to) /\ StoresSound(to))
<1>3. save[s] # Idle => IsRequest(save[s]) /\ Knows(save[s]) /\ StoresSound(save[s])
  BY <1>1 DEF DocsShape, RequestsSound
<1>4. SUFFICES \E to : save' = [save EXCEPT ![s] = to] /\ Fit(to)
  BY <1>2, RequestMovesOn
<1>5. ASSUME NEW t \in WorkflowTenants, NEW i \in WorkflowIds, NEW draft \in Drafts,
             UpsertWorkflow(s, t, i, draft)
      PROVE  \E to : save' = [save EXCEPT ![s] = to] /\ Fit(to)
  <2>1. PICK at \in {"judge", "probe"} :
           /\ at = "judge" => GetByIDForTenant(i, t)
           /\ save' = [save EXCEPT ![s] = Request(t, i, "save", at, draft)]
    BY <1>5 DEF UpsertWorkflow, Asks
  <2>2. IsContent(draft)
    BY DraftsAreContents
  <2>3. IsRequest(Request(t, i, "save", at, draft))
    BY <2>2, RequestMade DEF IsRequest
  <2>4. Knows(Request(t, i, "save", at, draft)) /\ StoresSound(Request(t, i, "save", at, draft))
    BY <2>1, RequestMade DEF Knows, StoresSound, GetByIDForTenant
  <2> QED
    BY <2>1, <2>3, <2>4
<1>6. ASSUME NEW t \in WorkflowTenants, NEW i \in WorkflowIds, NEW new \in WorkflowIds,
             NEW name \in DocNames, DuplicateWorkflow(s, t, i, new, name)
      PROVE  \E to : save' = [save EXCEPT ![s] = to] /\ Fit(to)
  <2> DEFINE source == doc[i].draft
  <2> DEFINE d == [source EXCEPT !.name = name]
  <2> DEFINE to == Request(t, new, "duplicate", "probe", d)
  <2>1. Exists(i) /\ doc[i].tenant = t /\ save' = [save EXCEPT ![s] = to]
    BY <1>6 DEF DuplicateWorkflow, Asks, GetByIDForTenant
  <2>a. IsContent(source) /\ RunnableDraft(source) /\ CallsOwn(source, i, t)
    BY <1>1, <2>1 DEF DocsShape, IsDocument, StoredRunnable
  <2> HIDE DEF source
  <2>b. SameButNames(source, d)
    BY <2>a DEF SameButNames, IsContent, ContentFields
  <2> HIDE DEF d
  <2>2. IsContent(d) /\ RunnableDraft(d) /\ CallsOwn(d, i, t)
    BY <2>a, <2>b, RenamedIsSound
  <2>3. CallsOwn(d, new, t)
    BY <2>1, <2>2 DEF CallsOwn, GetByIDForTenant
  <2>4. IsRequest(to)
    BY <2>2, RequestMade DEF IsRequest
  <2>5. Knows(to) /\ StoresSound(to)
    BY <2>2, <2>3, RequestMade DEF Knows, StoresSound
  <2> QED
    BY <2>1, <2>4, <2>5
<1>7. ASSUME NEW t \in WorkflowTenants, NEW i \in WorkflowIds,
             \/ \E on \in BOOLEAN : PatchWorkflowEnabled(s, t, i, on)
             \/ \E name \in DocNames : PatchWorkflowName(s, t, i, name)
             \/ DeleteWorkflow(s, t, i)
      PROVE  \E to : save' = [save EXCEPT ![s] = to] /\ Fit(to)
  <2>1. PICK op, at, sends :
           /\ save' = [save EXCEPT ![s] = Request(t, i, op, at, sends)]
           /\ \/ op \in {"enable", "rename"} /\ at = "set"
              \/ op = "delete" /\ at = "delete"
    BY <1>7 DEF PatchWorkflowEnabled, PatchWorkflowName, DeleteWorkflow, Asks
  <2>2. doc[i].tenant = t
    BY <1>7 DEF PatchWorkflowEnabled, PatchWorkflowName, DeleteWorkflow, GetByIDForTenant
  <2>3. IsRequest(Request(t, i, op, at, sends))
    BY <2>1, RequestMade DEF IsRequest
  <2>4. Knows(Request(t, i, op, at, sends)) /\ StoresSound(Request(t, i, op, at, sends))
    BY <2>1, <2>2, RequestMade DEF Knows, StoresSound
  <2> QED
    BY <2>1, <2>3, <2>4
<1>9. ASSUME NEW t \in WorkflowTenants, NEW new \in WorkflowIds, NEW template \in Templates,
             NEW name \in DocNames, ForkWorkflowTemplate(s, t, new, template, name)
      PROVE  \E to : save' = [save EXCEPT ![s] = to] /\ Fit(to)
  <2> DEFINE d == [template EXCEPT !.enabled = TRUE, !.name = name]
  <2> DEFINE to == Request(t, new, "fork", "probe", d)
  <2>1. save' = [save EXCEPT ![s] = to]
    BY <1>9 DEF ForkWorkflowTemplate, Asks
  <2>2. /\ IsContent(template) /\ template.returns = 0
        /\ template.config = "given" /\ template.target = NoTarget
    BY TemplatesAsShipped
  <2>3. /\ IsContent(d) /\ d.returns = 0 /\ d.config = "given" /\ d.target = NoTarget
        /\ d = [template EXCEPT !.enabled = d.enabled, !.name = d.name]
    BY <2>2 DEF IsContent, ContentFields
  <2> HIDE DEF d
  <2>a. Forked(d)
    BY <2>3 DEF Forked
  <2>4. RunnableDraft(d) /\ CallsOwn(d, new, t)
    BY <2>3, <2>a DEF RunnableDraft, CallsOwn
  <2>5. IsRequest(to)
    BY <2>3, RequestMade DEF IsRequest
  <2>6. Knows(to) /\ StoresSound(to)
    BY <2>4, RequestMade DEF Knows, StoresSound
  <2> QED
    BY <2>1, <2>5, <2>6
<1>8. ASSUME ProbeForeign(s) \/ ProbeFails(s) \/ ProbeNewId(s) \/ JudgeDraft(s)
      PROVE  \E to : save' = [save EXCEPT ![s] = to] /\ Fit(to)
  <2>1. save[s] # Idle
    BY <1>8 DEF ProbeForeign, ProbeFails, ProbeNewId, JudgeDraft, Stands
  <2>2. IsRequest(save[s]) /\ StoresSound(save[s])
    BY <1>3, <2>1
  <2>3. CASE save' = [save EXCEPT ![s] = Idle]
    BY <2>3
  <2>4. CASE ProbeForeign(s) /\ ~Taken(save[s].id)
    <3> DEFINE to == [save[s] EXCEPT !.at = "judge"]
    <3>1. save[s].at = "probe" /\ save[s].op = "save" /\ ~Exists(save[s].id)
          /\ save' = [save EXCEPT ![s] = to]
      BY <2>4 DEF ProbeForeign, Stands, GoesOn, Taken
    <3>2. IsRequest(to)
      BY <2>2, <3>1 DEF IsRequest, RequestFields
    <3>3. Knows(to) /\ StoresSound(to)
      BY <2>2, <3>1 DEF IsRequest, RequestFields, Knows, StoresSound
    <3> QED
      BY <3>1, <3>2, <3>3
  <2>5. CASE ProbeFails(s) /\ save[s].op = "save"
    <3> DEFINE to == [save[s] EXCEPT !.at = "judge", !.misread = TRUE]
    <3>1. save[s].at = "probe" /\ save' = [save EXCEPT ![s].at = "judge", ![s].misread = TRUE]
      BY <2>5 DEF ProbeFails, Stands
    <3>2. save' = [save EXCEPT ![s] = to]
      BY <1>1, <3>1 DEF DocsShape
    <3>3. IsRequest(to)
      BY <2>2, <2>5 DEF IsRequest, RequestFields
    <3>4. Knows(to) /\ StoresSound(to)
      BY <2>2, <2>5 DEF IsRequest, RequestFields, Knows, StoresSound
    <3> QED
      BY <3>2, <3>3, <3>4
  <2>6. CASE ProbeNewId(s) /\ ~Taken(save[s].id)
    <3> DEFINE to == [save[s] EXCEPT !.at = "upsert"]
    <3>1. save[s].at = "probe" /\ save[s].op \in {"duplicate", "fork"} /\ ~Exists(save[s].id)
          /\ save' = [save EXCEPT ![s] = to]
      BY <2>6 DEF ProbeNewId, Stands, GoesOn, Taken
    <3>2. IsRequest(to)
      BY <2>2, <3>1 DEF IsRequest, RequestFields
    <3>3. Knows(to) /\ StoresSound(to)
      BY <2>2, <3>1 DEF IsRequest, RequestFields, Knows, StoresSound
    <3> QED
      BY <3>1, <3>2, <3>3
  <2>7. CASE JudgeDraft(s) /\ DraftValid(save[s].sends) /\ OwnTarget(save[s])
    <3> DEFINE d == save[s].sends
    <3> DEFINE to == [save[s] EXCEPT !.at = "upsert", !.sends = Backfilled(d)]
    <3>1. save[s].at = "judge" /\ save' = [save EXCEPT ![s].at = "upsert", ![s].sends = Backfilled(@)]
      BY <2>7 DEF JudgeDraft, Stands
    <3>2. save' = [save EXCEPT ![s] = to]
      BY <1>1, <2>2, <3>1 DEF DocsShape, IsRequest, RequestFields
    <3>3. save[s].op = "save" /\ IsContent(d)
      BY <2>2, <3>1 DEF IsRequest
    <3>4. IsContent(Backfilled(d)) /\ RunnableDraft(Backfilled(d)) /\ Backfilled(d).target = d.target
      BY <2>7, <3>3 DEF IsContent, ContentFields, Backfilled, RunnableDraft, DraftValid
    <3>5. CallsOwn(Backfilled(d), save[s].id, save[s].tenant)
      BY <2>7, <3>4 DEF OwnTarget, CallsOwn
    <3>6. /\ to.op = "save" /\ to.at = "upsert" /\ to.sends = Backfilled(d)
          /\ to.id = save[s].id /\ to.tenant = save[s].tenant
          /\ to.newcomer = save[s].newcomer /\ to.misread = save[s].misread
          /\ DOMAIN to = RequestFields
      BY <2>2, <3>3 DEF IsRequest, RequestFields
    <3> HIDE DEF to
    <3>7. IsRequest(to)
      BY <2>2, <3>4, <3>6 DEF IsRequest
    <3>8. Knows(to)
      BY <1>3, <2>1, <3>1, <3>6 DEF Knows
    <3>9. StoresSound(to)
      BY <3>4, <3>5, <3>6 DEF StoresSound
    <3> QED
      BY <3>2, <3>7, <3>8, <3>9
  <2> QED
    BY <1>8, <2>3, <2>4, <2>5, <2>6, <2>7
       DEF ProbeForeign, ProbeFails, ProbeNewId, JudgeDraft, Ends
<1> HIDE DEF Fit
<1> QED
  BY <1>5, <1>6, <1>7, <1>8, <1>9

\* What each write does to document i: d is what it leaves there.
Writes(i, d) ==
    /\ doc' = [doc EXCEPT ![i] = d]
    /\ d = NoDoc \/ (IsDocument(d) /\ RunnableDraft(d.draft) /\ CallsOwn(d.draft, i, d.tenant))
    /\ moved \subseteq moved'
    /\ Exists(i) /\ (d = NoDoc \/ d.tenant # doc[i].tenant) => i \in moved'
    /\ strayWrites' = {} /\ DOMAIN save' = Savers
    /\ \A q \in Savers :
          \/ save'[q] = Idle
          \/ /\ save[q] # Idle /\ save'[q] = save[q]
             /\ d # NoDoc /\ save[q].id = i /\ save[q].tenant # d.tenant =>
                   Exists(i) /\ doc[i].tenant = d.tenant
          \/ save[q] # Idle /\ save'[q] = [save[q] EXCEPT !.newcomer = TRUE]

\* A write of one document.  Requests that meant this id either know its tenant
\* or are marked; what called it either still does or sees that it moved.
LEMMA WriteKeeps ==
    ASSUME DocsInvariant, NEW i \in WorkflowIds, NEW d, Writes(i, d)
    PROVE  DocsInvariant'
<1>1. DocsShape /\ StoredRunnable /\ RequestsSound
  BY DocsParts
<1> USE DEF Writes
<1>2. doc'[i] = d /\ \A j \in WorkflowIds : j # i => doc'[j] = doc[j]
  BY <1>1 DEF DocsShape
<1>3. ASSUME NEW q \in Savers, NEW r, r = save'[q], r # Idle
      PROVE  /\ save[q] # Idle
             /\ r.op = save[q].op /\ r.at = save[q].at /\ r.id = save[q].id
             /\ r.tenant = save[q].tenant /\ r.sends = save[q].sends /\ r.misread = save[q].misread
             /\ DOMAIN r = RequestFields
             /\ r.newcomer \/ r = save[q]
  <2>1. save[q] # Idle /\ (r = save[q] \/ r = [save[q] EXCEPT !.newcomer = TRUE])
    BY <1>3
  <2>2. DOMAIN save[q] = RequestFields
    BY <1>1, <2>1 DEF DocsShape, IsRequest
  <2> QED
    BY <2>1, <2>2 DEF RequestFields
<1>4. DocsShape'
  <2>1. \A j \in WorkflowIds : doc'[j] # NoDoc => IsDocument(doc'[j])
    BY <1>1, <1>2 DEF DocsShape, Exists
  <2>2. ASSUME NEW q \in Savers, NEW r, r = save'[q], r # Idle PROVE IsRequest(r)
    <3>1. IsRequest(save[q])
      BY <1>1, <1>3, <2>2 DEF DocsShape
    <3> QED
      BY <1>3, <2>2, <3>1 DEF IsRequest
  <2>3. \A q \in Savers : save'[q] # Idle => IsRequest(save'[q])
    BY <2>2
  <2>4. DOMAIN doc' = WorkflowIds
    BY <1>1 DEF DocsShape
  <2> QED
    BY <2>1, <2>3, <2>4 DEF DocsShape, Exists
<1>5. ASSUME NEW draft, IsContent(draft), NEW j \in WorkflowIds, NEW t, CallsOwn(draft, j, t)
      PROVE  CallsOwn(draft, j, t)'
  <2>1. CASE draft.target \in {NoTarget, j} \cup moved
    BY <2>1 DEF CallsOwn
  <2>2. CASE draft.target \notin {NoTarget, j} \cup moved
    <3>1. draft.target \in WorkflowIds /\ Exists(draft.target) /\ doc[draft.target].tenant = t
      BY <1>5, <2>2 DEF CallsOwn, IsContent, GetByIDForTenant
    <3>2. CASE draft.target = i /\ draft.target \notin moved'
      <4>1. d # NoDoc /\ d.tenant = t
        BY <3>1, <3>2
      <4> QED
        BY <1>2, <3>2, <4>1 DEF CallsOwn, GetByIDForTenant, Exists
    <3>3. CASE draft.target # i
      BY <1>2, <3>1, <3>3 DEF CallsOwn, GetByIDForTenant, Exists
    <3>4. CASE draft.target \in moved'
      BY <3>4 DEF CallsOwn
    <3> QED
      BY <3>2, <3>3, <3>4
  <2> QED
    BY <2>1, <2>2
<1>6. StoredRunnable'
  <2>1. ASSUME NEW j \in WorkflowIds, NEW e, e = doc'[j], e # NoDoc
        PROVE  RunnableDraft(e.draft) /\ CallsOwn(e.draft, j, e.tenant)'
    <3>1. CASE j = i
      BY <1>2, <1>5, <2>1, <3>1 DEF IsDocument
    <3>2. CASE j # i
      <4>1. e = doc[j] /\ Exists(j)
        BY <1>2, <2>1, <3>2 DEF Exists
      <4>2. IsContent(e.draft) /\ RunnableDraft(e.draft) /\ CallsOwn(e.draft, j, e.tenant)
        BY <1>1, <4>1 DEF DocsShape, IsDocument, StoredRunnable
      <4> QED
        BY <1>5, <4>2
    <3> QED
      BY <3>1, <3>2
  <2> QED
    BY <2>1 DEF StoredRunnable, Exists, RunnableDraft, Forked
<1>7. ASSUME NEW q \in Savers, NEW r, r = save'[q], r # Idle
      PROVE  Knows(r)' /\ StoresSound(r)'
  <2>1. Knows(save[q]) /\ StoresSound(save[q]) /\ IsRequest(save[q])
    BY <1>1, <1>3, <1>7 DEF RequestsSound, DocsShape
  <2>2. Knows(r)'
    <3>1. SUFFICES ASSUME r.at # "probe", doc'[r.id] # NoDoc, doc'[r.id].tenant # r.tenant
                   PROVE  r.newcomer \/ r.misread
      BY DEF Knows, Exists
    <3>2. CASE r = save[q] /\ ~r.newcomer
      <4>1. r.id \in WorkflowIds
        BY <2>1, <3>2 DEF IsRequest
      <4>2. CASE r.id # i
        BY <1>2, <2>1, <3>1, <3>2, <4>1, <4>2 DEF Knows, Exists
      <4>3. CASE r.id = i
        <5>1. d # NoDoc /\ d.tenant # r.tenant
          BY <1>2, <3>1, <4>3
        <5>2. save'[q] = save[q] \/ r.newcomer
          BY <1>7, <3>2
        <5>3. Exists(i) /\ doc[i].tenant = d.tenant
          <6>1. r # [save[q] EXCEPT !.newcomer = TRUE]
            BY <2>1, <3>2 DEF IsRequest, RequestFields
          <6> QED
            BY <1>7, <3>2, <4>3, <5>1, <6>1
        <5> QED
          BY <2>1, <3>1, <3>2, <4>3, <5>1, <5>3 DEF Knows
      <4> QED
        BY <4>2, <4>3
    <3> QED
      BY <1>3, <1>7, <3>2
  <2>3. StoresSound(r)'
    <3>1. SUFFICES ASSUME r.op \in {"duplicate", "fork"} \/ r.at = "upsert"
                   PROVE  RunnableDraft(r.sends) /\ CallsOwn(r.sends, r.id, r.tenant)'
      BY DEF StoresSound, RunnableDraft, Forked
    <3>2. RunnableDraft(r.sends) /\ CallsOwn(r.sends, r.id, r.tenant)
      BY <1>3, <1>7, <2>1, <3>1 DEF StoresSound
    <3>3. r.id \in WorkflowIds /\ IsContent(r.sends)
      BY <1>3, <1>7, <2>1, <3>1 DEF IsRequest
    <3> QED
      BY <1>5, <3>2, <3>3
  <2> QED
    BY <2>2, <2>3
<1>8. RequestsSound'
  BY <1>7 DEF RequestsSound
<1> QED
  BY <1>4, <1>6, <1>8 DEF DocsInvariant, StoredRunnable, RequestsSound

\* A request writes where it may: nothing strays.
LEMMA NothingStrays ==
    ASSUME DocsInvariant, NEW s \in Savers, save[s] # Idle, save[s].at # "probe", Strays(s)
    PROVE  strayWrites' = {}
BY DEF DocsInvariant, Knows, Strays

LEMMA UpsertKeeps ==
    ASSUME DocsInvariant, NEW s \in Savers, Upsert(s)
    PROVE  DocsInvariant'
<1> DEFINE r == save[s]
<1> DEFINE d == [tenant |-> r.tenant, draft |-> r.sends]
<1>1. DocsShape /\ StoredRunnable /\ RequestsSound
  BY DocsParts
<1>2. /\ r # Idle /\ r.at = "upsert" /\ doc' = [doc EXCEPT ![r.id] = d]
      /\ IF GetByIDForTenant(r.id, r.tenant) THEN Ends(s) ELSE Arrives(s, r.id, r.tenant)
      /\ moved' = IF Overwrites(s) THEN moved \cup {r.id} ELSE moved
      /\ Strays(s)
  BY DEF Upsert, Stands
<1>3. IsRequest(r) /\ IsContent(r.sends)
  BY <1>1, <1>2 DEF DocsShape, IsRequest
<1>4. r.id \in WorkflowIds /\ RunnableDraft(r.sends) /\ CallsOwn(r.sends, r.id, r.tenant)
  BY <1>1, <1>2, <1>3 DEF RequestsSound, StoresSound, IsRequest
<1>5. d.tenant = r.tenant /\ d.draft = r.sends /\ IsDocument(d)
  BY <1>3 DEF IsDocument, IsRequest
<1>6. PICK i : i = r.id
  OBVIOUS
<1>7. PICK t : t = r.tenant
  OBVIOUS
<1>8. strayWrites' = {}
  BY <1>2, NothingStrays
<1>9. /\ moved \subseteq moved'
      /\ Exists(i) /\ t # doc[i].tenant => i \in moved'
  BY <1>2, <1>6, <1>7 DEF Overwrites
<1>10. /\ DOMAIN save' = Savers
       /\ \A q \in Savers :
            \/ save'[q] = Idle
            \/ /\ save[q] # Idle /\ save'[q] = save[q]
               /\ save[q].id = i /\ save[q].tenant # t => Exists(i) /\ doc[i].tenant = t
            \/ save[q] # Idle /\ save'[q] = [save[q] EXCEPT !.newcomer = TRUE]
  <2>1. CASE GetByIDForTenant(i, t)
    <3>1. save' = [save EXCEPT ![s] = Idle]
      BY <1>2, <1>6, <1>7, <2>1 DEF Ends
    <3> QED
      BY <1>1, <2>1, <3>1 DEF DocsShape, GetByIDForTenant
  <2>2. CASE ~GetByIDForTenant(i, t)
    <3>1. save' = [q \in Savers |->
               IF q = s THEN Idle
               ELSE IF save[q] # Idle /\ save[q].id = i /\ save[q].tenant # t
                    THEN [save[q] EXCEPT !.newcomer = TRUE] ELSE save[q]]
      BY <1>2, <1>6, <1>7, <2>2 DEF Arrives
    <3> QED
      BY <3>1
  <2> QED
    BY <2>1, <2>2
<1>11. PICK e : e = d
  OBVIOUS
<1>12. /\ doc' = [doc EXCEPT ![i] = e] /\ i \in WorkflowIds /\ e.tenant = t
       /\ IsDocument(e) /\ RunnableDraft(e.draft) /\ CallsOwn(e.draft, i, e.tenant)
  BY <1>2, <1>4, <1>5, <1>6, <1>7, <1>11
<1>13. \A q \in Savers :
          \/ save'[q] = Idle
          \/ /\ save[q] # Idle /\ save'[q] = save[q]
             /\ e # NoDoc /\ save[q].id = i /\ save[q].tenant # e.tenant =>
                   Exists(i) /\ doc[i].tenant = e.tenant
          \/ save[q] # Idle /\ save'[q] = [save[q] EXCEPT !.newcomer = TRUE]
  BY <1>10, <1>12
<1>14. e # NoDoc
  BY <1>12 DEF IsDocument, NoDoc
<1>15. Exists(i) /\ (e = NoDoc \/ e.tenant # doc[i].tenant) => i \in moved'
  BY <1>9, <1>12, <1>14
<1>16. moved \subseteq moved' /\ DOMAIN save' = Savers
  BY <1>9, <1>10
<1> HIDE DEF r, d
<1>17. Writes(i, e)
  BY <1>8, <1>12, <1>13, <1>15, <1>16 DEF Writes
<1> QED
  BY <1>12, <1>17, WriteKeeps

LEMMA PatchKeeps ==
    ASSUME DocsInvariant, NEW s \in Savers, SetEnabled(s) \/ SetName(s)
    PROVE  DocsInvariant'
<1> DEFINE r == save[s]
<1>1. DocsShape /\ StoredRunnable /\ RequestsSound
  BY DocsParts
<1>2. /\ r # Idle /\ r.at = "set" /\ Strays(s) /\ UNCHANGED moved
      /\ save' = [save EXCEPT ![s] = Idle]
  BY DEF SetEnabled, SetName, Stands, Ends
<1>3. strayWrites' = {}
  BY <1>2, NothingStrays
<1>4. PICK i \in WorkflowIds : i = r.id
  BY <1>1, <1>2 DEF DocsShape, IsRequest
<1>5. /\ DOMAIN save' = Savers
      /\ \A q \in Savers : save'[q] = Idle \/ (save[q] # Idle /\ save'[q] = save[q])
  BY <1>1, <1>2 DEF DocsShape
<1>6. CASE ~Exists(i)
  <2>1. doc' = doc
    BY <1>4, <1>6 DEF SetEnabled, SetName
  <2>2. strayWrites' = strayWrites /\ strayWrites = {}
    BY <1>3 DEF DocsInvariant
  <2> QED
    BY <1>2, <2>1, <2>2, RequestMovesOn
<1>7. CASE Exists(i)
  <2>2. IsDocument(doc[i]) /\ RunnableDraft(doc[i].draft)
        /\ CallsOwn(doc[i].draft, i, doc[i].tenant)
    BY <1>1, <1>7 DEF DocsShape, StoredRunnable
  <2> DEFINE d == doc[i].draft
  <2>3. IsContent(d)
    BY <2>2 DEF IsDocument
  <2>4. PICK draft : doc' = [doc EXCEPT ![i].draft = draft] /\ SameButNames(d, draft)
    <3>1. CASE SetEnabled(s)
      <4>1. doc' = [doc EXCEPT ![i].draft.enabled = r.sends]
        BY <1>4, <1>7, <3>1 DEF SetEnabled
      <4> DEFINE draft == [d EXCEPT !.enabled = r.sends]
      <4>2. doc' = [doc EXCEPT ![i].draft = draft]
        BY <4>1
      <4>3. SameButNames(d, draft)
        BY <2>3 DEF SameButNames, IsContent, ContentFields
      <4> QED
        BY <4>2, <4>3
    <3>2. CASE SetName(s)
      <4>1. doc' = [doc EXCEPT ![i].draft.name = r.sends]
        BY <1>4, <1>7, <3>2 DEF SetName
      <4> DEFINE draft == [d EXCEPT !.name = r.sends]
      <4>2. doc' = [doc EXCEPT ![i].draft = draft]
        BY <4>1
      <4>3. SameButNames(d, draft)
        BY <2>3 DEF SameButNames, IsContent, ContentFields
      <4> QED
        BY <4>2, <4>3
    <3> QED
      BY <3>1, <3>2
  <2>5. PICK e : e = [doc[i] EXCEPT !.draft = draft]
    OBVIOUS
  <2>6. doc' = [doc EXCEPT ![i] = e]
    BY <2>4, <2>5
  <2>7. e.draft = draft /\ e.tenant = doc[i].tenant /\ DOMAIN e = {"tenant", "draft"}
    BY <2>2, <2>5 DEF IsDocument
  <2>a. IsContent(draft) /\ RunnableDraft(draft) /\ CallsOwn(draft, i, doc[i].tenant)
    BY <2>2, <2>3, <2>4, RenamedIsSound
  <2>8. IsDocument(e) /\ RunnableDraft(e.draft) /\ CallsOwn(e.draft, i, e.tenant)
    BY <2>2, <2>7, <2>a DEF IsDocument
  <2>9. e # NoDoc
    BY <2>7 DEF NoDoc
  <2>10. \A q \in Savers :
            \/ save'[q] = Idle
            \/ /\ save[q] # Idle /\ save'[q] = save[q]
               /\ e # NoDoc /\ save[q].id = i /\ save[q].tenant # e.tenant =>
                     Exists(i) /\ doc[i].tenant = e.tenant
            \/ save[q] # Idle /\ save'[q] = [save[q] EXCEPT !.newcomer = TRUE]
    BY <1>5, <1>7, <2>7
  <2>11. Exists(i) /\ (e = NoDoc \/ e.tenant # doc[i].tenant) => i \in moved'
    BY <2>7, <2>9
  <2>12. moved \subseteq moved' /\ DOMAIN save' = Savers
    BY <1>2, <1>5
  <2>13. Writes(i, e)
    BY <1>3, <2>6, <2>8, <2>10, <2>11, <2>12 DEF Writes
  <2> QED
    BY <2>13, WriteKeeps
<1> QED
  BY <1>6, <1>7

LEMMA DeleteKeeps ==
    ASSUME DocsInvariant, NEW s \in Savers, Delete(s)
    PROVE  DocsInvariant'
<1> DEFINE r == save[s]
<1>1. DocsShape /\ StoredRunnable /\ RequestsSound
  BY DocsParts
<1>2. /\ r # Idle /\ r.at = "delete" /\ Strays(s)
      /\ doc' = [doc EXCEPT ![r.id] = NoDoc] /\ moved' = moved \cup {r.id}
      /\ save' = [save EXCEPT ![s] = Idle]
  BY DEF Delete, Stands, Ends
<1>3. strayWrites' = {}
  BY <1>2, NothingStrays
<1>4. PICK i \in WorkflowIds : i = r.id
  BY <1>1, <1>2 DEF DocsShape, IsRequest
<1>5. /\ DOMAIN save' = Savers
      /\ \A q \in Savers : save'[q] = Idle \/ (save[q] # Idle /\ save'[q] = save[q])
  BY <1>1, <1>2 DEF DocsShape
<1>6. doc' = [doc EXCEPT ![i] = NoDoc] /\ i \in moved' /\ moved \subseteq moved'
  BY <1>2, <1>4
<1>7. \A q \in Savers :
         \/ save'[q] = Idle
         \/ /\ save[q] # Idle /\ save'[q] = save[q]
            /\ NoDoc # NoDoc /\ save[q].id = i /\ save[q].tenant # NoDoc.tenant =>
                  Exists(i) /\ doc[i].tenant = NoDoc.tenant
         \/ save[q] # Idle /\ save'[q] = [save[q] EXCEPT !.newcomer = TRUE]
  BY <1>5
<1>8. Writes(i, NoDoc)
  BY <1>3, <1>5, <1>6, <1>7 DEF Writes
<1> QED
  BY <1>8, WriteKeeps

\* No request writes a document of another tenant unless that tenant came to the id after
\* the check or the check was not answered, and every stored document was judged fit to run
\* or is a template's copy not saved since, for any number of ids, tenants and requests
\* (UpsertWorkflow and its neighbours, ForkWorkflowTemplate).
THEOREM DocumentsStaySound == DocsSpec => []DocsSound
<1>1. DocsInvariant /\ [DocsNext]_docVars => DocsInvariant'
  <2>1. ASSUME DocsInvariant, DocsNext PROVE DocsInvariant'
    <3> PICK s \in Savers :
           \/ \E t \in WorkflowTenants, i \in WorkflowIds :
                 \/ \E draft \in Drafts : UpsertWorkflow(s, t, i, draft)
                 \/ \E new \in WorkflowIds, name \in DocNames : DuplicateWorkflow(s, t, i, new, name)
                 \/ \E on \in BOOLEAN : PatchWorkflowEnabled(s, t, i, on)
                 \/ \E name \in DocNames :
                       \/ PatchWorkflowName(s, t, i, name)
                       \/ \E template \in Templates :
                             ForkWorkflowTemplate(s, t, i, template, name)
                 \/ DeleteWorkflow(s, t, i)
           \/ ProbeForeign(s) \/ ProbeFails(s) \/ ProbeNewId(s) \/ JudgeDraft(s)
           \/ Upsert(s) \/ SetEnabled(s) \/ SetName(s) \/ Delete(s)
      BY <2>1 DEF DocsNext
    <3> QED
      BY <2>1, ReadsKeep, UpsertKeeps, PatchKeeps, DeleteKeeps
  <2>2. ASSUME DocsInvariant, UNCHANGED docVars PROVE DocsInvariant'
    BY <2>2 DEF docVars, DocsInvariant, DocsShape, Exists, Knows, StoresSound, CallsOwn,
                GetByIDForTenant
  <2> QED
    BY <2>1, <2>2
<1>2. DocsInvariant => DocsSound
  BY DEF DocsInvariant, DocsSound, WritesOwn, StoredSound, RunnableDraft, CallsOwn
<1> QED
  BY DocsBegin, <1>1, <1>2, PTL DEF DocsSpec

-----------------------------------------------------------------------------
(***************************************************************************)
(* Evals.  The cap is checked before a call and the cost shows when a run  *)
(* ends, so what can be spent beyond it is what had passed the check: one  *)
(* call for each case that runs, one for the pass of each claim loop.  As  *)
(* long as a record may still be completed (the case has not settled, or a *)
(* worker has or can take its run), every call of the case is either in    *)
(* the usage of the record, or owed by the case, or being made by a        *)
(* worker.  What will never be completed any more is left out of the count *)
(* of Counted; that is the debt the property sets apart.                   *)
(***************************************************************************)
EvalRunRecords ==
    [status : {"running", "success", "error"}, owner : {"", "worker"},
     traces : Nat, usage : Nat]
EndedRecords == {r \in EvalRunRecords : r.status # "running"}
EvalCaseStates ==
    [at : {"waiting", "cap", "create", "walk", "settled"}]
    \cup [at : {"reread"}, outcome : {"ok", "error"}]
    \cup [at : {"update"}, outcome : {"ok", "error"}, record : EndedRecords]
WorkerPassStates ==
    [at : {"none", "walk"}]
    \cup [at : {"checkpoint", "reread"}, outcome : {"ok", "error"}]
    \cup [at : {"update"}, record : EndedRecords]

EvalTypes ==
    /\ evalStatus \in {"none", "running", "done"}
    /\ evalCase \in [Cases -> EvalCaseStates]
    /\ caseResult \in [Cases -> {"none", "ok", "error"}]
    /\ disconnected \in BOOLEAN
    /\ caseRun \in [Cases -> {NoRun} \cup EvalRunRecords]
    /\ workerPass \in [Cases -> WorkerPassStates]
    /\ modelCalls \in [Cases -> Nat]

Settled(c) == evalCase[c].at = "settled"
Ran(c) == evalCase[c].at \in {"reread", "update"} /\ evalCase[c].outcome = "ok"
Passing(c) == workerPass[c].at # "none"
Unfinished(c) ==
    \/ Passing(c)
    \/ caseRun[c] # NoRun /\ caseRun[c].status = "running" /\ caseRun[c].owner = ""
Live(c) == ~Settled(c) \/ Unfinished(c)
InDebt(c) ==
    \/ Ran(c)
    \/ Settled(c) /\ caseResult[c] = "ok" /\ Unfinished(c) /\ Usage(c) = 0
Owed(c) == IF InDebt(c) THEN 1 ELSE 0
WorkersCall(c) == IF workerPass[c].at \in {"checkpoint", "reread", "update"} THEN 1 ELSE 0
Counted(c) == IF Live(c) \/ modelCalls[c] <= Usage(c) THEN modelCalls[c] ELSE Usage(c)

\* What holds of the case c.
CaseAccounted(c) ==
    /\ evalCase[c].at \in {"waiting", "cap", "create"} => caseRun[c] = NoRun
    /\ Passing(c) => caseRun[c] # NoRun
    /\ Passing(c) =>
          \/ caseRun[c].owner = "worker"
          \/ Settled(c) /\ caseRun[c].status # "running"
    /\ Live(c) => modelCalls[c] <= Usage(c) + Owed(c) + WorkersCall(c)
    /\ ~Settled(c) /\ Unfinished(c) =>
          caseRun[c].usage = 0 /\ caseRun[c].traces = modelCalls[c]
    /\ workerPass[c].at = "update" /\ ~Settled(c) =>
          modelCalls[c] <= workerPass[c].record.usage + Owed(c)
    /\ evalCase[c].at = "update" /\ Unfinished(c) =>
          modelCalls[c] <= evalCase[c].record.usage + WorkersCall(c)
    /\ Ran(c) => modelCalls[c] >= 1
    /\ evalCase[c].at = "update" /\ Ran(c) /\ Unfinished(c) => evalCase[c].record.usage >= 1
    /\ ~disconnected => ~(Settled(c) /\ InDebt(c))

EvalInvariant ==
    /\ EvalTypes
    /\ \A c \in Cases : CaseAccounted(c)
    /\ Cardinality({c \in Cases : Passing(c)}) <= ClaimLoops
    /\ Cardinality(CasesInFlight) <= Concurrency
    /\ Cardinality({c \in Cases : InDebt(c)}) <= Concurrency
    /\ CostSum([c \in Cases |-> Counted(c)]) <= MaxDailyUSD + Concurrency + ClaimLoops - 1

-----------------------------------------------------------------------------
(***************************************************************************)
(* The sums.  CostSum(f) counts f[c] units for each case c, so what holds  *)
(* of it is what holds of finite sets.                                     *)
(***************************************************************************)
LEMMA UnitsAre ==
  ASSUME NEW f, NEW u
  PROVE  u \in CostUnits(f) <=> u = <<u[1], u[2]>> /\ u[1] \in Cases /\ u[2] \in 1..f[u[1]]
<1>1. u \in CostUnits(f) <=> \E c \in Cases : u \in {c} \X (1..f[c])
  BY DEF CostUnits
<1>2. ASSUME NEW c
      PROVE  u \in {c} \X (1..f[c]) <=> u = <<u[1], u[2]>> /\ u[1] = c /\ u[2] \in 1..f[c]
  OBVIOUS
<1> QED
  BY <1>1, <1>2

LEMMA SumIsFinite ==
  ASSUME NEW f \in [Cases -> Nat]
  PROVE  IsFiniteSet(CostUnits(f)) /\ CostSum(f) \in Nat
<1> DEFINE UnitsOf(c) == {c} \X (1..f[c])
<1> DEFINE pick == [c \in Cases |-> UnitsOf(c)]
<1>1. IsFiniteSet(Cases)
  BY EvalAssumption, FS_Interval DEF Cases
<1>2. pick \in Surjection(Cases, {UnitsOf(c) : c \in Cases})
  BY DEF Surjection
<1>3. IsFiniteSet({UnitsOf(c) : c \in Cases})
  BY <1>1, <1>2, FS_Surjection
<1>4. ASSUME NEW c \in Cases
      PROVE  IsFiniteSet(UnitsOf(c))
  <2>1. IsFiniteSet({c})
    BY FS_Singleton
  <2>2. 1 \in Int /\ f[c] \in Int
    OBVIOUS
  <2>3. IsFiniteSet(1..f[c])
    BY <2>2, FS_Interval
  <2> QED
    BY <2>1, <2>3, FS_Product
<1>5. IsFiniteSet(UNION {UnitsOf(c) : c \in Cases})
  BY <1>3, <1>4, FS_UNION
<1> QED
  BY <1>5, FS_CardinalityType DEF CostUnits, CostSum

LEMMA SumIsMonotone ==
  ASSUME NEW f \in [Cases -> Nat], NEW g \in [Cases -> Nat], \A c \in Cases : f[c] <= g[c]
  PROVE  CostSum(f) <= CostSum(g)
<1>1. ASSUME NEW u \in CostUnits(f)
      PROVE  u \in CostUnits(g)
  <2>1. u = <<u[1], u[2]>> /\ u[1] \in Cases /\ u[2] \in 1..f[u[1]]
    BY UnitsAre
  <2>2. u[2] \in 1..g[u[1]]
    <3>1. f[u[1]] \in Nat /\ g[u[1]] \in Nat /\ f[u[1]] <= g[u[1]]
      BY <2>1
    <3> QED
      BY <2>1, <3>1
  <2> QED
    BY <2>1, <2>2, UnitsAre
<1> QED
  BY <1>1, SumIsFinite, FS_Subset DEF CostSum

LEMMA SumIsSplit ==
  ASSUME NEW f \in [Cases -> Nat], NEW g \in [Cases -> Nat], NEW h \in [Cases -> Nat],
         \A c \in Cases : f[c] <= g[c] + h[c]
  PROVE  CostSum(f) <= CostSum(g) + CostSum(h)
<1> DEFINE Rest == CostUnits(f) \ CostUnits(g)
<1> DEFINE shift == [u \in Rest |-> <<u[1], u[2] - g[u[1]]>>]
<1>1. ASSUME NEW u \in Rest
      PROVE  /\ u = <<u[1], u[2]>> /\ u[1] \in Cases /\ g[u[1]] \in Nat /\ u[2] \in Nat
             /\ u[2] - g[u[1]] \in 1..h[u[1]]
  <2>1. u = <<u[1], u[2]>> /\ u[1] \in Cases /\ u[2] \in 1..f[u[1]]
    BY UnitsAre
  <2>2. /\ f[u[1]] \in Nat /\ g[u[1]] \in Nat /\ h[u[1]] \in Nat
        /\ f[u[1]] <= g[u[1]] + h[u[1]]
    BY <2>1
  <2>3. u[2] \notin 1..g[u[1]]
    BY <2>1, UnitsAre
  <2> QED
    BY <2>1, <2>2, <2>3
<1>2. ASSUME NEW u \in Rest
      PROVE  <<u[1], u[2] - g[u[1]]>> \in CostUnits(h)
  <2> DEFINE v == <<u[1], u[2] - g[u[1]]>>
  <2>1. v = <<v[1], v[2]>> /\ v[1] \in Cases /\ v[2] \in 1..h[v[1]]
    BY <1>1
  <2> HIDE DEF v
  <2>2. v \in CostUnits(h)
    BY <2>1, UnitsAre
  <2> QED
    BY <2>2 DEF v
<1>3. ASSUME NEW u \in Rest, NEW v \in Rest, shift[u] = shift[v]
      PROVE  u = v
  <2>1. u[1] = v[1] /\ u[2] - g[u[1]] = v[2] - g[v[1]]
    BY <1>3
  <2>2. u[2] = v[2]
    BY <2>1, <1>1
  <2> QED
    BY <2>1, <2>2, <1>1
<1>4. shift \in Injection(Rest, CostUnits(h))
  <2>1. shift \in [Rest -> CostUnits(h)]
    BY <1>2
  <2> HIDE DEF shift, Rest
  <2> QED
    BY <1>3, <2>1 DEF Injection, IsInjective
<1>5. Cardinality(Rest) <= CostSum(h)
  <2> HIDE DEF shift, Rest
  <2> QED
    BY <1>4, SumIsFinite, FS_Injection DEF CostSum
<1>6. Cardinality(Rest) = Cardinality(CostUnits(f)) - Cardinality(CostUnits(f) \cap CostUnits(g))
  BY SumIsFinite, FS_Difference
<1>7. Cardinality(CostUnits(f) \cap CostUnits(g)) <= Cardinality(CostUnits(g))
  BY SumIsFinite, FS_Intersection
<1>8. IsFiniteSet(CostUnits(f) \cap CostUnits(g)) /\ IsFiniteSet(Rest)
  BY SumIsFinite, FS_Intersection, FS_Difference
<1>9. Cardinality(CostUnits(f) \cap CostUnits(g)) \in Nat /\ Cardinality(Rest) \in Nat
  BY <1>8, FS_CardinalityType
<1> HIDE DEF Rest
<1> QED
  BY <1>5, <1>6, <1>7, <1>9, SumIsFinite DEF CostSum

LEMMA SumCountsMembers ==
  ASSUME NEW f \in [Cases -> Nat], NEW T \in SUBSET Cases,
         \A c \in Cases : f[c] <= (IF c \in T THEN 1 ELSE 0)
  PROVE  CostSum(f) <= Cardinality(T)
<1> DEFINE who == [u \in CostUnits(f) |-> u[1]]
<1>1. ASSUME NEW u \in CostUnits(f)
      PROVE  u = <<u[1], 1>> /\ u[1] \in T
  <2>1. u = <<u[1], u[2]>> /\ u[1] \in Cases /\ u[2] \in 1..f[u[1]]
    BY UnitsAre
  <2>2. f[u[1]] \in Nat /\ f[u[1]] <= (IF u[1] \in T THEN 1 ELSE 0)
    BY <2>1
  <2> QED
    BY <2>1, <2>2
<1>2. who \in [CostUnits(f) -> T]
  BY <1>1
<1>3. ASSUME NEW u \in CostUnits(f), NEW v \in CostUnits(f), who[u] = who[v]
      PROVE  u = v
  BY <1>1, <1>3
<1>4. who \in Injection(CostUnits(f), T)
  <2> HIDE DEF who
  <2> QED
    BY <1>2, <1>3 DEF Injection, IsInjective
<1>5. IsFiniteSet(T)
  <2>1. IsFiniteSet(Cases)
    BY EvalAssumption, FS_Interval DEF Cases
  <2> QED
    BY <2>1, FS_Subset
<1> HIDE DEF who
<1> QED
  BY <1>4, <1>5, FS_Injection DEF CostSum

-----------------------------------------------------------------------------
(***************************************************************************)
(* A step moves one case; the others are as they were.                     *)
(***************************************************************************)
SameCase(d) ==
    /\ evalCase'[d] = evalCase[d] /\ caseResult'[d] = caseResult[d]
    /\ caseRun'[d] = caseRun[d] /\ workerPass'[d] = workerPass[d]
    /\ modelCalls'[d] = modelCalls[d]

\* What a step that moves the case c has to show.
CaseMoves(c) ==
    /\ \A d \in Cases \ {c} : SameCase(d)
    /\ disconnected' = disconnected
    /\ Passing(c)' => Passing(c) \/ WorkerFree
    /\ \/ c \in CasesInFlight' => c \in CasesInFlight
       \/ SlotFree
    /\ disconnected /\ InDebt(c)' => InDebt(c)
    /\ \/ Live(c) /\ modelCalls'[c] = modelCalls[c]
       \/ ~CapReached /\ Usage(c)' = Usage(c)

LEMMA SameCaseKept ==
  ASSUME NEW d \in Cases, SameCase(d)
  PROVE  /\ Passing(d)' <=> Passing(d)
         /\ InDebt(d)' <=> InDebt(d)
         /\ Live(d)' <=> Live(d)
         /\ Usage(d)' = Usage(d)
         /\ Counted(d)' = Counted(d)
         /\ d \in CasesInFlight' <=> d \in CasesInFlight
         /\ CaseAccounted(d) /\ (disconnected => disconnected') => CaseAccounted(d)'
<1>1. /\ Passing(d)' <=> Passing(d)
      /\ Settled(d)' <=> Settled(d)
      /\ Ran(d)' <=> Ran(d)
      /\ Usage(d)' = Usage(d)
      /\ WorkersCall(d)' = WorkersCall(d)
  BY DEF SameCase, Passing, Settled, Ran, Usage, Stored, WorkersCall
<1>2. /\ Unfinished(d)' <=> Unfinished(d)
      /\ Live(d)' <=> Live(d)
  BY <1>1 DEF SameCase, Unfinished, Live
<1>3. /\ InDebt(d)' <=> InDebt(d)
      /\ Owed(d)' = Owed(d)
  BY <1>1, <1>2 DEF SameCase, InDebt, Owed
<1>4. Counted(d)' = Counted(d)
  BY <1>1, <1>2 DEF SameCase, Counted
<1>5. d \in CasesInFlight' <=> d \in CasesInFlight
  BY DEF SameCase, CasesInFlight
<1>6. CaseAccounted(d) /\ (disconnected => disconnected') => CaseAccounted(d)'
  BY <1>1, <1>2, <1>3 DEF SameCase, CaseAccounted
<1> QED
  BY <1>1, <1>2, <1>3, <1>4, <1>5, <1>6

(***************************************************************************)
(* The parts are numbers, and a case counts for no more than its record,   *)
(* its debt and the worker's call.                                         *)
(***************************************************************************)
LEMMA CaseNumbers ==
  ASSUME EvalTypes, NEW c \in Cases
  PROVE  /\ Usage(c) \in Nat /\ modelCalls[c] \in Nat /\ Counted(c) \in Nat
         /\ Owed(c) \in {0, 1} /\ WorkersCall(c) \in {0, 1}
         /\ CaseAccounted(c) => Counted(c) <= Usage(c) + Owed(c) + WorkersCall(c)
<1>1. Usage(c) \in Nat /\ modelCalls[c] \in Nat
  <2>1. caseRun[c] \in {NoRun} \cup EvalRunRecords /\ modelCalls[c] \in Nat
    BY DEF EvalTypes
  <2> QED
    BY <2>1 DEF Usage, Stored, EvalRunRecords
<1>2. Owed(c) \in {0, 1} /\ WorkersCall(c) \in {0, 1}
  BY DEF Owed, WorkersCall
<1>3. Counted(c) \in Nat
  BY <1>1 DEF Counted
<1>4. CaseAccounted(c) => Counted(c) <= Usage(c) + Owed(c) + WorkersCall(c)
  <2>1. CaseAccounted(c) /\ Live(c) => modelCalls[c] <= Usage(c) + Owed(c) + WorkersCall(c)
    BY DEF CaseAccounted
  <2> QED
    BY <1>1, <1>2, <2>1 DEF Counted
<1> QED
  BY <1>1, <1>2, <1>3, <1>4

\* The same of the state after a step.
LEMMA CaseNumbersAfter ==
  ASSUME EvalTypes', NEW c \in Cases
  PROVE  /\ Usage(c)' \in Nat /\ modelCalls'[c] \in Nat /\ Counted(c)' \in Nat
         /\ Owed(c)' \in {0, 1} /\ WorkersCall(c)' \in {0, 1}
         /\ CaseAccounted(c)' => Counted(c)' <= Usage(c)' + Owed(c)' + WorkersCall(c)'
<1>1. Usage(c)' \in Nat /\ modelCalls'[c] \in Nat
  <2>1. caseRun'[c] \in {NoRun} \cup EvalRunRecords /\ modelCalls'[c] \in Nat
    BY DEF EvalTypes
  <2> QED
    BY <2>1 DEF Usage, Stored, EvalRunRecords
<1>2. Owed(c)' \in {0, 1} /\ WorkersCall(c)' \in {0, 1}
  BY DEF Owed, WorkersCall
<1>3. Counted(c)' \in Nat
  BY <1>1 DEF Counted
<1>4. CaseAccounted(c)' => Counted(c)' <= Usage(c)' + Owed(c)' + WorkersCall(c)'
  <2>1. CaseAccounted(c)' /\ Live(c)' => modelCalls'[c] <= Usage(c)' + Owed(c)' + WorkersCall(c)'
    BY DEF CaseAccounted
  <2> QED
    BY <1>1, <1>2, <2>1 DEF Counted
<1> QED
  BY <1>1, <1>2, <1>3, <1>4

(***************************************************************************)
(* When the cap lets a call through, the records show less than the cap,   *)
(* as many cases are in debt as can run, and as many are passed over as    *)
(* there are claim loops.                                                  *)
(***************************************************************************)
LEMMA CallIsCovered ==
  ASSUME EvalTypes, EvalTypes', \A c \in Cases : CaseAccounted(c)',
         Cardinality({c \in Cases : Passing(c)}') <= ClaimLoops,
         Cardinality({c \in Cases : InDebt(c)}') <= Concurrency,
         \A c \in Cases : Usage(c)' = Usage(c), ~CapReached
  PROVE  CostSum([c \in Cases |-> Counted(c)])' <= MaxDailyUSD + Concurrency + ClaimLoops - 1
<1> DEFINE debtors == {c \in Cases : InDebt(c)'}
<1> DEFINE passes == {c \in Cases : Passing(c)'}
<1>1. PICK f : f = [c \in Cases |-> Counted(c)']
  OBVIOUS
<1>2. PICK usage : usage = [c \in Cases |-> Usage(c)]
  OBVIOUS
<1>3. PICK owed : owed = [c \in Cases |-> Owed(c)']
  OBVIOUS
<1>4. PICK making : making = [c \in Cases |-> WorkersCall(c)']
  OBVIOUS
<1>5. PICK flying : flying = [c \in Cases |-> owed[c] + making[c]]
  OBVIOUS
<1>6. /\ f \in [Cases -> Nat] /\ usage \in [Cases -> Nat] /\ owed \in [Cases -> Nat]
      /\ making \in [Cases -> Nat]
  BY <1>1, <1>2, <1>3, <1>4, CaseNumbers, CaseNumbersAfter
<1>7. flying \in [Cases -> Nat]
  BY <1>5, <1>6
<1>8. CostSum(f) <= CostSum(usage) + CostSum(flying)
  <2>1. ASSUME NEW c \in Cases
        PROVE  f[c] <= usage[c] + flying[c]
    <3>1. Counted(c)' <= Usage(c)' + Owed(c)' + WorkersCall(c)'
      BY CaseNumbersAfter
    <3>2. Usage(c)' = Usage(c) /\ Usage(c) \in Nat /\ owed[c] \in Nat /\ making[c] \in Nat
      BY <1>6, CaseNumbers
    <3>3. f[c] = Counted(c)' /\ usage[c] = Usage(c) /\ flying[c] = Owed(c)' + WorkersCall(c)'
      BY <1>1, <1>2, <1>3, <1>4, <1>5
    <3>4. Owed(c)' \in Nat /\ WorkersCall(c)' \in Nat
      BY CaseNumbersAfter
    <3> QED
      BY <3>1, <3>2, <3>3, <3>4
  <2> QED
    BY <1>6, <1>7, <2>1, SumIsSplit
<1>9. CostSum(flying) <= CostSum(owed) + CostSum(making)
  <2>1. ASSUME NEW c \in Cases
        PROVE  flying[c] <= owed[c] + making[c]
    <3>1. owed[c] \in Nat /\ making[c] \in Nat
      BY <1>6
    <3> QED
      BY <1>5, <3>1
  <2> QED
    BY <1>6, <1>7, <2>1, SumIsSplit
<1>10. CostSum(owed) <= Concurrency
  <2>1. debtors = {c \in Cases : InDebt(c)}'
    OBVIOUS
  <2>2. ASSUME NEW c \in Cases
        PROVE  owed[c] <= (IF c \in debtors THEN 1 ELSE 0)
    BY <1>3 DEF Owed
  <2>3. debtors \in SUBSET Cases
    OBVIOUS
  <2>4. CostSum(owed) <= Cardinality(debtors)
    <3> HIDE DEF debtors
    <3> QED
      BY <1>6, <2>2, <2>3, SumCountsMembers
  <2>5. CostSum(owed) \in Nat
    BY <1>6, SumIsFinite
  <2>6. IsFiniteSet(debtors)
    <3>1. IsFiniteSet(Cases)
      BY EvalAssumption, FS_Interval DEF Cases
    <3> QED
      BY <2>3, <3>1, FS_Subset
  <2>7. Cardinality(debtors) \in Nat
    BY <2>6, FS_CardinalityType
  <2>8. Cardinality(debtors) <= Concurrency
    BY <2>1
  <2> HIDE DEF debtors
  <2> QED
    BY <2>4, <2>5, <2>7, <2>8, EvalAssumption
<1>11. CostSum(making) <= ClaimLoops
  <2>1. passes = {c \in Cases : Passing(c)}'
    OBVIOUS
  <2>2. ASSUME NEW c \in Cases
        PROVE  making[c] <= (IF c \in passes THEN 1 ELSE 0)
    BY <1>4 DEF WorkersCall, Passing
  <2>3. passes \in SUBSET Cases
    OBVIOUS
  <2>4. CostSum(making) <= Cardinality(passes)
    <3> HIDE DEF passes
    <3> QED
      BY <1>6, <2>2, <2>3, SumCountsMembers
  <2>5. CostSum(making) \in Nat
    BY <1>6, SumIsFinite
  <2>6. IsFiniteSet(passes)
    <3>1. IsFiniteSet(Cases)
      BY EvalAssumption, FS_Interval DEF Cases
    <3> QED
      BY <2>3, <3>1, FS_Subset
  <2>7. Cardinality(passes) \in Nat
    BY <2>6, FS_CardinalityType
  <2>8. Cardinality(passes) <= ClaimLoops
    BY <2>1
  <2> HIDE DEF passes
  <2> QED
    BY <2>4, <2>5, <2>7, <2>8, EvalAssumption
<1>12. CostSum(usage) < MaxDailyUSD
  <2>1. CostSum(usage) \in Nat
    BY <1>6, SumIsFinite
  <2>2. ~(CostSum(usage) >= MaxDailyUSD)
    BY <1>2 DEF CapReached, SumCostSince
  <2> QED
    BY <2>1, <2>2, EvalAssumption
<1>13. CostSum([c \in Cases |-> Counted(c)])' = CostSum(f)
  BY <1>1 DEF CostSum, CostUnits
<1>14. /\ CostSum(f) \in Nat /\ CostSum(usage) \in Nat /\ CostSum(flying) \in Nat
       /\ CostSum(owed) \in Nat /\ CostSum(making) \in Nat
  BY <1>6, <1>7, SumIsFinite
<1>15. CostSum(f) <= MaxDailyUSD + Concurrency + ClaimLoops - 1
  BY <1>8, <1>9, <1>10, <1>11, <1>12, <1>14, EvalAssumption
<1> QED
  BY <1>13, <1>15

LEMMA CountNotRaised ==
  ASSUME EvalTypes, EvalTypes', \A c \in Cases : Counted(c)' <= Counted(c)
  PROVE  CostSum([c \in Cases |-> Counted(c)])' <= CostSum([c \in Cases |-> Counted(c)])
<1>1. PICK f : f = [c \in Cases |-> Counted(c)']
  OBVIOUS
<1>2. PICK g : g = [c \in Cases |-> Counted(c)]
  OBVIOUS
<1>3. f \in [Cases -> Nat] /\ g \in [Cases -> Nat] /\ \A c \in Cases : f[c] <= g[c]
  BY <1>1, <1>2, CaseNumbers, CaseNumbersAfter
<1>4. CostSum(f) <= CostSum(g)
  BY <1>3, SumIsMonotone
<1>5. CostSum([c \in Cases |-> Counted(c)])' = CostSum(f)
  BY <1>1 DEF CostSum, CostUnits
<1> QED
  BY <1>2, <1>4, <1>5

LEMMA CasesAreFinite ==
  ASSUME NEW T \in SUBSET Cases
  PROVE  IsFiniteSet(T) /\ Cardinality(T) \in Nat
<1>1. IsFiniteSet(Cases)
  BY EvalAssumption, FS_Interval DEF Cases
<1> QED
  BY <1>1, FS_Subset, FS_CardinalityType

(***************************************************************************)
(* What a step shows of the case it moves is enough: there is room for one *)
(* more case in flight, the debts are those of cases in flight until the   *)
(* client leaves and no new ones afterwards, and the count only rises with *)
(* a call that the cap let through.                                        *)
(***************************************************************************)
LEMMA OneCaseMoves ==
  ASSUME EvalInvariant, EvalTypes', NEW c \in Cases, CaseMoves(c), CaseAccounted(c)'
  PROVE  EvalInvariant'
<1> DEFINE flyingNow == {d \in Cases : d \in CasesInFlight}
<1> DEFINE flying == {d \in Cases : d \in CasesInFlight'}
<1> DEFINE owing == {d \in Cases : InDebt(d)'}
<1> DEFINE owingNow == {d \in Cases : InDebt(d)}
<1>1. EvalTypes /\ (disconnected' <=> disconnected) /\ \A d \in Cases \ {c} : SameCase(d)
  BY DEF EvalInvariant, CaseMoves
<1>2. \A d \in Cases : CaseAccounted(d)'
  <2>1. ASSUME NEW d \in Cases \ {c}
        PROVE  CaseAccounted(d)'
    <3>1. CaseAccounted(d) /\ SameCase(d)
      BY <1>1 DEF EvalInvariant
    <3> QED
      BY <1>1, <3>1, SameCaseKept
  <2> QED
    BY <2>1
<1>3. Cardinality({d \in Cases : Passing(d)}') <= ClaimLoops
  <2> DEFINE busyNow == {d \in Cases : Passing(d)}
  <2> DEFINE busy == {d \in Cases : Passing(d)'}
  <2>1. \A d \in Cases \ {c} : Passing(d)' <=> Passing(d)
    BY <1>1, SameCaseKept
  <2>2. busy \in SUBSET Cases /\ busyNow \in SUBSET Cases
    OBVIOUS
  <2>3. IsFiniteSet(busyNow) /\ Cardinality(busyNow) \in Nat /\ Cardinality(busy) \in Nat
    BY <2>2, CasesAreFinite
  <2>4. Cardinality(busyNow) <= ClaimLoops
    BY DEF EvalInvariant
  <2>5. CASE Passing(c)' => Passing(c)
    <3>1. busy \in SUBSET busyNow
      BY <2>1, <2>5
    <3> HIDE DEF busy, busyNow
    <3>2. Cardinality(busy) <= Cardinality(busyNow)
      BY <2>3, <3>1, FS_Subset
    <3>3. Cardinality(busy) <= ClaimLoops
      BY <2>3, <2>4, <3>2, EvalAssumption
    <3> QED
      BY <3>3 DEF busy
  <2>6. CASE WorkerFree
    <3>1. Cardinality(busyNow) < ClaimLoops
      BY <2>6 DEF WorkerFree, Passing
    <3>2. busy \in SUBSET (busyNow \cup {c})
      BY <2>1
    <3> HIDE DEF busy, busyNow
    <3>3. /\ IsFiniteSet(busyNow \cup {c})
          /\ Cardinality(busyNow \cup {c}) <= Cardinality(busyNow) + 1
      BY <2>3, FS_AddElement
    <3>4. Cardinality(busyNow \cup {c}) \in Nat
      BY <3>3, FS_CardinalityType
    <3>5. Cardinality(busy) <= Cardinality(busyNow \cup {c})
      BY <3>2, <3>3, FS_Subset
    <3>6. Cardinality(busy) <= ClaimLoops
      BY <2>3, <3>1, <3>3, <3>4, <3>5, EvalAssumption
    <3> QED
      BY <3>6 DEF busy
  <2> QED
    BY <2>5, <2>6 DEF CaseMoves
<1>4. CasesInFlight = flyingNow /\ CasesInFlight' = flying
  BY DEF CasesInFlight
<1>5. Cardinality(CasesInFlight') <= Concurrency
  <2>1. \A d \in Cases \ {c} : d \in CasesInFlight' <=> d \in CasesInFlight
    BY <1>1, SameCaseKept
  <2>2. flying \in SUBSET Cases /\ flyingNow \in SUBSET Cases
    OBVIOUS
  <2>3. IsFiniteSet(flyingNow) /\ Cardinality(flyingNow) \in Nat /\ Cardinality(flying) \in Nat
    BY <2>2, CasesAreFinite
  <2>4. Cardinality(flyingNow) <= Concurrency
    BY <1>4 DEF EvalInvariant
  <2>5. CASE c \in CasesInFlight' => c \in CasesInFlight
    <3>1. flying \in SUBSET flyingNow
      BY <2>1, <2>5
    <3> HIDE DEF flying, flyingNow
    <3>2. Cardinality(flying) <= Cardinality(flyingNow)
      BY <2>3, <3>1, FS_Subset
    <3> QED
      BY <1>4, <2>3, <2>4, <3>2, EvalAssumption
  <2>6. CASE SlotFree
    <3>1. Cardinality(flyingNow) < Concurrency
      BY <1>4, <2>6 DEF SlotFree
    <3>2. flying \in SUBSET (flyingNow \cup {c})
      BY <2>1
    <3> HIDE DEF flying, flyingNow
    <3>3. /\ IsFiniteSet(flyingNow \cup {c})
          /\ Cardinality(flyingNow \cup {c}) <= Cardinality(flyingNow) + 1
      BY <2>3, FS_AddElement
    <3>4. Cardinality(flyingNow \cup {c}) \in Nat
      BY <3>3, FS_CardinalityType
    <3>5. Cardinality(flying) <= Cardinality(flyingNow \cup {c})
      BY <3>2, <3>3, FS_Subset
    <3> QED
      BY <1>4, <2>3, <3>1, <3>3, <3>4, <3>5, EvalAssumption
  <2> QED
    BY <2>5, <2>6 DEF CaseMoves
<1>6. owing = {d \in Cases : InDebt(d)}' /\ owingNow = {d \in Cases : InDebt(d)}
  OBVIOUS
<1>7. Cardinality(owing) <= Concurrency
  <2>1. owing \in SUBSET Cases /\ owingNow \in SUBSET Cases /\ flying \in SUBSET Cases
    OBVIOUS
  <2>2. /\ IsFiniteSet(owingNow) /\ IsFiniteSet(flying)
        /\ Cardinality(owing) \in Nat /\ Cardinality(owingNow) \in Nat
        /\ Cardinality(flying) \in Nat
    BY <2>1, CasesAreFinite
  <2>3. Cardinality(owingNow) <= Concurrency
    BY <1>6 DEF EvalInvariant
  <2>4. Cardinality(flying) <= Concurrency
    BY <1>4, <1>5
  <2>5. CASE disconnected
    <3>1. \A d \in Cases : InDebt(d)' => InDebt(d)
      <4>1. \A d \in Cases \ {c} : InDebt(d)' <=> InDebt(d)
        BY <1>1, SameCaseKept
      <4>2. InDebt(c)' => InDebt(c)
        BY <2>5 DEF CaseMoves
      <4> QED
        BY <4>1, <4>2
    <3>2. owing \in SUBSET owingNow
      BY <3>1
    <3> HIDE DEF owing, owingNow
    <3>3. Cardinality(owing) <= Cardinality(owingNow)
      BY <2>2, <3>2, FS_Subset
    <3> QED
      BY <2>2, <2>3, <3>3, EvalAssumption
  <2>6. CASE ~disconnected
    <3>1. ASSUME NEW d \in Cases, InDebt(d)'
          PROVE  d \in CasesInFlight'
      <4>1. ~(Settled(d)' /\ InDebt(d)')
        BY <1>1, <1>2, <2>6 DEF CaseAccounted
      <4>2. Ran(d)'
        BY <3>1, <4>1 DEF InDebt
      <4> QED
        BY <4>2 DEF Ran, CasesInFlight
    <3>2. owing \in SUBSET flying
      BY <3>1
    <3> HIDE DEF owing, flying
    <3>3. Cardinality(owing) <= Cardinality(flying)
      BY <2>2, <3>2, FS_Subset
    <3> QED
      BY <2>2, <2>4, <3>3, EvalAssumption
  <2> QED
    BY <2>5, <2>6
<1>8. CostSum([d \in Cases |-> Counted(d)])' <= MaxDailyUSD + Concurrency + ClaimLoops - 1
  <2>1. \A d \in Cases \ {c} : Counted(d)' = Counted(d) /\ Usage(d)' = Usage(d)
    BY <1>1, SameCaseKept
  <2>2. CASE Live(c) /\ modelCalls'[c] = modelCalls[c]
    <3>1. modelCalls[c] \in Nat /\ Usage(c)' \in Nat
      BY <1>1, CaseNumbers, CaseNumbersAfter
    <3>2. Counted(c) = modelCalls[c]
      BY <2>2 DEF Counted
    <3>3. Counted(c)' <= modelCalls[c]
      BY <2>2, <3>1 DEF Counted
    <3>4. ASSUME NEW d \in Cases
          PROVE  Counted(d)' <= Counted(d)
      <4>1. Counted(d) \in Nat
        BY <1>1, CaseNumbers
      <4> QED
        BY <2>1, <3>2, <3>3, <4>1
    <3>5. CostSum([d \in Cases |-> Counted(d)])' <= CostSum([d \in Cases |-> Counted(d)])
      BY <1>1, <3>4, CountNotRaised
    <3>6. CostSum([d \in Cases |-> Counted(d)]) <= MaxDailyUSD + Concurrency + ClaimLoops - 1
      BY DEF EvalInvariant
    <3>7. CostSum([d \in Cases |-> Counted(d)]) \in Nat
      <4>1. [d \in Cases |-> Counted(d)] \in [Cases -> Nat]
        BY <1>1, CaseNumbers
      <4> QED
        BY <4>1, SumIsFinite
    <3>8. CostSum([d \in Cases |-> Counted(d)])' \in Nat
      <4>1. PICK f : f = [d \in Cases |-> Counted(d)']
        OBVIOUS
      <4>2. f \in [Cases -> Nat]
        BY <4>1, CaseNumbersAfter
      <4>3. CostSum(f) \in Nat
        BY <4>2, SumIsFinite
      <4>4. CostSum([d \in Cases |-> Counted(d)])' = CostSum(f)
        BY <4>1 DEF CostSum, CostUnits
      <4> QED
        BY <4>3, <4>4
    <3> QED
      BY <3>5, <3>6, <3>7, <3>8, EvalAssumption
  <2>3. CASE ~CapReached /\ Usage(c)' = Usage(c)
    <3>1. \A d \in Cases : Usage(d)' = Usage(d)
      BY <2>1, <2>3
    <3>2. Cardinality({d \in Cases : InDebt(d)}') <= Concurrency
      BY <1>6, <1>7
    <3> QED
      BY <1>1, <1>2, <1>3, <2>3, <3>1, <3>2, CallIsCovered
  <2> QED
    BY <2>2, <2>3 DEF CaseMoves
<1>9. Cardinality({d \in Cases : InDebt(d)}') <= Concurrency
  BY <1>6, <1>7
<1> QED
  BY <1>2, <1>3, <1>5, <1>8, <1>9 DEF EvalInvariant

-----------------------------------------------------------------------------
LEMMA EvalBegins == EvalInit => EvalInvariant
<1> SUFFICES ASSUME EvalInit
             PROVE  EvalInvariant
  OBVIOUS
<1>1. EvalTypes
  BY DEF EvalInit, EvalTypes, EvalCaseStates, WorkerPassStates
<1>2. ASSUME NEW c \in Cases
      PROVE  /\ CaseAccounted(c) /\ ~Passing(c) /\ ~InDebt(c)
             /\ c \notin CasesInFlight /\ Counted(c) = 0
  <2>1. /\ evalCase[c].at = "waiting" /\ workerPass[c].at = "none"
        /\ caseRun[c] = NoRun /\ modelCalls[c] = 0
    BY DEF EvalInit
  <2>2. ~Settled(c) /\ ~Ran(c) /\ ~Passing(c) /\ ~Unfinished(c) /\ Usage(c) = 0
    BY <2>1 DEF Settled, Ran, Passing, Unfinished, Usage, Stored
  <2>3. ~InDebt(c) /\ Owed(c) = 0 /\ WorkersCall(c) = 0 /\ Counted(c) = 0
    BY <2>1, <2>2 DEF InDebt, Owed, WorkersCall, Counted
  <2> QED
    BY <2>1, <2>2, <2>3 DEF CaseAccounted, CasesInFlight
<1>3. /\ CasesInFlight = {} /\ {c \in Cases : InDebt(c)} = {}
      /\ {c \in Cases : Passing(c)} = {}
  BY <1>2 DEF CasesInFlight
<1>4. /\ Cardinality({c \in Cases : Passing(c)}) <= ClaimLoops
      /\ Cardinality(CasesInFlight) <= Concurrency
      /\ Cardinality({c \in Cases : InDebt(c)}) <= Concurrency
  <2>1. Cardinality({}) = 0
    BY FS_EmptySet
  <2>2. 0 <= ClaimLoops /\ 0 <= Concurrency
    BY EvalAssumption
  <2>3. Cardinality({c \in Cases : Passing(c)}) = 0
    BY <1>3, <2>1, Zenon
  <2>4. Cardinality(CasesInFlight) = 0 /\ Cardinality({c \in Cases : InDebt(c)}) = 0
    BY <1>3, <2>1, Zenon
  <2> QED
    BY <2>2, <2>3, <2>4
<1>5. CostSum([c \in Cases |-> Counted(c)]) <= MaxDailyUSD + Concurrency + ClaimLoops - 1
  <2>1. PICK f : f = [c \in Cases |-> Counted(c)]
    OBVIOUS
  <2>2. f \in [Cases -> Nat] /\ \A c \in Cases : f[c] <= (IF c \in {} THEN 1 ELSE 0)
    BY <1>2, <2>1
  <2>3. CostSum(f) <= Cardinality({})
    BY <2>2, SumCountsMembers
  <2>4. CostSum(f) \in Nat
    BY <2>2, SumIsFinite
  <2>5. CostSum(f) <= 0
    BY <2>3, FS_EmptySet
  <2> QED
    BY <2>1, <2>4, <2>5, EvalAssumption
<1> QED
  BY <1>1, <1>2, <1>4, <1>5 DEF EvalInvariant

(***************************************************************************)
(* The client leaves, or the record of the eval is written: no case moves. *)
(***************************************************************************)
LEMMA NoCaseMoves ==
  ASSUME EvalInvariant, evalStatus' \in {"none", "running", "done"},
         disconnected' \in BOOLEAN, disconnected => disconnected',
         UNCHANGED <<evalCase, caseResult, caseRun, workerPass, modelCalls>>
  PROVE  EvalInvariant'
<1>1. \A d \in Cases : SameCase(d)
  BY DEF SameCase
<1>2. EvalTypes'
  BY DEF EvalInvariant, EvalTypes
<1>3. \A d \in Cases : CaseAccounted(d)'
  BY <1>1, SameCaseKept DEF EvalInvariant
<1>4. Cardinality({c \in Cases : Passing(c)}') <= ClaimLoops
  <2>1. {c \in Cases : Passing(c)}' = {c \in Cases : Passing(c)}
    BY <1>1, SameCaseKept
  <2> QED
    BY <2>1 DEF EvalInvariant
<1>5. CasesInFlight' = CasesInFlight
  BY DEF CasesInFlight
<1>6. \A d \in Cases : (InDebt(d)' <=> InDebt(d)) /\ Counted(d)' = Counted(d)
  BY <1>1, SameCaseKept
<1>7. {c \in Cases : InDebt(c)}' = {c \in Cases : InDebt(c)}
  BY <1>6
<1>8. CostSum([c \in Cases |-> Counted(c)])' = CostSum([c \in Cases |-> Counted(c)])
  <2>1. PICK f : f = [c \in Cases |-> Counted(c)']
    OBVIOUS
  <2>2. f = [c \in Cases |-> Counted(c)]
    BY <1>6, <2>1
  <2>3. CostSum([c \in Cases |-> Counted(c)])' = CostSum(f)
    BY <2>1 DEF CostSum, CostUnits
  <2> QED
    BY <2>2, <2>3
<1>9. Cardinality(CasesInFlight') <= Concurrency
  BY <1>5 DEF EvalInvariant
<1>10. Cardinality({c \in Cases : InDebt(c)}') <= Concurrency
  BY <1>7 DEF EvalInvariant
<1>11. CostSum([c \in Cases |-> Counted(c)])' <= MaxDailyUSD + Concurrency + ClaimLoops - 1
  BY <1>8 DEF EvalInvariant
<1> QED
  BY <1>2, <1>3, <1>4, <1>9, <1>10, <1>11 DEF EvalInvariant

\* The parts of a case, each in its type.
LEMMA CaseTypes ==
  ASSUME EvalTypes, NEW c \in Cases
  PROVE  /\ evalCase[c] \in EvalCaseStates /\ caseResult[c] \in {"none", "ok", "error"}
         /\ caseRun[c] \in {NoRun} \cup EvalRunRecords /\ workerPass[c] \in WorkerPassStates
         /\ modelCalls[c] \in Nat
BY DEF EvalTypes

(***************************************************************************)
(* A case that no longer waits, and has no record yet.                     *)
(***************************************************************************)
LEMMA DispatchKeeps ==
  ASSUME EvalInvariant, NEW c \in Cases, DispatchCase(c)
  PROVE  EvalInvariant'
<1>1. /\ evalCase[c].at = "waiting" /\ evalCase' = [evalCase EXCEPT ![c] = [at |-> "cap"]]
      /\ UNCHANGED <<evalStatus, caseResult, disconnected, caseRun, workerPass, modelCalls>>
      /\ EvalTypes /\ CaseAccounted(c) /\ SlotFree
  BY DEF DispatchCase, CaseAt, CaseGoes, EvalInvariant
<1>2. EvalTypes' /\ evalCase'[c] = [at |-> "cap"] /\ \A d \in Cases \ {c} : SameCase(d)
  BY <1>1 DEF EvalTypes, EvalCaseStates, SameCase
<1>3. /\ ~Settled(c) /\ ~Settled(c)' /\ ~Ran(c) /\ ~Ran(c)'
      /\ Usage(c)' = Usage(c) /\ WorkersCall(c)' = WorkersCall(c)
      /\ Unfinished(c)' <=> Unfinished(c)
      /\ Passing(c)' <=> Passing(c)
  BY <1>1, <1>2 DEF Settled, Ran, Usage, Stored, WorkersCall, Unfinished, Passing
<1>4. ~InDebt(c) /\ ~InDebt(c)' /\ Owed(c) = 0 /\ Owed(c)' = 0 /\ Live(c)
  BY <1>3 DEF InDebt, Owed, Live
<1>5. CaseAccounted(c)'
  BY <1>1, <1>2, <1>3, <1>4 DEF CaseAccounted
<1>6. CaseMoves(c)
  BY <1>1, <1>2, <1>3, <1>4 DEF CaseMoves
<1> QED
  BY <1>2, <1>5, <1>6, OneCaseMoves

(***************************************************************************)
(* A record of a run is not its absence, and what the steps make of one is *)
(* a record.                                                               *)
(***************************************************************************)
LEMMA RecordIsOne ==
  ASSUME NEW r \in EvalRunRecords
  PROVE  /\ r # NoRun /\ r.usage \in Nat /\ r.traces \in Nat
         /\ r.status \in {"running", "success", "error"} /\ r.owner \in {"", "worker"}
<1>1. /\ r.status \in {"running", "success", "error"} /\ r.owner \in {"", "worker"}
      /\ r.usage \in Nat /\ r.traces \in Nat
  BY DEF EvalRunRecords
<1>2. NoRun.status = "none"
  BY DEF NoRun
<1> QED
  BY <1>1, <1>2

LEMMA TracedRecord ==
  ASSUME NEW r \in EvalRunRecords, NEW s, s = [r EXCEPT !.traces = @ + 1]
  PROVE  /\ s \in EvalRunRecords /\ s.traces = r.traces + 1
         /\ s.status = r.status /\ s.owner = r.owner /\ s.usage = r.usage
<1>1. PICK n : n = r.traces + 1
  OBVIOUS
<1>2. r.traces \in Nat
  BY RecordIsOne
<1>3. n \in Nat
  BY <1>1, <1>2
<1>4. s = [r EXCEPT !.traces = n]
  BY <1>1
<1>5. /\ s \in EvalRunRecords /\ s.traces = n
      /\ s.status = r.status /\ s.owner = r.owner /\ s.usage = r.usage
  BY <1>3, <1>4 DEF EvalRunRecords
<1> QED
  BY <1>1, <1>5

LEMMA FailedRecord ==
  ASSUME NEW r \in EvalRunRecords, NEW s, s = [r EXCEPT !.status = "error"]
  PROVE  /\ s \in EvalRunRecords /\ s.status = "error"
         /\ s.traces = r.traces /\ s.owner = r.owner /\ s.usage = r.usage
BY DEF EvalRunRecords

LEMMA CreatedRecord ==
  /\ Created \in EvalRunRecords /\ Created.status = "running" /\ Created.owner = ""
  /\ Created.traces = 0 /\ Created.usage = 0
BY DEF Created, EvalRunRecords

\* Without a record, and before it has run, a case has made no call.
LEMMA NothingCalledYet ==
  ASSUME EvalTypes, NEW c \in Cases, CaseAccounted(c),
         evalCase[c].at \in {"waiting", "cap", "create"}
  PROVE  /\ caseRun[c] = NoRun /\ modelCalls[c] = 0 /\ Usage(c) = 0
         /\ ~Settled(c) /\ ~Passing(c) /\ ~Unfinished(c) /\ ~Ran(c) /\ ~InDebt(c) /\ Live(c)
         /\ workerPass[c].at = "none"
<1>1. caseRun[c] = NoRun /\ ~Passing(c) /\ ~Settled(c) /\ ~Ran(c)
  BY DEF CaseAccounted, Passing, Settled, Ran
<1>2. ~Unfinished(c) /\ Usage(c) = 0 /\ workerPass[c].at = "none"
  BY <1>1 DEF Unfinished, Usage, Stored, Passing
<1>3. Owed(c) = 0 /\ WorkersCall(c) = 0 /\ Live(c) /\ ~InDebt(c)
  BY <1>1, <1>2 DEF Owed, WorkersCall, Live, InDebt
<1>4. modelCalls[c] <= 0 + 0 + 0
  BY <1>2, <1>3 DEF CaseAccounted
<1>5. modelCalls[c] = 0
  BY <1>4, CaseTypes
<1> QED
  BY <1>1, <1>2, <1>3, <1>5

LEMMA CapKeeps ==
  ASSUME EvalInvariant, NEW c \in Cases, CheckDailyCap(c)
  PROVE  EvalInvariant'
<1>1. /\ evalCase[c].at = "cap" /\ EvalTypes /\ CaseAccounted(c)
      /\ UNCHANGED <<evalStatus, disconnected, workerPass, modelCalls>>
  BY DEF CheckDailyCap, CaseAt, EvalInvariant
<1>2. /\ caseRun[c] = NoRun /\ modelCalls[c] = 0 /\ Usage(c) = 0 /\ workerPass[c].at = "none"
      /\ ~InDebt(c) /\ Live(c) /\ ~Passing(c)
  BY <1>1, NothingCalledYet
<1>3. CASE /\ evalCase' = [evalCase EXCEPT ![c] = [at |-> "settled"]]
           /\ caseResult' = [caseResult EXCEPT ![c] = "error"]
           /\ caseRun' = [caseRun EXCEPT ![c] = [Created EXCEPT !.status = "error"]]
  <2> PICK failed : failed = [Created EXCEPT !.status = "error"]
    OBVIOUS
  <2>1. failed \in EvalRunRecords /\ failed.status = "error" /\ failed.usage = 0 /\ failed # NoRun
    BY CreatedRecord, FailedRecord, RecordIsOne
  <2>2. /\ evalCase'[c].at = "settled" /\ caseResult'[c] = "error" /\ caseRun'[c] = failed
        /\ workerPass'[c].at = "none" /\ modelCalls'[c] = 0
        /\ \A d \in Cases \ {c} : SameCase(d)
    BY <1>1, <1>2, <1>3 DEF EvalTypes, SameCase
  <2>3. EvalTypes'
    BY <1>1, <1>3, <2>1 DEF EvalTypes, EvalCaseStates
  <2>4. /\ ~Passing(c)' /\ ~Ran(c)' /\ Usage(c)' = 0 /\ WorkersCall(c)' = 0
        /\ ~Unfinished(c)' /\ Settled(c)'
    BY <2>1, <2>2 DEF Passing, Ran, Usage, Stored, WorkersCall, Unfinished, Settled
  <2>5. ~InDebt(c)' /\ Owed(c)' = 0
    BY <2>2, <2>4 DEF InDebt, Owed
  <2>6. CaseAccounted(c)'
    BY <2>1, <2>2, <2>4, <2>5 DEF CaseAccounted
  <2>7. CaseMoves(c)
    BY <1>1, <1>2, <2>2, <2>4, <2>5 DEF CaseMoves, CasesInFlight
  <2> QED
    BY <2>3, <2>6, <2>7, OneCaseMoves
<1>4. CASE /\ evalCase' = [evalCase EXCEPT ![c] = [at |-> "create"]]
           /\ UNCHANGED <<caseResult, caseRun>>
  <2>1. /\ evalCase'[c] = [at |-> "create"]
        /\ caseRun'[c] = NoRun /\ workerPass'[c].at = "none" /\ modelCalls'[c] = 0
        /\ \A d \in Cases \ {c} : SameCase(d)
    BY <1>1, <1>2, <1>4 DEF EvalTypes, SameCase
  <2>2. EvalTypes'
    BY <1>1, <1>4 DEF EvalTypes, EvalCaseStates
  <2>3. /\ ~Passing(c)' /\ ~Ran(c)' /\ Usage(c)' = 0 /\ WorkersCall(c)' = 0
        /\ ~Unfinished(c)' /\ ~Settled(c)'
    BY <2>1 DEF Passing, Ran, Usage, Stored, WorkersCall, Unfinished, Settled
  <2>4. ~InDebt(c)' /\ Owed(c)' = 0
    BY <2>1, <2>3 DEF InDebt, Owed
  <2>5. CaseAccounted(c)'
    BY <2>1, <2>3, <2>4 DEF CaseAccounted
  <2>6. CaseMoves(c)
    BY <1>1, <1>2, <2>1, <2>3, <2>4 DEF CaseMoves, CasesInFlight
  <2> QED
    BY <2>2, <2>5, <2>6, OneCaseMoves
<1> QED
  BY <1>3, <1>4 DEF CheckDailyCap, Settles, CaseGoes

LEMMA CreateKeeps ==
  ASSUME EvalInvariant, NEW c \in Cases, CreateRun(c)
  PROVE  EvalInvariant'
<1>1. /\ evalCase[c].at = "create" /\ EvalTypes /\ CaseAccounted(c)
      /\ evalCase' = [evalCase EXCEPT ![c] = [at |-> "walk"]]
      /\ caseRun' = IF disconnected THEN caseRun ELSE [caseRun EXCEPT ![c] = Created]
      /\ UNCHANGED <<evalStatus, caseResult, disconnected, workerPass, modelCalls>>
  BY DEF CreateRun, CaseAt, CaseGoes, EvalInvariant
<1>2. /\ caseRun[c] = NoRun /\ modelCalls[c] = 0 /\ Usage(c) = 0 /\ workerPass[c].at = "none"
      /\ ~InDebt(c) /\ Live(c) /\ ~Passing(c)
  BY <1>1, NothingCalledYet
<1>3. /\ evalCase'[c] = [at |-> "walk"] /\ caseRun'[c] \in {NoRun, Created}
      /\ workerPass'[c].at = "none" /\ modelCalls'[c] = 0
      /\ \A d \in Cases \ {c} : SameCase(d)
  BY <1>1, <1>2 DEF EvalTypes, SameCase
<1>4. EvalTypes'
  BY <1>1, CreatedRecord DEF EvalTypes, EvalCaseStates
<1>5. /\ ~Passing(c)' /\ ~Ran(c)' /\ Usage(c)' = 0 /\ WorkersCall(c)' = 0 /\ ~Settled(c)'
      /\ Unfinished(c)' => caseRun'[c].usage = 0 /\ caseRun'[c].traces = 0
  <2>1. caseRun'[c] # NoRun => caseRun'[c].usage = 0 /\ caseRun'[c].traces = 0
    BY <1>3, CreatedRecord
  <2>2. ~Passing(c)' /\ WorkersCall(c)' = 0
    BY <1>3 DEF Passing, WorkersCall
  <2>3. ~Ran(c)' /\ ~Settled(c)'
    <3>1. evalCase'[c].at = "walk"
      BY <1>3
    <3> QED
      BY <3>1 DEF Ran, Settled
  <2>4. Usage(c)' = 0
    BY <2>1 DEF Usage, Stored
  <2>5. Unfinished(c)' => caseRun'[c] # NoRun
    BY <2>2 DEF Unfinished
  <2> QED
    BY <2>1, <2>2, <2>3, <2>4, <2>5
<1>6. ~InDebt(c)' /\ Owed(c)' = 0
  BY <1>3, <1>5 DEF InDebt, Owed
<1>7. CaseAccounted(c)'
  BY <1>3, <1>5, <1>6 DEF CaseAccounted
<1>8. CaseMoves(c)
  BY <1>1, <1>2, <1>3, <1>5, <1>6 DEF CaseMoves, CasesInFlight
<1> QED
  BY <1>4, <1>7, <1>8, OneCaseMoves

(***************************************************************************)
(* The agent calls the model, or is refused.                               *)
(***************************************************************************)
LEMMA CallsBilled ==
  ASSUME EvalTypes, NEW c \in Cases, BillsCall(c)
  PROVE  /\ modelCalls' \in [Cases -> Nat] /\ modelCalls'[c] = modelCalls[c] + 1
         /\ caseRun' \in [Cases -> {NoRun} \cup EvalRunRecords]
         /\ \A d \in Cases \ {c} : modelCalls'[d] = modelCalls[d] /\ caseRun'[d] = caseRun[d]
         /\ caseRun[c] = NoRun => caseRun'[c] = NoRun
         /\ caseRun[c] # NoRun =>
               /\ caseRun'[c] # NoRun
               /\ caseRun'[c].traces = caseRun[c].traces + 1
               /\ caseRun'[c].status = caseRun[c].status
               /\ caseRun'[c].owner = caseRun[c].owner
               /\ caseRun'[c].usage = caseRun[c].usage
         /\ Usage(c)' = Usage(c)
<1>1. /\ modelCalls' \in [Cases -> Nat] /\ modelCalls'[c] = modelCalls[c] + 1
      /\ \A d \in Cases \ {c} : modelCalls'[d] = modelCalls[d]
  BY DEF EvalTypes, BillsCall
<1>2. caseRun \in [Cases -> {NoRun} \cup EvalRunRecords]
  BY DEF EvalTypes
<1>3. CASE caseRun[c] = NoRun
  <2>1. caseRun' = caseRun
    BY <1>3 DEF BillsCall, Stored
  <2> QED
    BY <1>1, <1>2, <1>3, <2>1 DEF Usage, Stored
<1>4. CASE caseRun[c] # NoRun
  <2>1. PICK rec : rec = [caseRun[c] EXCEPT !.traces = @ + 1]
    OBVIOUS
  <2>2. caseRun[c] \in EvalRunRecords
    BY <1>2, <1>4
  <2>3. /\ rec \in EvalRunRecords /\ rec.traces = caseRun[c].traces + 1
        /\ rec.status = caseRun[c].status /\ rec.owner = caseRun[c].owner
        /\ rec.usage = caseRun[c].usage
    BY <2>1, <2>2, TracedRecord
  <2>4. caseRun' = [caseRun EXCEPT ![c] = rec]
    BY <1>2, <1>4, <2>1 DEF BillsCall, Stored
  <2>5. rec # NoRun
    BY <2>3, RecordIsOne
  <2>6. caseRun'[c] = rec
    BY <1>2, <2>4
  <2>7. Usage(c)' = Usage(c)
    BY <1>4, <2>3, <2>5, <2>6 DEF Usage, Stored
  <2>8. /\ caseRun' \in [Cases -> {NoRun} \cup EvalRunRecords]
        /\ \A d \in Cases \ {c} : caseRun'[d] = caseRun[d]
    BY <1>2, <2>3, <2>4
  <2> QED
    BY <1>1, <1>4, <2>3, <2>5, <2>6, <2>7, <2>8
<1> QED
  BY <1>3, <1>4

LEMMA AgentCallKeeps ==
  ASSUME EvalInvariant, NEW c \in Cases, AgentCalls(c)
  PROVE  EvalInvariant'
<1>1. /\ evalCase[c].at = "walk" /\ ~disconnected /\ ~CapReached /\ BillsCall(c)
      /\ evalCase' = [evalCase EXCEPT ![c] = [at |-> "reread", outcome |-> "ok"]]
      /\ UNCHANGED <<evalStatus, caseResult, disconnected, workerPass>>
      /\ EvalTypes /\ CaseAccounted(c)
  BY DEF AgentCalls, CaseAt, EvalInvariant
<1>2. /\ modelCalls' \in [Cases -> Nat] /\ modelCalls'[c] = modelCalls[c] + 1
      /\ caseRun' \in [Cases -> {NoRun} \cup EvalRunRecords]
      /\ \A d \in Cases \ {c} : modelCalls'[d] = modelCalls[d] /\ caseRun'[d] = caseRun[d]
      /\ caseRun[c] = NoRun => caseRun'[c] = NoRun
      /\ caseRun[c] # NoRun =>
            /\ caseRun'[c] # NoRun
            /\ caseRun'[c].traces = caseRun[c].traces + 1
            /\ caseRun'[c].status = caseRun[c].status
            /\ caseRun'[c].owner = caseRun[c].owner
            /\ caseRun'[c].usage = caseRun[c].usage
      /\ Usage(c)' = Usage(c)
  BY <1>1, CallsBilled
<1>3. EvalTypes'
  BY <1>1, <1>2 DEF EvalTypes, EvalCaseStates
<1>4. /\ evalCase'[c].at = "reread" /\ evalCase'[c].outcome = "ok"
      /\ workerPass'[c] = workerPass[c]
      /\ \A d \in Cases \ {c} : SameCase(d)
  BY <1>1, <1>2 DEF EvalTypes, SameCase
<1>5. /\ ~Settled(c) /\ ~Settled(c)' /\ ~Ran(c) /\ Ran(c)'
      /\ WorkersCall(c)' = WorkersCall(c)
      /\ Passing(c)' <=> Passing(c)
  BY <1>1, <1>4 DEF Settled, Ran, WorkersCall, Passing
<1>6. Unfinished(c)' <=> Unfinished(c)
  BY <1>2, <1>5 DEF Unfinished
<1>7. ~InDebt(c) /\ Owed(c) = 0 /\ Owed(c)' = 1 /\ Live(c)
  BY <1>5 DEF InDebt, Owed, Live
<1>8. modelCalls[c] \in Nat /\ Usage(c) \in Nat /\ WorkersCall(c) \in {0, 1}
  BY <1>1, CaseNumbers
<1>9. CaseAccounted(c)'
  <2>1. Passing(c)' =>
           /\ caseRun'[c] # NoRun
           /\ caseRun'[c].owner = "worker"
    BY <1>1, <1>2, <1>5 DEF CaseAccounted
  <2>2. modelCalls'[c] <= Usage(c)' + Owed(c)' + WorkersCall(c)'
    <3>1. modelCalls[c] <= Usage(c) + Owed(c) + WorkersCall(c)
      BY <1>1, <1>7 DEF CaseAccounted
    <3> QED
      BY <1>2, <1>5, <1>7, <1>8, <3>1
  <2>3. Unfinished(c)' => caseRun'[c].usage = 0 /\ caseRun'[c].traces = modelCalls'[c]
    <3>1. Unfinished(c)' => caseRun[c] # NoRun
      BY <1>1, <1>6 DEF CaseAccounted, Unfinished
    <3> QED
      BY <1>1, <1>2, <1>5, <1>6, <3>1 DEF CaseAccounted
  <2>4. workerPass'[c].at = "update" => modelCalls'[c] <= workerPass'[c].record.usage + Owed(c)'
    <3>1. ASSUME workerPass[c].at = "update"
          PROVE  modelCalls[c] + 1 <= workerPass[c].record.usage + 1
      <4>1. modelCalls[c] <= workerPass[c].record.usage + 0
        BY <1>1, <1>5, <1>7, <3>1 DEF CaseAccounted
      <4>2. workerPass[c].record.usage \in Nat
        BY <1>1, <3>1, CaseTypes DEF WorkerPassStates, EndedRecords, EvalRunRecords
      <4> QED
        BY <1>8, <4>1, <4>2
    <3> QED
      BY <1>2, <1>4, <1>7, <3>1
  <2>5. modelCalls'[c] >= 1
    BY <1>2, <1>8
  <2> QED
    BY <1>4, <1>5, <2>1, <2>2, <2>3, <2>4, <2>5 DEF CaseAccounted
<1>10. CaseMoves(c)
  BY <1>1, <1>2, <1>4, <1>5, <1>7 DEF CaseMoves, CasesInFlight
<1> QED
  BY <1>3, <1>9, <1>10, OneCaseMoves

LEMMA AgentRefusedKeeps ==
  ASSUME EvalInvariant, NEW c \in Cases, AgentRefused(c)
  PROVE  EvalInvariant'
<1>1. /\ evalCase[c].at = "walk"
      /\ evalCase' = [evalCase EXCEPT ![c] = [at |-> "reread", outcome |-> "error"]]
      /\ UNCHANGED <<evalStatus, caseResult, disconnected, caseRun, workerPass, modelCalls>>
      /\ EvalTypes /\ CaseAccounted(c)
  BY DEF AgentRefused, CaseAt, EvalInvariant
<1>2. EvalTypes'
  BY <1>1 DEF EvalTypes, EvalCaseStates
<1>3. /\ evalCase'[c].at = "reread" /\ evalCase'[c].outcome = "error"
      /\ \A d \in Cases \ {c} : SameCase(d)
  BY <1>1 DEF EvalTypes, SameCase
<1>4. /\ ~Settled(c) /\ ~Settled(c)' /\ ~Ran(c) /\ ~Ran(c)'
      /\ WorkersCall(c)' = WorkersCall(c) /\ Usage(c)' = Usage(c)
      /\ Unfinished(c)' <=> Unfinished(c)
      /\ Passing(c)' <=> Passing(c)
  BY <1>1, <1>3 DEF Settled, Ran, WorkersCall, Passing, Unfinished, Usage, Stored
<1>5. ~InDebt(c) /\ ~InDebt(c)' /\ Owed(c) = 0 /\ Owed(c)' = 0 /\ Live(c)
  BY <1>4 DEF InDebt, Owed, Live
<1>6. CaseAccounted(c)'
  BY <1>1, <1>3, <1>4, <1>5 DEF CaseAccounted
<1>7. CaseMoves(c)
  BY <1>1, <1>3, <1>4, <1>5 DEF CaseMoves, CasesInFlight
<1> QED
  BY <1>2, <1>6, <1>7, OneCaseMoves

(***************************************************************************)
(* The runner settles a case without a write: the client has left, or      *)
(* there is no record, which nobody takes.                                 *)
(***************************************************************************)
LEMMA SettlesUnwritten ==
  ASSUME EvalInvariant, NEW c \in Cases, evalCase[c].at \in {"reread", "update"},
         disconnected \/ caseRun[c] = NoRun,
         evalCase' = [evalCase EXCEPT ![c] = [at |-> "settled"]],
         caseResult' = [caseResult EXCEPT ![c] = evalCase[c].outcome],
         UNCHANGED <<evalStatus, disconnected, caseRun, workerPass, modelCalls>>
  PROVE  EvalInvariant'
<1>1. EvalTypes /\ CaseAccounted(c)
  BY DEF EvalInvariant
<1>2. evalCase[c].outcome \in {"ok", "error"}
  BY <1>1, CaseTypes DEF EvalCaseStates
<1>3. EvalTypes'
  BY <1>1, <1>2 DEF EvalTypes, EvalCaseStates
<1>4. /\ evalCase'[c].at = "settled" /\ caseResult'[c] = evalCase[c].outcome
      /\ \A d \in Cases \ {c} : SameCase(d)
  BY <1>1 DEF EvalTypes, SameCase
<1>5. /\ ~Settled(c) /\ Settled(c)' /\ ~Ran(c)'
      /\ WorkersCall(c)' = WorkersCall(c) /\ Usage(c)' = Usage(c)
      /\ Unfinished(c)' <=> Unfinished(c)
      /\ Passing(c)' <=> Passing(c)
      /\ Live(c)
      /\ Ran(c) <=> evalCase[c].outcome = "ok"
  BY <1>4 DEF Settled, Ran, WorkersCall, Passing, Unfinished, Usage, Stored, Live
<1>6. Unfinished(c) => caseRun[c] # NoRun
  BY <1>1 DEF CaseAccounted, Unfinished
<1>7. Unfinished(c) => Usage(c) = 0
  BY <1>1, <1>5, <1>6 DEF CaseAccounted, Usage, Stored
<1>8. InDebt(c)' <=> Ran(c) /\ Unfinished(c)
  BY <1>4, <1>5, <1>7 DEF InDebt
<1>9. InDebt(c) <=> Ran(c)
  BY <1>5 DEF InDebt
<1>10. Unfinished(c) => Owed(c)' = Owed(c)
  BY <1>8, <1>9 DEF Owed
<1>11. Live(c)' <=> Unfinished(c)
  BY <1>5 DEF Live
<1>12. CaseAccounted(c)'
  BY <1>1, <1>4, <1>5, <1>6, <1>8, <1>10, <1>11 DEF CaseAccounted
<1>13. CaseMoves(c)
  BY <1>4, <1>5, <1>8, <1>9 DEF CaseMoves, CasesInFlight
<1> QED
  BY <1>3, <1>12, <1>13, OneCaseMoves

\* What is written back has ended, and its usage is what the traces show.
LEMMA CompletedRecord ==
  ASSUME NEW r \in EvalRunRecords, NEW outcome, NEW s, s = Completed(r, outcome)
  PROVE  s \in EndedRecords /\ s.usage = r.traces /\ s.owner = r.owner
<1>1. PICK status : status = IF outcome = "ok" THEN "success" ELSE "error"
  OBVIOUS
<1>2. PICK n : n = r.traces
  OBVIOUS
<1>3. status \in {"success", "error"} /\ n \in Nat
  BY <1>1, <1>2, RecordIsOne
<1>4. s = [r EXCEPT !.status = status, !.usage = n]
  BY <1>1, <1>2 DEF Completed
<1>5. s \in EvalRunRecords /\ s.status = status /\ s.usage = n /\ s.owner = r.owner
  BY <1>3, <1>4 DEF EvalRunRecords
<1> QED
  BY <1>2, <1>3, <1>5 DEF EndedRecords

LEMMA EndedRecord ==
  ASSUME NEW r \in EndedRecords
  PROVE  r \in EvalRunRecords /\ r.status # "running" /\ r # NoRun /\ r.usage \in Nat
<1>1. r \in EvalRunRecords /\ r.status # "running"
  BY DEF EndedRecords
<1> QED
  BY <1>1, RecordIsOne

LEMMA RereadKeepsCount ==
  ASSUME EvalInvariant, NEW c \in Cases, RereadRun(c)
  PROVE  EvalInvariant'
<1>1. /\ evalCase[c].at = "reread" /\ EvalTypes /\ CaseAccounted(c)
      /\ UNCHANGED <<evalStatus, disconnected, caseRun, workerPass, modelCalls>>
  BY DEF RereadRun, CaseAt, EvalInvariant
<1>2. CASE disconnected \/ c \notin Stored
  <2>1. /\ disconnected \/ caseRun[c] = NoRun
        /\ evalCase' = [evalCase EXCEPT ![c] = [at |-> "settled"]]
        /\ caseResult' = [caseResult EXCEPT ![c] = evalCase[c].outcome]
    BY <1>2 DEF RereadRun, Settles, CaseGoes, Stored
  <2> QED
    BY <1>1, <2>1, SettlesUnwritten
<1>3. CASE ~(disconnected \/ c \notin Stored)
  <2>1. PICK written : written = Completed(caseRun[c], evalCase[c].outcome)
    OBVIOUS
  <2>2. PICK outcome : outcome = evalCase[c].outcome
    OBVIOUS
  <2>3. /\ evalCase' = [evalCase EXCEPT ![c] =
                          [at |-> "update", outcome |-> outcome, record |-> written]]
        /\ caseResult' = caseResult
    BY <1>1, <1>3, <2>1, <2>2 DEF RereadRun, EvalTypes
  <2>4. caseRun[c] \in EvalRunRecords /\ caseRun[c] # NoRun
    BY <1>1, <1>3, CaseTypes DEF Stored
  <2>5. written \in EndedRecords /\ written.usage = caseRun[c].traces
    BY <2>1, <2>4, CompletedRecord
  <2>6. outcome \in {"ok", "error"}
    BY <1>1, <2>2, CaseTypes DEF EvalCaseStates
  <2>7. EvalTypes'
    BY <1>1, <2>3, <2>5, <2>6 DEF EvalTypes, EvalCaseStates
  <2>8. /\ evalCase'[c].at = "update" /\ evalCase'[c].outcome = evalCase[c].outcome
        /\ evalCase'[c].record = written
        /\ \A d \in Cases \ {c} : SameCase(d)
    BY <1>1, <2>2, <2>3 DEF EvalTypes, SameCase
  <2>9. /\ ~Settled(c) /\ ~Settled(c)'
        /\ WorkersCall(c)' = WorkersCall(c) /\ Usage(c)' = Usage(c)
        /\ Unfinished(c)' <=> Unfinished(c)
        /\ Passing(c)' <=> Passing(c)
        /\ Ran(c)' <=> Ran(c)
    BY <1>1, <2>8 DEF Settled, Ran, WorkersCall, Passing, Unfinished, Usage, Stored
  <2>10. /\ InDebt(c)' <=> InDebt(c)
         /\ Owed(c)' = Owed(c) /\ Live(c) /\ Live(c)'
    BY <2>9 DEF InDebt, Owed, Live
  <2>11. Unfinished(c) => written.usage = modelCalls[c]
    BY <1>1, <2>5, <2>9 DEF CaseAccounted
  <2>12. modelCalls[c] \in Nat /\ WorkersCall(c) \in {0, 1}
    BY <1>1, CaseNumbers
  <2>13. Unfinished(c) => modelCalls[c] <= written.usage + WorkersCall(c)
    BY <2>11, <2>12
  <2>14. Ran(c) /\ Unfinished(c) => written.usage >= 1
    BY <1>1, <2>11 DEF CaseAccounted
  <2>15. CaseAccounted(c)'
    BY <1>1, <2>8, <2>9, <2>10, <2>13, <2>14 DEF CaseAccounted
  <2>16. CaseMoves(c)
    BY <1>1, <2>8, <2>9, <2>10 DEF CaseMoves, CasesInFlight
  <2> QED
    BY <2>7, <2>15, <2>16, OneCaseMoves
<1> QED
  BY <1>2, <1>3

LEMMA UpdateKeepsCount ==
  ASSUME EvalInvariant, NEW c \in Cases, UpdateRun(c)
  PROVE  EvalInvariant'
<1>1. /\ evalCase[c].at = "update" /\ EvalTypes /\ CaseAccounted(c)
      /\ UNCHANGED <<evalStatus, disconnected, workerPass, modelCalls>>
      /\ evalCase' = [evalCase EXCEPT ![c] = [at |-> "settled"]]
      /\ caseResult' = [caseResult EXCEPT ![c] = evalCase[c].outcome]
  BY DEF UpdateRun, CaseAt, EvalInvariant, Settles, CaseGoes
<1>2. CASE disconnected
  <2>1. caseRun' = caseRun
    BY <1>2 DEF UpdateRun
  <2> QED
    BY <1>1, <1>2, <2>1, SettlesUnwritten
<1>3. CASE ~disconnected
  <2>1. PICK written : written = evalCase[c].record
    OBVIOUS
  <2>2. written \in EndedRecords /\ evalCase[c].outcome \in {"ok", "error"}
    BY <1>1, <2>1, CaseTypes DEF EvalCaseStates
  <2>3. /\ written \in EvalRunRecords /\ written.status # "running" /\ written # NoRun
        /\ written.usage \in Nat
    BY <2>2, EndedRecord
  <2>4. caseRun' = [caseRun EXCEPT ![c] = written]
    BY <1>3, <2>1 DEF UpdateRun
  <2>5. EvalTypes'
    BY <1>1, <2>2, <2>3, <2>4 DEF EvalTypes, EvalCaseStates
  <2>6. /\ evalCase'[c].at = "settled" /\ caseResult'[c] = evalCase[c].outcome
        /\ caseRun'[c] = written
        /\ \A d \in Cases \ {c} : SameCase(d)
    BY <1>1, <2>4 DEF EvalTypes, SameCase
  <2>7. /\ ~Settled(c) /\ Settled(c)' /\ ~Ran(c)' /\ Live(c)
        /\ WorkersCall(c)' = WorkersCall(c) /\ Usage(c)' = written.usage
        /\ Passing(c)' <=> Passing(c)
        /\ Unfinished(c)' <=> Passing(c)
        /\ Ran(c) <=> evalCase[c].outcome = "ok"
    BY <1>1, <2>3, <2>6 DEF Settled, Ran, WorkersCall, Passing, Unfinished, Usage, Stored, Live
  <2>8. Unfinished(c)' => Unfinished(c)
    BY <2>7 DEF Unfinished
  <2>9. ~InDebt(c)'
    <3>1. ASSUME evalCase[c].outcome = "ok", Unfinished(c)'
          PROVE  written.usage >= 1
      BY <1>1, <2>1, <2>7, <2>8, <3>1 DEF CaseAccounted
    <3> QED
      BY <2>3, <2>6, <2>7, <3>1 DEF InDebt
  <2>10. Owed(c)' = 0 /\ (Live(c)' <=> Unfinished(c)')
    BY <2>7, <2>9 DEF Owed, Live
  <2>11. Unfinished(c)' => modelCalls[c] <= written.usage + WorkersCall(c)
    BY <1>1, <2>1, <2>8 DEF CaseAccounted
  <2>12. modelCalls'[c] = modelCalls[c] /\ WorkersCall(c) \in {0, 1}
    BY <1>1, CaseNumbers
  <2>13. Live(c)' => modelCalls'[c] <= Usage(c)' + Owed(c)' + WorkersCall(c)'
    BY <2>3, <2>7, <2>10, <2>11, <2>12
  <2>14. CaseAccounted(c)'
    BY <2>3, <2>6, <2>7, <2>9, <2>13 DEF CaseAccounted
  <2>15. CaseMoves(c)
    BY <1>1, <2>6, <2>7, <2>9 DEF CaseMoves, CasesInFlight
  <2> QED
    BY <2>5, <2>14, <2>15, OneCaseMoves
<1> QED
  BY <1>2, <1>3

(***************************************************************************)
(* The steps of the worker.                                                *)
(***************************************************************************)
LEMMA ClaimKeepsCount ==
  ASSUME EvalInvariant, NEW c \in Cases, ClaimCase(c)
  PROVE  EvalInvariant'
<1>1. PICK written : written = [caseRun[c] EXCEPT !.owner = "worker"]
  OBVIOUS
<1>2. /\ EvalTypes /\ CaseAccounted(c) /\ WorkerFree /\ caseRun[c] # NoRun
      /\ caseRun[c].status = "running" /\ caseRun[c].owner = ""
      /\ workerPass' = [workerPass EXCEPT ![c] = [at |-> "walk"]]
      /\ UNCHANGED <<evalStatus, evalCase, caseResult, disconnected, modelCalls>>
  BY DEF ClaimCase, PassGoes, EvalInvariant, Stored
<1>3. caseRun' = [caseRun EXCEPT ![c] = written]
  BY <1>1, <1>2 DEF ClaimCase, EvalTypes
<1>4. PICK old : old = caseRun[c]
  OBVIOUS
<1>5. old \in EvalRunRecords
  BY <1>2, <1>4, CaseTypes
<1>6. /\ written \in EvalRunRecords /\ written.owner = "worker"
      /\ written.traces = caseRun[c].traces /\ written.usage = caseRun[c].usage
  BY <1>1, <1>4, <1>5 DEF EvalRunRecords
<1>7. written # NoRun
  BY <1>6, RecordIsOne
<1>8. EvalTypes'
  BY <1>2, <1>3, <1>6 DEF EvalTypes, WorkerPassStates
<1>9. /\ workerPass'[c].at = "walk" /\ caseRun'[c] = written /\ workerPass[c].at = "none"
      /\ \A d \in Cases \ {c} : SameCase(d)
  <2>1. workerPass[c].at = "none"
    BY <1>2 DEF CaseAccounted, Passing
  <2> QED
    BY <1>2, <1>3, <2>1 DEF EvalTypes, SameCase
<1>10. /\ ~Passing(c) /\ Passing(c)' /\ WorkersCall(c)' = WorkersCall(c)
       /\ Settled(c)' <=> Settled(c)
       /\ Ran(c)' <=> Ran(c)
       /\ Usage(c)' = Usage(c)
       /\ Unfinished(c) /\ Unfinished(c)'
  BY <1>2, <1>6, <1>7, <1>9 DEF Passing, WorkersCall, Settled, Ran, Usage, Stored, Unfinished
<1>11. /\ InDebt(c)' <=> InDebt(c)
       /\ Owed(c)' = Owed(c) /\ Live(c) /\ Live(c)'
  BY <1>2, <1>10 DEF InDebt, Owed, Live
<1>12. CaseAccounted(c)'
  BY <1>2, <1>6, <1>7, <1>9, <1>10, <1>11 DEF CaseAccounted
<1>13. CaseMoves(c)
  BY <1>2, <1>9, <1>10, <1>11 DEF CaseMoves, CasesInFlight
<1> QED
  BY <1>8, <1>12, <1>13, OneCaseMoves

LEMMA WorkerCallKeeps ==
  ASSUME EvalInvariant, NEW c \in Cases, WorkerCalls(c)
  PROVE  EvalInvariant'
<1>1. /\ workerPass[c].at = "walk" /\ EvalTypes /\ CaseAccounted(c)
      /\ UNCHANGED <<evalStatus, evalCase, caseResult, disconnected>>
  BY DEF WorkerCalls, PassAt, EvalInvariant
<1>2. PICK outcome \in {"ok", "error"} :
         workerPass' = [workerPass EXCEPT ![c] = [at |-> "checkpoint", outcome |-> outcome]]
  BY DEF WorkerCalls
<1>3. workerPass' \in [Cases -> WorkerPassStates]
  BY <1>1, <1>2 DEF EvalTypes, WorkerPassStates
<1>4. /\ workerPass'[c].at = "checkpoint"
      /\ \A d \in Cases \ {c} : workerPass'[d] = workerPass[d]
  BY <1>1, <1>2 DEF EvalTypes
<1>5. /\ Passing(c) /\ Passing(c)' /\ WorkersCall(c) = 0 /\ WorkersCall(c)' = 1
      /\ Settled(c)' <=> Settled(c)
      /\ Ran(c)' <=> Ran(c)
      /\ Unfinished(c) /\ Unfinished(c)' /\ Live(c) /\ Live(c)'
  BY <1>1, <1>4 DEF Passing, WorkersCall, Settled, Ran, Unfinished, Live
<1>6. caseRun[c] # NoRun /\ caseRun[c] \in EvalRunRecords
  BY <1>1, <1>5, CaseTypes DEF CaseAccounted
<1>7. /\ modelCalls[c] \in Nat /\ Usage(c) \in Nat /\ Owed(c) \in {0, 1}
  BY <1>1, CaseNumbers
<1>8. modelCalls[c] <= Usage(c) + Owed(c) + 0
  BY <1>1, <1>5 DEF CaseAccounted
<1>9. CASE CapReached
  <2>1. caseRun' = caseRun /\ modelCalls' = modelCalls
    BY <1>9 DEF WorkerCalls
  <2>2. EvalTypes' /\ \A d \in Cases \ {c} : SameCase(d)
    BY <1>1, <1>3, <1>4, <2>1 DEF EvalTypes, SameCase
  <2>3. Usage(c)' = Usage(c)
    BY <2>1 DEF Usage, Stored
  <2>4. /\ InDebt(c)' <=> InDebt(c)
        /\ Owed(c)' = Owed(c)
    BY <1>1, <1>5, <2>3 DEF InDebt, Owed
  <2>5. modelCalls[c] <= Usage(c) + Owed(c) + 1
    BY <1>7, <1>8
  <2>6. evalCase[c].at = "update" => modelCalls[c] <= evalCase[c].record.usage + 1
    <3>1. ASSUME evalCase[c].at = "update"
          PROVE  modelCalls[c] <= evalCase[c].record.usage + 1
      <4>1. modelCalls[c] <= evalCase[c].record.usage + 0
        BY <1>1, <1>5, <3>1 DEF CaseAccounted
      <4>2. evalCase[c].record.usage \in Nat
        BY <1>1, <3>1, CaseTypes, EndedRecord DEF EvalCaseStates
      <4> QED
        BY <1>7, <4>1, <4>2
    <3> QED
      BY <3>1
  <2>7. CaseAccounted(c)'
    BY <1>1, <1>4, <1>5, <2>1, <2>3, <2>4, <2>5, <2>6 DEF CaseAccounted
  <2>8. CaseMoves(c)
    BY <1>1, <1>5, <2>1, <2>2, <2>4 DEF CaseMoves, CasesInFlight
  <2> QED
    BY <2>2, <2>7, <2>8, OneCaseMoves
<1>10. CASE ~CapReached
  <2>1. BillsCall(c)
    BY <1>10 DEF WorkerCalls
  <2>2. /\ modelCalls' \in [Cases -> Nat] /\ modelCalls'[c] = modelCalls[c] + 1
        /\ caseRun' \in [Cases -> {NoRun} \cup EvalRunRecords]
        /\ \A d \in Cases \ {c} : modelCalls'[d] = modelCalls[d] /\ caseRun'[d] = caseRun[d]
        /\ caseRun'[c] # NoRun
        /\ caseRun'[c].traces = caseRun[c].traces + 1
        /\ caseRun'[c].status = caseRun[c].status
        /\ caseRun'[c].owner = caseRun[c].owner
        /\ caseRun'[c].usage = caseRun[c].usage
        /\ Usage(c)' = Usage(c)
    BY <1>1, <1>6, <2>1, CallsBilled
  <2>3. EvalTypes' /\ \A d \in Cases \ {c} : SameCase(d)
    BY <1>1, <1>3, <1>4, <2>2 DEF EvalTypes, SameCase
  <2>4. /\ InDebt(c)' <=> InDebt(c)
        /\ Owed(c)' = Owed(c)
    BY <1>1, <1>5, <2>2 DEF InDebt, Owed
  <2>5. modelCalls'[c] <= Usage(c)' + Owed(c)' + WorkersCall(c)'
    BY <1>5, <1>7, <1>8, <2>2, <2>4
  <2>6. evalCase[c].at = "update" => modelCalls'[c] <= evalCase[c].record.usage + 1
    <3>1. ASSUME evalCase[c].at = "update"
          PROVE  modelCalls[c] + 1 <= evalCase[c].record.usage + 1
      <4>1. modelCalls[c] <= evalCase[c].record.usage + 0
        BY <1>1, <1>5, <3>1 DEF CaseAccounted
      <4>2. evalCase[c].record.usage \in Nat
        BY <1>1, <3>1, CaseTypes, EndedRecord DEF EvalCaseStates
      <4> QED
        BY <1>7, <4>1, <4>2
    <3> QED
      BY <2>2, <3>1
  <2>7. modelCalls'[c] >= 1
    BY <1>7, <2>2
  <2>8. CaseAccounted(c)'
    <3>1. \/ caseRun'[c].owner = "worker"
          \/ Settled(c)' /\ caseRun'[c].status # "running"
      BY <1>1, <1>5, <2>2 DEF CaseAccounted
    <3>2. ~Settled(c)' => caseRun'[c].usage = 0 /\ caseRun'[c].traces = modelCalls'[c]
      BY <1>1, <1>5, <2>2 DEF CaseAccounted
    <3>3. evalCase[c].at \notin {"waiting", "cap", "create"}
      BY <1>1, <1>6 DEF CaseAccounted
    <3>4. ~disconnected' => ~(Settled(c)' /\ InDebt(c)')
      BY <1>1, <1>5, <2>4 DEF CaseAccounted
    <3>5. evalCase[c].at = "update" /\ Ran(c) => evalCase[c].record.usage >= 1
      BY <1>1, <1>5 DEF CaseAccounted
    <3> QED
      BY <1>1, <1>4, <1>5, <2>2, <2>5, <2>6, <2>7, <3>1, <3>2, <3>3, <3>4, <3>5 DEF CaseAccounted
  <2>9. CaseMoves(c)
    BY <1>1, <1>5, <1>10, <2>2, <2>3, <2>4 DEF CaseMoves, CasesInFlight
  <2> QED
    BY <2>3, <2>8, <2>9, OneCaseMoves
<1> QED
  BY <1>9, <1>10

LEMMA WorkerCheckpointKeeps ==
  ASSUME EvalInvariant, NEW c \in Cases, WorkerCheckpoints(c)
  PROVE  EvalInvariant'
<1>1. /\ workerPass[c].at = "checkpoint" /\ EvalTypes /\ CaseAccounted(c)
      /\ UNCHANGED <<evalStatus, evalCase, caseResult, disconnected, caseRun, modelCalls>>
  BY DEF WorkerCheckpoints, PassAt, EvalInvariant
<1>2. PICK was : was = workerPass[c]
  OBVIOUS
<1>3. PICK pass : pass = [was EXCEPT !.at = "reread"]
  OBVIOUS
<1>4. was \in [at : {"checkpoint"}, outcome : {"ok", "error"}]
  BY <1>1, <1>2, CaseTypes DEF WorkerPassStates
<1>5. pass \in WorkerPassStates /\ pass.at = "reread"
  BY <1>3, <1>4 DEF WorkerPassStates
<1>6. workerPass' = [workerPass EXCEPT ![c] = pass]
  BY <1>1, <1>2, <1>3 DEF WorkerCheckpoints, EvalTypes
<1>7. EvalTypes'
  BY <1>1, <1>5, <1>6 DEF EvalTypes
<1>8. /\ workerPass'[c].at = "reread"
      /\ \A d \in Cases \ {c} : SameCase(d)
  BY <1>1, <1>5, <1>6 DEF EvalTypes, SameCase
<1>9. /\ Passing(c) /\ Passing(c)' /\ WorkersCall(c)' = WorkersCall(c) /\ Usage(c)' = Usage(c)
      /\ Settled(c)' <=> Settled(c)
      /\ Ran(c)' <=> Ran(c)
  BY <1>1, <1>8 DEF Passing, WorkersCall, Usage, Stored, Settled, Ran
<1>10. /\ Unfinished(c) /\ Unfinished(c)' /\ Live(c) /\ Live(c)'
       /\ InDebt(c)' <=> InDebt(c)
       /\ Owed(c)' = Owed(c)
  BY <1>1, <1>9 DEF Unfinished, Live, InDebt, Owed
<1>11. CaseAccounted(c)'
  BY <1>1, <1>8, <1>9, <1>10 DEF CaseAccounted
<1>12. CaseMoves(c)
  BY <1>1, <1>8, <1>9, <1>10 DEF CaseMoves, CasesInFlight
<1> QED
  BY <1>7, <1>11, <1>12, OneCaseMoves

LEMMA WorkerGivesUpKeeps ==
  ASSUME EvalInvariant, NEW c \in Cases, WorkerGivesUp(c)
  PROVE  EvalInvariant'
<1>1. /\ Passing(c) /\ EvalTypes /\ CaseAccounted(c) /\ caseRun[c].owner # "worker"
      /\ workerPass' = [workerPass EXCEPT ![c] = [at |-> "none"]]
      /\ UNCHANGED <<evalStatus, evalCase, caseResult, disconnected, caseRun, modelCalls>>
  BY DEF WorkerGivesUp, PassAt, PassGoes, Passing, EvalInvariant
<1>2. Settled(c) /\ caseRun[c].status # "running" /\ caseRun[c] # NoRun
  BY <1>1 DEF CaseAccounted
<1>3. EvalTypes'
  BY <1>1 DEF EvalTypes, WorkerPassStates
<1>4. /\ workerPass'[c].at = "none"
      /\ \A d \in Cases \ {c} : SameCase(d)
  BY <1>1 DEF EvalTypes, SameCase
<1>5. /\ ~Passing(c)' /\ ~Unfinished(c)' /\ Settled(c)' /\ ~Live(c)' /\ ~Ran(c) /\ ~Ran(c)'
      /\ Live(c) /\ Usage(c)' = Usage(c)
  BY <1>1, <1>2, <1>4 DEF Passing, Unfinished, Settled, Live, Ran, Usage, Stored
<1>6. ~InDebt(c)'
  BY <1>5 DEF InDebt
<1>7. CaseAccounted(c)'
  BY <1>1, <1>4, <1>5, <1>6 DEF CaseAccounted, Settled
<1>8. CaseMoves(c)
  BY <1>1, <1>4, <1>5, <1>6 DEF CaseMoves, CasesInFlight
<1> QED
  BY <1>3, <1>7, <1>8, OneCaseMoves

LEMMA WorkerRereadKeeps ==
  ASSUME EvalInvariant, NEW c \in Cases, WorkerRereads(c)
  PROVE  EvalInvariant'
<1>1. /\ workerPass[c].at = "reread" /\ EvalTypes /\ CaseAccounted(c)
      /\ UNCHANGED <<evalStatus, evalCase, caseResult, disconnected, caseRun, modelCalls>>
  BY DEF WorkerRereads, PassAt, EvalInvariant
<1>2. PICK written : written = Completed(caseRun[c], workerPass[c].outcome)
  OBVIOUS
<1>3. workerPass' = [workerPass EXCEPT ![c] = [at |-> "update", record |-> written]]
  BY <1>1, <1>2 DEF WorkerRereads, EvalTypes
<1>4. /\ Passing(c) /\ Unfinished(c) /\ Live(c) /\ WorkersCall(c) = 1
      /\ caseRun[c] # NoRun /\ caseRun[c] \in EvalRunRecords
  <2>1. Passing(c) /\ Unfinished(c) /\ Live(c) /\ WorkersCall(c) = 1
    BY <1>1 DEF Passing, Unfinished, Live, WorkersCall
  <2> QED
    BY <1>1, <2>1, CaseTypes DEF CaseAccounted
<1>5. written \in EndedRecords /\ written.usage = caseRun[c].traces
  BY <1>2, <1>4, CompletedRecord
<1>6. EvalTypes'
  BY <1>1, <1>3, <1>5 DEF EvalTypes, WorkerPassStates
<1>7. /\ workerPass'[c].at = "update" /\ workerPass'[c].record = written
      /\ \A d \in Cases \ {c} : SameCase(d)
  BY <1>1, <1>3 DEF EvalTypes, SameCase
<1>8. /\ Passing(c)' /\ Unfinished(c)' /\ Live(c)' /\ WorkersCall(c)' = 1
      /\ Usage(c)' = Usage(c)
      /\ Settled(c)' <=> Settled(c)
      /\ Ran(c)' <=> Ran(c)
  BY <1>1, <1>7 DEF Passing, Unfinished, Live, WorkersCall, Usage, Stored, Settled, Ran
<1>9. /\ InDebt(c)' <=> InDebt(c)
      /\ Owed(c)' = Owed(c)
  BY <1>1, <1>4, <1>8 DEF InDebt, Owed
<1>10. modelCalls[c] \in Nat /\ Owed(c) \in {0, 1}
  BY <1>1, CaseNumbers
<1>11. ~Settled(c) => modelCalls[c] <= written.usage + Owed(c)
  <2>1. ~Settled(c) => written.usage = modelCalls[c]
    BY <1>1, <1>4, <1>5 DEF CaseAccounted
  <2> QED
    BY <1>10, <2>1
<1>12. CaseAccounted(c)'
  BY <1>1, <1>4, <1>7, <1>8, <1>9, <1>11 DEF CaseAccounted
<1>13. CaseMoves(c)
  BY <1>1, <1>4, <1>7, <1>9 DEF CaseMoves, CasesInFlight
<1> QED
  BY <1>6, <1>12, <1>13, OneCaseMoves

LEMMA WorkerUpdateKeeps ==
  ASSUME EvalInvariant, NEW c \in Cases, WorkerUpdates(c)
  PROVE  EvalInvariant'
<1>1. /\ workerPass[c].at = "update" /\ EvalTypes /\ CaseAccounted(c)
      /\ UNCHANGED <<evalStatus, evalCase, caseResult, disconnected, modelCalls>>
      /\ workerPass' = [workerPass EXCEPT ![c] = [at |-> "none"]]
  BY DEF WorkerUpdates, PassAt, PassGoes, EvalInvariant
<1>2. PICK old : old = workerPass[c].record
  OBVIOUS
<1>3. PICK written : written = [old EXCEPT !.owner = ""]
  OBVIOUS
<1>4. old \in EvalRunRecords /\ old.status # "running"
  BY <1>1, <1>2, CaseTypes, EndedRecord DEF WorkerPassStates
<1>5. /\ written \in EvalRunRecords /\ written.status = old.status /\ written.usage = old.usage
  BY <1>3, <1>4 DEF EvalRunRecords
<1>6. written # NoRun /\ written.usage \in Nat /\ written.status # "running"
  BY <1>4, <1>5, RecordIsOne
<1>7. caseRun' = [caseRun EXCEPT ![c] = written]
  BY <1>2, <1>3 DEF WorkerUpdates
<1>8. EvalTypes'
  BY <1>1, <1>5, <1>7 DEF EvalTypes, WorkerPassStates
<1>9. /\ workerPass'[c].at = "none" /\ caseRun'[c] = written
      /\ \A d \in Cases \ {c} : SameCase(d)
  BY <1>1, <1>7 DEF EvalTypes, SameCase
<1>10. /\ Passing(c) /\ Live(c) /\ ~Passing(c)' /\ ~Unfinished(c)' /\ WorkersCall(c)' = 0
       /\ Usage(c)' = written.usage
       /\ Settled(c)' <=> Settled(c)
       /\ Ran(c)' <=> Ran(c)
       /\ Live(c)' <=> ~Settled(c)
  BY <1>1, <1>6, <1>9 DEF Passing, Live, Unfinished, WorkersCall, Usage, Stored, Settled, Ran
<1>11. InDebt(c)' <=> Ran(c)
  BY <1>10 DEF InDebt
<1>12. InDebt(c)' => InDebt(c) /\ ~Settled(c)
  BY <1>11 DEF InDebt, Ran, Settled
<1>13. ~Settled(c) => Owed(c)' = Owed(c)
  BY <1>11 DEF InDebt, Owed
<1>14. Owed(c) \in {0, 1} /\ modelCalls[c] \in Nat
  BY <1>1, CaseNumbers
<1>15. Live(c)' => modelCalls'[c] <= Usage(c)' + Owed(c)' + WorkersCall(c)'
  <2>1. ASSUME ~Settled(c)
        PROVE  modelCalls[c] <= written.usage + Owed(c) + 0
    <3>1. modelCalls[c] <= written.usage + Owed(c)
      BY <1>1, <1>2, <1>5, <2>1 DEF CaseAccounted
    <3> QED
      BY <1>6, <1>14, <3>1
  <2> QED
    BY <1>1, <1>10, <1>13, <2>1
<1>16. CaseAccounted(c)'
  <2>1. evalCase[c].at \notin {"waiting", "cap", "create"}
    BY <1>1, <1>10 DEF CaseAccounted
  <2> QED
    BY <1>1, <1>9, <1>10, <1>12, <1>15, <2>1 DEF CaseAccounted
<1>17. CaseMoves(c)
  BY <1>1, <1>9, <1>10, <1>12 DEF CaseMoves, CasesInFlight
<1> QED
  BY <1>8, <1>16, <1>17, OneCaseMoves

LEMMA EvalStepKeeps == EvalInvariant /\ [EvalNext]_evalVars => EvalInvariant'
<1> SUFFICES ASSUME EvalInvariant, [EvalNext]_evalVars
             PROVE  EvalInvariant'
  OBVIOUS
<1>1. CASE CreateEvalRun \/ ClientLeaves \/ UpdateEvalRun \/ UNCHANGED evalVars
  <2>1. evalStatus \in {"none", "running", "done"} /\ disconnected \in BOOLEAN
    BY DEF EvalInvariant, EvalTypes
  <2>2. /\ evalStatus' \in {"none", "running", "done"} /\ disconnected' \in BOOLEAN
        /\ disconnected => disconnected'
        /\ UNCHANGED <<evalCase, caseResult, caseRun, workerPass, modelCalls>>
    BY <1>1, <2>1 DEF CreateEvalRun, ClientLeaves, UpdateEvalRun, evalVars
  <2> QED
    BY <2>2, NoCaseMoves
<1>2. ASSUME NEW c \in Cases, DispatchCase(c)
      PROVE  EvalInvariant'
  BY <1>2, DispatchKeeps
<1>3. ASSUME NEW c \in Cases, CheckDailyCap(c)
      PROVE  EvalInvariant'
  BY <1>3, CapKeeps
<1>4. ASSUME NEW c \in Cases, CreateRun(c)
      PROVE  EvalInvariant'
  BY <1>4, CreateKeeps
<1>5. ASSUME NEW c \in Cases, AgentCalls(c)
      PROVE  EvalInvariant'
  BY <1>5, AgentCallKeeps
<1>6. ASSUME NEW c \in Cases, AgentRefused(c)
      PROVE  EvalInvariant'
  BY <1>6, AgentRefusedKeeps
<1>7. ASSUME NEW c \in Cases, RereadRun(c)
      PROVE  EvalInvariant'
  BY <1>7, RereadKeepsCount
<1>8. ASSUME NEW c \in Cases, UpdateRun(c)
      PROVE  EvalInvariant'
  BY <1>8, UpdateKeepsCount
<1>9. ASSUME NEW c \in Cases, ClaimCase(c)
      PROVE  EvalInvariant'
  BY <1>9, ClaimKeepsCount
<1>10. ASSUME NEW c \in Cases, WorkerCalls(c)
       PROVE  EvalInvariant'
  BY <1>10, WorkerCallKeeps
<1>11. ASSUME NEW c \in Cases, WorkerCheckpoints(c)
       PROVE  EvalInvariant'
  BY <1>11, WorkerCheckpointKeeps
<1>12. ASSUME NEW c \in Cases, WorkerRereads(c)
       PROVE  EvalInvariant'
  BY <1>12, WorkerRereadKeeps
<1>13. ASSUME NEW c \in Cases, WorkerUpdates(c)
       PROVE  EvalInvariant'
  BY <1>13, WorkerUpdateKeeps
<1>14. ASSUME NEW c \in Cases, WorkerGivesUp(c)
       PROVE  EvalInvariant'
  BY <1>14, WorkerGivesUpKeeps
<1> QED
  BY <1>1, <1>2, <1>3, <1>4, <1>5, <1>6, <1>7, <1>8, <1>9, <1>10, <1>11, <1>12, <1>13,
     <1>14
     DEF EvalNext

(***************************************************************************)
(* Every call is counted, or is one of those that no record will show.     *)
(***************************************************************************)
LEMMA CountedIsBounded == EvalInvariant => SpendBounded
<1> SUFFICES ASSUME EvalInvariant
             PROVE  SpendBounded
  OBVIOUS
<1>1. EvalTypes
  BY DEF EvalInvariant
<1>2. PICK counted : counted = [c \in Cases |-> Counted(c)]
  OBVIOUS
<1>3. PICK unshown : unshown = [c \in Cases |-> Unshown(c)]
  OBVIOUS
<1>4. ASSUME NEW c \in Cases
      PROVE  Unshown(c) \in Nat /\ modelCalls[c] <= Counted(c) + Unshown(c)
  <2>1. modelCalls[c] \in Nat /\ Usage(c) \in Nat /\ Counted(c) \in Nat
    BY <1>1, CaseNumbers
  <2>2. PICK calling \in Nat : calling = Calling(c)
    BY DEF Calling
  <2>3. PICK hidden \in Int : hidden = modelCalls[c] - Usage(c) - calling
    BY <2>1, <2>2
  <2>4. Unshown(c) = IF hidden > 0 THEN hidden ELSE 0
    BY <2>2, <2>3 DEF Unshown
  <2>5. Unshown(c) \in Nat
    BY <2>4
  <2>6. CASE Counted(c) = modelCalls[c]
    BY <2>1, <2>5, <2>6
  <2>7. CASE Counted(c) # modelCalls[c]
    <3>1. ~Live(c) /\ Counted(c) = Usage(c)
      BY <2>7 DEF Counted
    <3>2. calling = 0
      <4>1. evalCase[c].at = "settled" /\ workerPass[c].at = "none"
        BY <3>1 DEF Live, Unfinished, Passing, Settled
      <4> QED
        BY <2>2, <4>1 DEF Calling
    <3> QED
      BY <2>1, <2>3, <2>4, <2>5, <3>1, <3>2
  <2> QED
    BY <2>5, <2>6, <2>7
<1>5. /\ modelCalls \in [Cases -> Nat] /\ counted \in [Cases -> Nat]
      /\ unshown \in [Cases -> Nat]
      /\ \A c \in Cases : modelCalls[c] <= counted[c] + unshown[c]
  BY <1>1, <1>2, <1>3, <1>4, CaseNumbers DEF EvalTypes
<1>6. CostSum(modelCalls) <= CostSum(counted) + CostSum(unshown)
  BY <1>5, SumIsSplit
<1>7. CostSum(modelCalls) \in Nat /\ CostSum(counted) \in Nat /\ CostSum(unshown) \in Nat
  BY <1>5, SumIsFinite
<1>8. CostSum(counted) <= MaxDailyUSD + Concurrency + ClaimLoops - 1
  BY <1>2 DEF EvalInvariant
<1>9. CostSum(modelCalls) <= MaxDailyUSD + Concurrency + ClaimLoops - 1 + CostSum(unshown)
  BY <1>6, <1>7, <1>8, EvalAssumption
<1> QED
  BY <1>3, <1>9 DEF SpendBounded, Spent

(***************************************************************************)
(* However many cases an eval has and however the claim loops take their   *)
(* runs, what is spent beyond the daily cap is one call for each case that *)
(* may run at once and each loop, the call that reaches the cap aside, and *)
(* the calls that no record will ever show.                                *)
(***************************************************************************)
THEOREM SpendIsBounded == EvalSpec => []SpendBounded
<1>1. EvalInit => EvalInvariant
  BY EvalBegins
<1>2. EvalInvariant /\ [EvalNext]_evalVars => EvalInvariant'
  BY EvalStepKeeps
<1>3. EvalInvariant => SpendBounded
  BY CountedIsBounded
<1> QED
  BY <1>1, <1>2, <1>3, PTL DEF EvalSpec

=============================================================================
