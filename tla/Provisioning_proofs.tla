------------------------- MODULE Provisioning_proofs -------------------------
(***************************************************************************)
(* The ledger first, by itself (LedgerSpec).  For every set of owners,     *)
(* groups, VLANs and instances:                                            *)
(*   - its tables keep their types and their invariants, the quota among   *)
(*     them;                                                               *)
(*   - it implements VlanLease.                                            *)
(* Then provisioning, which extends it (Spec).  For every number of        *)
(* requests, removals, VLANs, VMIDs and crashes:                           *)
(*   - provisioning keeps its types;                                       *)
(*   - every step it takes on the tables is a step of the ledger, so that  *)
(*     what the first part shows holds of the program;                     *)
(*   - a VM sits on the VLAN of its row's group, and no two owners' rows   *)
(*     put VMs on one VLAN;                                                *)
(*   - a row that outlives the failure of its request is flagged.          *)
(* Then the firewall of one such VM, by itself (FirewallSpec).  For any    *)
(* number of peers, edits, passes, failed calls and crashes:               *)
(*   - a VM that was handed over is filtered, or its create still runs, or *)
(*     its row is quarantined, unless the backend died;                    *)
(*   - whatever two writers leave of each other's rules, an enabled        *)
(*     firewall admits nobody the rows never admitted.                     *)
(***************************************************************************)
EXTENDS Provisioning, VmFirewall, SequenceTheorems, FiniteSetTheorems, TLAPS

-----------------------------------------------------------------------------
(* The ledger.                                                             *)

\* The invariants of the tables other than the quota, which needs cardinalities.
TableInv ==
    /\ LedgerTypeOK
    /\ VlanExclusive
    /\ AllocationMatchesState

-----------------------------------------------------------------------------
\* One lemma per way a statement changes the tables.

\* A statement that only moves the states of rows, none of them to `planned`
\* and none of an unallocated row to an allocated state, keeps the invariant.
LEMMA StateChangeKeepsTables ==
    ASSUME TableInv, UNCHANGED <<instances, deletes>>,
           DOMAIN groups' = DOMAIN groups,
           groups' \in [DOMAIN groups -> GroupRow],
           \A g \in DOMAIN groups :
               /\ groups'[g].owner = groups[g].owner
               /\ groups'[g].profile = groups[g].profile
               /\ groups'[g].vlan = groups[g].vlan
               /\ \/ groups'[g].state = groups[g].state
                  \/ groups'[g].state = "error"
                  \/ groups'[g].state # "planned" /\ groups[g].vlan # NULL
    PROVE  TableInv'
<1>1. LedgerTypeOK'
  BY DEF TableInv, LedgerTypeOK
<1>2. VlanExclusive'
  BY DEF TableInv, VlanExclusive
<1>3. AllocationMatchesState'
  BY DEF TableInv, AllocationMatchesState
<1> QED
  BY <1>1, <1>2, <1>3 DEF TableInv

\* SetState is such a statement.
LEMMA SetStateKeepsTables ==
    ASSUME TableInv, NEW g \in DOMAIN groups, NEW s \in GroupState,
           SetState(g, s), UNCHANGED <<instances, deletes>>,
           s = "error" \/ (s # "planned" /\ groups[g].vlan # NULL)
    PROVE  TableInv'
<1>1. groups \in [DOMAIN groups -> GroupRow]
  BY DEF TableInv, LedgerTypeOK
<1>2. groups' = [groups EXCEPT ![g].state = s]
  BY DEF SetState
<1>3. DOMAIN groups' = DOMAIN groups /\ groups' \in [DOMAIN groups -> GroupRow]
  BY <1>1, <1>2 DEF GroupRow
<1>4. \A h \in DOMAIN groups :
          /\ groups'[h].owner = groups[h].owner
          /\ groups'[h].profile = groups[h].profile
          /\ groups'[h].vlan = groups[h].vlan
          /\ \/ groups'[h].state = groups[h].state
             \/ groups'[h].state = "error"
             \/ groups'[h].state # "planned" /\ groups[h].vlan # NULL
  BY <1>1, <1>2 DEF GroupRow
<1> QED
  BY <1>3, <1>4, StateChangeKeepsTables

\* A new, unallocated row under a new key.
LEMMA InsertKeepsTables ==
    ASSUME TableInv, NEW g \in GroupId, NEW o \in Owner, NEW p \in Profile,
           InsertPlannedGroup(g, o, p)
    PROVE  TableInv'
<1> DEFINE inserted == [owner |-> o, profile |-> p, state |-> "planned", vlan |-> NULL]
<1>1. /\ g \notin DOMAIN groups
      /\ groups' = [k \in DOMAIN groups \cup {g} |-> IF k = g THEN inserted ELSE groups[k]]
      /\ UNCHANGED <<instances, deletes>>
  BY DEF InsertPlannedGroup, WithRow
<1>2. inserted \in GroupRow
  BY DEF GroupRow, GroupState
<1> HIDE DEF inserted
<1>3. /\ DOMAIN groups' = DOMAIN groups \cup {g}
      /\ groups'[g] = inserted
      /\ \A h \in DOMAIN groups : groups'[h] = groups[h]
  BY <1>1
<1>4. LedgerTypeOK'
  BY <1>1, <1>2 DEF TableInv, LedgerTypeOK
<1>5. inserted.vlan = NULL /\ inserted.state = "planned" /\ inserted.owner = o /\ inserted.profile = p
  BY DEF inserted
<1>6. VlanExclusive'
  BY <1>3, <1>5 DEF TableInv, VlanExclusive
<1>7. AllocationMatchesState'
  BY <1>3, <1>5 DEF TableInv, AllocationMatchesState
<1> QED
  BY <1>4, <1>6, <1>7 DEF TableInv

\* The claimed VLAN was nobody's.
LEMMA ClaimKeepsTables ==
    ASSUME TableInv, NEW g \in GroupId, ClaimSlot(g)
    PROVE  TableInv'
<1>1. PICK v \in FreeVlans :
          groups' = [groups EXCEPT ![g].vlan = v, ![g].state = "creating"]
  BY DEF ClaimSlot
<1>2. /\ g \in DOMAIN groups /\ groups \in [DOMAIN groups -> GroupRow]
      /\ UNCHANGED <<instances, deletes>>
  BY DEF ClaimSlot, TableInv, LedgerTypeOK
<1>3. /\ v \in Vlan
      /\ \A h \in DOMAIN groups : groups[h].vlan # v
  BY DEF FreeVlans, OccupiedVlans
<1>4. /\ DOMAIN groups' = DOMAIN groups
      /\ groups' \in [DOMAIN groups -> GroupRow]
      /\ groups'[g].vlan = v /\ groups'[g].state = "creating"
      /\ groups'[g].owner = groups[g].owner /\ groups'[g].profile = groups[g].profile
      /\ \A h \in DOMAIN groups \ {g} : groups'[h] = groups[h]
  BY <1>1, <1>2, <1>3 DEF GroupRow, GroupState
<1>5. LedgerTypeOK'
  BY <1>2, <1>4 DEF TableInv, LedgerTypeOK
<1>6. VlanExclusive'
  BY <1>3, <1>4 DEF TableInv, VlanExclusive
<1>7. AllocationMatchesState'
  BY <1>3, <1>4, LedgerAssumption DEF TableInv, AllocationMatchesState
<1> QED
  BY <1>5, <1>6, <1>7 DEF TableInv

\* Dropping a group leaves the other groups alone; its instances lose it.
LEMMA DropIsLocal ==
    ASSUME TableInv, NEW g \in DOMAIN groups, DropGroup(g)
    PROVE  /\ DOMAIN groups' = DOMAIN groups \ {g}
           /\ \A h \in DOMAIN groups' : groups'[h] = groups[h]
           /\ DOMAIN instances' = DOMAIN instances
           /\ instances' \in [DOMAIN instances -> InstanceRow]
           /\ \A i \in DOMAIN instances :
                /\ instances'[i].owner = instances[i].owner
                /\ instances'[i].group =
                        IF instances[i].group = g THEN NULL ELSE instances[i].group
<1>1. instances \in [DOMAIN instances -> InstanceRow]
  BY DEF TableInv, LedgerTypeOK
<1>2. instances' = [i \in DOMAIN instances |->
                        IF instances[i].group = g
                        THEN [instances[i] EXCEPT !.group = NULL]
                        ELSE instances[i]]
  BY DEF DropGroup
<1>3. groups' = [k \in DOMAIN groups \ {g} |-> groups[k]]
  BY DEF DropGroup, WithoutRow
<1>4. ASSUME NEW i \in DOMAIN instances
      PROVE  /\ instances'[i] \in InstanceRow
             /\ instances'[i].owner = instances[i].owner
             /\ instances'[i].group =
                    IF instances[i].group = g THEN NULL ELSE instances[i].group
  <2>1. CASE instances[i].group = g
    <3>1. instances'[i] = [instances[i] EXCEPT !.group = NULL]
      BY <1>2, <2>1
    <3> QED
      BY <1>1, <2>1, <3>1 DEF InstanceRow
  <2>2. CASE instances[i].group # g
    BY <1>1, <1>2, <2>2
  <2> QED
    BY <2>1, <2>2
<1> QED
  BY <1>2, <1>3, <1>4

\* What a DELETE that was waiting does: it takes a row in the state it asked for,
\* or nothing.
LEMMA TakeRowDrops ==
    ASSUME TableInv, NEW c \in Client, TakeRow(c)
    PROVE  /\ deletes[c] \in Deletion /\ deletes[c] # NULL
           /\ deletes' = [deletes EXCEPT ![c] = NULL]
           /\ \/ /\ deletes[c].group \in DOMAIN groups
                 /\ groups[deletes[c].group].state = deletes[c].state
                 /\ DropGroup(deletes[c].group)
              \/ UNCHANGED <<groups, instances>>
BY DEF TakeRow, TableInv, LedgerTypeOK

LEMMA TakeRowKeepsTables ==
    ASSUME TableInv, NEW c \in Client, TakeRow(c)
    PROVE  TableInv'
<1>1. deletes' \in [Client -> Deletion \cup {NULL}]
  BY TakeRowDrops DEF TableInv, LedgerTypeOK
<1>2. CASE UNCHANGED <<groups, instances>>
  BY <1>1, <1>2 DEF TableInv, LedgerTypeOK, VlanExclusive, AllocationMatchesState
<1>3. ASSUME NEW g \in DOMAIN groups, DropGroup(g) PROVE TableInv'
  <2>1. /\ DOMAIN groups' = DOMAIN groups \ {g}
        /\ \A h \in DOMAIN groups' : groups'[h] = groups[h]
        /\ DOMAIN instances' = DOMAIN instances
        /\ instances' \in [DOMAIN instances -> InstanceRow]
    BY <1>3, DropIsLocal
  <2>2. groups' = [k \in DOMAIN groups \ {g} |-> groups[k]]
    BY <1>3 DEF DropGroup, WithoutRow
  <2>3. LedgerTypeOK'
    BY <1>1, <2>1, <2>2 DEF TableInv, LedgerTypeOK
  <2>4. VlanExclusive'
    BY <2>1 DEF TableInv, VlanExclusive
  <2>5. AllocationMatchesState'
    BY <2>1 DEF TableInv, AllocationMatchesState
  <2> QED
    BY <2>3, <2>4, <2>5 DEF TableInv
<1> QED
  BY <1>2, <1>3, TakeRowDrops

LEMMA BeginDeleteKeepsTables ==
    ASSUME TableInv, NEW c \in Client, NEW g \in GroupId, NEW t \in {"planned", "deleting"},
           BeginDelete(c, g, t)
    PROVE  TableInv'
<1>1. deletes' \in [Client -> Deletion \cup {NULL}]
  BY DEF BeginDelete, Deletion, TableInv, LedgerTypeOK
<1> QED
  BY <1>1 DEF BeginDelete, TableInv, LedgerTypeOK, VlanExclusive, AllocationMatchesState

\* The instances table.
LEMMA InstanceStepKeepsTables ==
    ASSUME TableInv, NEW i \in InstanceId, InstanceStep(i)
    PROVE  TableInv'
<1> USE DEF TableInv, LedgerTypeOK
<1>0. UNCHANGED <<groups, deletes>>
  BY DEF InstanceStep, Reserve, FinaliseInstance, MarkQuarantined, DeleteInstanceRow
<1>1. ASSUME NEW o \in Owner, NEW g \in GroupId, NEW vmid \in VmId,
             Reserve(i, o, g, vmid)
      PROVE  /\ DOMAIN instances' \subseteq InstanceId
             /\ instances' \in [DOMAIN instances' -> InstanceRow]
  <2> DEFINE inserted == [owner |-> o, group |-> g, vmid |-> vmid,
                     provisioning |-> TRUE, quarantined |-> FALSE]
  <2>1. inserted \in InstanceRow
    BY <1>1 DEF Reserve, InstanceRow
  <2>2. instances' = [k \in DOMAIN instances \cup {i} |-> IF k = i THEN inserted ELSE instances[k]]
    BY <1>1 DEF Reserve, WithRow
  <2> HIDE DEF inserted
  <2> QED
    BY <1>0, <2>1, <2>2
<1>2. ASSUME FinaliseInstance(i) \/ MarkQuarantined(i)
      PROVE  /\ DOMAIN instances' \subseteq InstanceId
             /\ instances' \in [DOMAIN instances' -> InstanceRow]
  <2>1. instances \in [DOMAIN instances -> InstanceRow] /\ i \in DOMAIN instances
    BY <1>2 DEF FinaliseInstance, MarkQuarantined
  <2>2. \/ instances' = [instances EXCEPT ![i].provisioning = FALSE]
        \/ instances' = [instances EXCEPT ![i].quarantined = TRUE]
    BY <1>2 DEF FinaliseInstance, MarkQuarantined
  <2>3. /\ DOMAIN instances' = DOMAIN instances
        /\ \A k \in DOMAIN instances :
               instances'[k] \in InstanceRow
    <3>1. CASE instances' = [instances EXCEPT ![i].provisioning = FALSE]
      BY <2>1, <3>1 DEF InstanceRow
    <3>2. CASE instances' = [instances EXCEPT ![i].quarantined = TRUE]
      BY <2>1, <3>2 DEF InstanceRow
    <3> QED
      BY <2>2, <3>1, <3>2
  <2>4. instances' = [k \in DOMAIN instances |-> instances'[k]]
    BY <2>1, <2>2
  <2> QED
    BY <1>0, <2>3, <2>4
<1>3. ASSUME DeleteInstanceRow(i)
      PROVE  /\ DOMAIN instances' \subseteq InstanceId
             /\ instances' \in [DOMAIN instances' -> InstanceRow]
  BY <1>0, <1>3 DEF DeleteInstanceRow, WithoutRow
<1>4. /\ DOMAIN instances' \subseteq InstanceId
      /\ instances' \in [DOMAIN instances' -> InstanceRow]
  BY <1>1, <1>2, <1>3 DEF InstanceStep
<1>5. LedgerTypeOK'
  BY <1>0, <1>4
<1>6. VlanExclusive' /\ AllocationMatchesState'
  BY <1>0 DEF VlanExclusive, AllocationMatchesState
<1> QED
  BY <1>4, <1>5, <1>6

-----------------------------------------------------------------------------
\* The inductive argument over the statements.

LEMMA TablesInit == LedgerInit => TableInv
BY DEF LedgerInit, TableInv, LedgerTypeOK, VlanExclusive, AllocationMatchesState

LEMMA GroupStepKeepsTables ==
    ASSUME TableInv, NEW g \in GroupId, GroupStep(g)
    PROVE  TableInv'
<1>1. CASE \E o \in Owner, p \in Profile : InsertPlannedGroup(g, o, p)
  BY <1>1, InsertKeepsTables
<1>2. CASE ClaimSlot(g)
  BY <1>2, ClaimKeepsTables
<1>3. CASE ResumeErrored(g)
  BY <1>3, SetStateKeepsTables DEF ResumeErrored, GroupState
<1>4. CASE MarkNetworkGroupError(g)
  BY <1>4, SetStateKeepsTables DEF MarkNetworkGroupError, GroupState
<1>5. CASE MarkNetworkGroupActive(g)
  <2>1. g \in DOMAIN groups /\ groups[g].vlan # NULL
    BY <1>5 DEF MarkNetworkGroupActive, TableInv, AllocationMatchesState
  <2> QED
    BY <1>5, <2>1, SetStateKeepsTables DEF MarkNetworkGroupActive, GroupState
<1>6. CASE MarkNetworkGroupDeleting(g)
  BY <1>6, SetStateKeepsTables DEF MarkNetworkGroupDeleting, GroupState
<1>7. CASE \E c \in Client : DeleteNetworkGroupRecord(c, g) \/ DeleteUnusedPlannedGroup(c, g)
  BY <1>7, BeginDeleteKeepsTables DEF DeleteNetworkGroupRecord, DeleteUnusedPlannedGroup
<1> QED
  BY <1>1, <1>2, <1>3, <1>4, <1>5, <1>6, <1>7 DEF GroupStep

LEMMA RecoverKeepsTables ==
    ASSUME TableInv, RecoverStrandedGroups
    PROVE  TableInv'
<1>1. groups \in [DOMAIN groups -> GroupRow]
  BY DEF TableInv, LedgerTypeOK
<1>2. groups' = [g \in DOMAIN groups |-> IF g \in Stranded
                                          THEN [groups[g] EXCEPT !.state = "creating"]
                                          ELSE groups[g]]
  BY DEF RecoverStrandedGroups
<1>3. /\ DOMAIN groups' = DOMAIN groups
      /\ groups' \in [DOMAIN groups -> GroupRow]
  BY <1>1, <1>2 DEF GroupRow, GroupState
<1>4. \A g \in DOMAIN groups :
          /\ groups'[g].owner = groups[g].owner
          /\ groups'[g].profile = groups[g].profile
          /\ groups'[g].vlan = groups[g].vlan
          /\ \/ groups'[g].state = groups[g].state
             \/ groups'[g].state = "error"
             \/ groups'[g].state # "planned" /\ groups[g].vlan # NULL
  BY <1>1, <1>2 DEF GroupRow, Stranded, TableInv, AllocationMatchesState
<1> QED
  BY <1>3, <1>4, StateChangeKeepsTables DEF RecoverStrandedGroups

LEMMA TablesNext == TableInv /\ [LedgerNext]_ledgerVars => TableInv'
<1> SUFFICES ASSUME TableInv, [LedgerNext]_ledgerVars PROVE TableInv'
  OBVIOUS
<1>1. CASE \E g \in GroupId : GroupStep(g)
  BY <1>1, GroupStepKeepsTables
<1>2. CASE \E i \in InstanceId : InstanceStep(i)
  BY <1>2, InstanceStepKeepsTables
<1>3. CASE RecoverStrandedGroups
  BY <1>3, RecoverKeepsTables
<1>4. CASE UNCHANGED ledgerVars
  BY <1>4 DEF ledgerVars, TableInv, LedgerTypeOK, VlanExclusive, AllocationMatchesState
<1>5. CASE \E c \in Client : TakeRow(c)
  BY <1>5, TakeRowKeepsTables
<1> QED
  BY <1>1, <1>2, <1>3, <1>4, <1>5 DEF LedgerNext

\* Every row of both tables keeps its type, whatever the callers do.
THEOREM LedgerTypeCorrect == LedgerSpec => []LedgerTypeOK
<1>1. TableInv => LedgerTypeOK
  BY DEF TableInv
<1> QED
  BY TablesInit, TablesNext, <1>1, PTL DEF LedgerSpec

\* No interleaving of claims, retries and releases gives one VLAN to two groups.
THEOREM VlansAreExclusive == LedgerSpec => []VlanExclusive
<1>1. TableInv => VlanExclusive
  BY DEF TableInv
<1> QED
  BY TablesInit, TablesNext, <1>1, PTL DEF LedgerSpec

\* The schema's allocation/state check never refuses a statement.
THEOREM AllocationsMatchStates == LedgerSpec => []AllocationMatchesState
<1>1. TableInv => AllocationMatchesState
  BY DEF TableInv
<1> QED
  BY TablesInit, TablesNext, <1>1, PTL DEF LedgerSpec

-----------------------------------------------------------------------------
\* The quota.

LEMMA InstancesAreFinite ==
    ASSUME LedgerTypeOK, NEW o
    PROVE  IsFiniteSet(InstancesOf(o)) /\ Cardinality(InstancesOf(o)) \in Nat
<1>1. InstancesOf(o) \subseteq InstanceId
  BY DEF LedgerTypeOK, InstancesOf
<1> QED
  BY <1>1, LedgerAssumption, FS_Subset, FS_CardinalityType

\* A reservation adds one row to one owner, and only below that owner's limit.
LEMMA ReserveKeepsQuota ==
    ASSUME LedgerTypeOK, QuotaHolds,
           NEW i \in InstanceId, NEW owner \in Owner, NEW g \in GroupId, NEW vmid \in VmId,
           Reserve(i, owner, g, vmid)
    PROVE  QuotaHolds'
<1>1. /\ i \notin DOMAIN instances
      /\ DOMAIN instances' = DOMAIN instances \cup {i}
      /\ instances'[i].owner = owner
      /\ \A k \in DOMAIN instances : instances'[k] = instances[k]
  BY DEF Reserve, WithRow
<1>2. ASSUME NEW o \in Owner \ Exempt PROVE Cardinality(InstancesOf(o)') <= Limit
  <2>0. IsFiniteSet(InstancesOf(o)) /\ Cardinality(InstancesOf(o)) \in Nat
    BY InstancesAreFinite
  <2>1. CASE o = owner
    <3>1. InstancesOf(o)' = InstancesOf(o) \cup {i}
      BY <1>1, <2>1 DEF InstancesOf
    <3>2. i \notin InstancesOf(o)
      BY <1>1 DEF InstancesOf
    <3>3. Cardinality(InstancesOf(o) \cup {i}) = Cardinality(InstancesOf(o)) + 1
      BY <2>0, <3>2, FS_AddElement
    <3>4. Cardinality(InstancesOf(o)) < Limit
      BY <2>1 DEF Reserve, WithinLimit
    <3> QED
      BY <2>0, <3>1, <3>3, <3>4, LedgerAssumption
  <2>2. CASE o # owner
    <3>1. InstancesOf(o)' = InstancesOf(o)
      BY <1>1, <2>2 DEF InstancesOf
    <3> QED
      BY <3>1 DEF QuotaHolds
  <2> QED
    BY <2>1, <2>2
<1> QED
  BY <1>2 DEF QuotaHolds

\* Any other step leaves every owner the rows it had, or fewer.
LEMMA FewerRowsKeepQuota ==
    ASSUME LedgerTypeOK, QuotaHolds, DOMAIN instances' \subseteq DOMAIN instances,
           \A i \in DOMAIN instances' : instances'[i].owner = instances[i].owner
    PROVE  QuotaHolds'
<1>1. ASSUME NEW o \in Owner \ Exempt PROVE Cardinality(InstancesOf(o)') <= Limit
  <2>1. InstancesOf(o)' \subseteq InstancesOf(o)
    BY DEF InstancesOf
  <2>2. IsFiniteSet(InstancesOf(o)) /\ Cardinality(InstancesOf(o)) \in Nat
    BY InstancesAreFinite
  <2>3. /\ IsFiniteSet(InstancesOf(o)')
        /\ Cardinality(InstancesOf(o)') <= Cardinality(InstancesOf(o))
    BY <2>1, <2>2, FS_Subset
  <2>4. Cardinality(InstancesOf(o)') \in Nat
    BY <2>3, FS_CardinalityType
  <2> QED
    BY <2>2, <2>3, <2>4, LedgerAssumption DEF QuotaHolds
<1> QED
  BY <1>1 DEF QuotaHolds

LEMMA QuotaNext == TableInv /\ QuotaHolds /\ [LedgerNext]_ledgerVars => QuotaHolds'
<1> SUFFICES ASSUME TableInv, QuotaHolds, [LedgerNext]_ledgerVars PROVE QuotaHolds'
  OBVIOUS
<1>0. LedgerTypeOK
  BY DEF TableInv
<1>1. ASSUME NEW i \in InstanceId, NEW o \in Owner, NEW g \in GroupId, NEW vmid \in VmId,
             Reserve(i, o, g, vmid)
      PROVE QuotaHolds'
  BY <1>0, <1>1, ReserveKeepsQuota
<1>2. ASSUME NEW i \in InstanceId,
             FinaliseInstance(i) \/ MarkQuarantined(i) \/ DeleteInstanceRow(i)
      PROVE QuotaHolds'
  <2>1. /\ DOMAIN instances' \subseteq DOMAIN instances
        /\ \A k \in DOMAIN instances' : instances'[k].owner = instances[k].owner
    BY <1>0, <1>2 DEF FinaliseInstance, MarkQuarantined, DeleteInstanceRow, WithoutRow,
                      LedgerTypeOK, InstanceRow
  <2> QED
    BY <1>0, <2>1, FewerRowsKeepQuota
<1>3. ASSUME NEW g \in GroupId, GroupStep(g) PROVE QuotaHolds'
  <2>1. /\ DOMAIN instances' = DOMAIN instances
        /\ \A k \in DOMAIN instances' : instances'[k].owner = instances[k].owner
    BY <1>0, <1>3
       DEF GroupStep, InsertPlannedGroup, ClaimSlot, ResumeErrored, MarkNetworkGroupError,
           MarkNetworkGroupActive, MarkNetworkGroupDeleting, DeleteNetworkGroupRecord,
           DeleteUnusedPlannedGroup, BeginDelete
  <2> QED
    BY <1>0, <2>1, FewerRowsKeepQuota
<1>5. ASSUME NEW c \in Client, TakeRow(c) PROVE QuotaHolds'
  <2>1. /\ DOMAIN instances' = DOMAIN instances
        /\ \A k \in DOMAIN instances' : instances'[k].owner = instances[k].owner
    BY <1>5, TakeRowDrops, DropIsLocal
  <2> QED
    BY <1>0, <2>1, FewerRowsKeepQuota
<1>4. CASE RecoverStrandedGroups \/ UNCHANGED ledgerVars
  <2>1. instances' = instances
    BY <1>4 DEF RecoverStrandedGroups, ledgerVars
  <2> QED
    BY <2>1 DEF QuotaHolds, InstancesOf
<1> QED
  BY <1>1, <1>2, <1>3, <1>4, <1>5 DEF LedgerNext, InstanceStep

LEMMA QuotaInit == LedgerInit => QuotaHolds
<1> SUFFICES ASSUME LedgerInit, NEW o \in Owner \ Exempt
             PROVE  Cardinality(InstancesOf(o)) <= Limit
  BY DEF QuotaHolds
<1>1. InstancesOf(o) = {}
  BY DEF LedgerInit, InstancesOf
<1> QED
  BY <1>1, FS_EmptySet, LedgerAssumption

\* No bound owner ever holds more reservations and machines than the limit.
THEOREM QuotaIsNeverExceeded == LedgerSpec => []QuotaHolds
<1>1. LedgerInit => TableInv /\ QuotaHolds
  BY TablesInit, QuotaInit
<1>2. TableInv /\ QuotaHolds /\ [LedgerNext]_ledgerVars => (TableInv /\ QuotaHolds)'
  BY TablesNext, QuotaNext
<1> QED
  BY <1>1, <1>2, PTL DEF LedgerSpec

-----------------------------------------------------------------------------
\* The ledger implements VlanLease.

\* A statement that moves no VLAN, and no group in or out of `deleting`, and
\* changes nobody's occupancy, is invisible to the lease.
LEMMA GroupsUntouched ==
    ASSUME UNCHANGED groups
    PROVE  leaseOf' = leaseOf /\ retiringGroups' = retiringGroups
BY DEF leaseOf, retiringGroups

LEMMA InstancesUntouched ==
    ASSUME UNCHANGED instances
    PROVE  occupiedGroups' = occupiedGroups
BY DEF occupiedGroups

LEMMA DeletesUntouched ==
    ASSUME UNCHANGED deletes
    PROVE  returningGroups' = returningGroups
BY DEF returningGroups

\* Only the states of rows move: no lease does.
LEMMA StateMovesNoLease ==
    ASSUME TableInv, NEW g \in DOMAIN groups, NEW s \in GroupState, SetState(g, s)
    PROVE  /\ leaseOf' = leaseOf
           /\ retiringGroups' = IF s = "deleting" THEN retiringGroups \cup {g}
                                                ELSE retiringGroups \ {g}
<1>1. /\ DOMAIN groups' = DOMAIN groups
      /\ groups'[g].state = s
      /\ \A h \in DOMAIN groups : groups'[h].vlan = groups[h].vlan
      /\ \A h \in DOMAIN groups \ {g} : groups'[h].state = groups[h].state
  BY DEF SetState, TableInv, LedgerTypeOK, GroupRow
<1>2. leaseOf' = leaseOf
  BY <1>1 DEF leaseOf
<1> QED
  BY <1>1, <1>2 DEF retiringGroups

LEMMA ClaimGrants ==
    ASSUME TableInv, NEW g \in GroupId, ClaimSlot(g)
    PROVE  Lease!Grant(g)
<1>1. PICK v \in FreeVlans :
          /\ IsLowest(v, FreeVlans)
          /\ groups' = [groups EXCEPT ![g].vlan = v, ![g].state = "creating"]
  BY DEF ClaimSlot
<1>2. /\ g \in DOMAIN groups /\ groups[g].vlan = NULL /\ groups[g].state # "deleting"
      /\ groups \in [DOMAIN groups -> GroupRow] /\ DOMAIN groups \subseteq GroupId
      /\ UNCHANGED <<instances, deletes>>
  BY DEF ClaimSlot, TableInv, LedgerTypeOK
<1>3. /\ DOMAIN groups' = DOMAIN groups
      /\ groups'[g].vlan = v /\ groups'[g].state = "creating"
      /\ \A h \in DOMAIN groups \ {g} : groups'[h] = groups[h]
  BY <1>1, <1>2 DEF GroupRow
<1>4. Lease!Free = FreeVlans
  BY <1>2, LedgerAssumption DEF Lease!Free, leaseOf, FreeVlans, OccupiedVlans
<1>5. leaseOf' = [leaseOf EXCEPT ![g] = v]
  BY <1>2, <1>3 DEF leaseOf
<1>6. leaseOf[g] = NULL
  BY <1>2 DEF leaseOf
<1>7. retiringGroups' = retiringGroups
  BY <1>2, <1>3 DEF retiringGroups
<1>8. occupiedGroups' = occupiedGroups /\ returningGroups' = returningGroups
  BY <1>2, InstancesUntouched, DeletesUntouched
<1>9. \A w \in FreeVlans : v <= w
  BY <1>1 DEF IsLowest
<1> QED
  BY <1>4, <1>5, <1>6, <1>7, <1>8, <1>9 DEF Lease!Grant

LEMMA DropFrees ==
    ASSUME TableInv, NEW g \in DOMAIN groups, DropGroup(g)
    PROVE  /\ leaseOf' = [leaseOf EXCEPT ![g] = NULL]
           /\ retiringGroups' = retiringGroups \ {g}
           /\ occupiedGroups' = occupiedGroups \ {g}
<1>1. /\ DOMAIN groups' = DOMAIN groups \ {g}
      /\ \A h \in DOMAIN groups' : groups'[h] = groups[h]
      /\ DOMAIN instances' = DOMAIN instances
      /\ \A i \in DOMAIN instances :
            instances'[i].group = IF instances[i].group = g THEN NULL ELSE instances[i].group
  BY DropIsLocal
<1>2. DOMAIN groups \subseteq GroupId
  BY DEF TableInv, LedgerTypeOK
<1>3. leaseOf' = [leaseOf EXCEPT ![g] = NULL]
  BY <1>1, <1>2 DEF leaseOf
<1>4. retiringGroups' = retiringGroups \ {g}
  BY <1>1 DEF retiringGroups
<1>5. occupiedGroups' = occupiedGroups \ {g}
  BY <1>1, <1>2, LedgerAssumption DEF occupiedGroups
<1> QED
  BY <1>3, <1>4, <1>5

\* What the end of one session's DELETE leaves of the returns under way: another
\* session may be waiting for the same row.
LEMMA ReturnsEnd ==
    ASSUME TableInv, NEW c \in Client, deletes[c] \in Deletion, deletes[c] # NULL,
           deletes' = [deletes EXCEPT ![c] = NULL]
    PROVE  IF deletes[c].state = "deleting"
           THEN /\ deletes[c].group \in returningGroups
                /\ returningGroups' \in
                        {returningGroups, returningGroups \ {deletes[c].group}}
           ELSE returningGroups' = returningGroups
<1> DEFINE g == deletes[c].group
<1>0. NULL \notin GroupId /\ g \in GroupId
  BY LedgerAssumption DEF Deletion
<1>1. deletes \in [Client -> Deletion \cup {NULL}]
  BY DEF TableInv, LedgerTypeOK
<1>2. deletes'[c] = NULL /\ \A d \in Client \ {c} : deletes'[d] = deletes[d]
  BY <1>1
<1>3. CASE deletes[c].state = "deleting"
  <2>1. g \in returningGroups
    BY <1>3 DEF returningGroups
  <2>2. returningGroups' \subseteq returningGroups
    BY <1>2 DEF returningGroups
  <2>3. returningGroups \ {g} \subseteq returningGroups'
    BY <1>2 DEF returningGroups
  <2> QED
    BY <1>3, <2>1, <2>2, <2>3
<1>4. CASE deletes[c].state # "deleting"
  <2>1. returningGroups' = returningGroups
    BY <1>2, <1>4 DEF returningGroups
  <2> QED
    BY <1>4, <2>1
<1> QED
  BY <1>3, <1>4

LEMMA TakeRowIsLeaseStep ==
    ASSUME TableInv, NEW c \in Client, TakeRow(c)
    PROVE  [Lease!Next]_(Lease!vars)
<1> DEFINE g == deletes[c].group
           returns == deletes[c].state = "deleting"
<1> USE DEF Lease!Next, Lease!vars
<1>1. /\ g \in GroupId /\ deletes[c].state \in {"planned", "deleting"}
      /\ IF returns
         THEN /\ g \in returningGroups
              /\ returningGroups' \in {returningGroups, returningGroups \ {g}}
         ELSE returningGroups' = returningGroups
  BY TakeRowDrops, ReturnsEnd DEF Deletion
<1>2. CASE /\ g \in DOMAIN groups /\ groups[g].state = deletes[c].state
           /\ DropGroup(g)
  <2>1. /\ leaseOf' = [leaseOf EXCEPT ![g] = NULL]
        /\ retiringGroups' = retiringGroups \ {g}
        /\ occupiedGroups' = occupiedGroups \ {g}
    BY <1>2, DropFrees
  <2>2. CASE returns
    <3>1. g \in retiringGroups
      BY <1>2, <2>2 DEF retiringGroups
    <3>2. Lease!Return(g)
      BY <1>1, <2>1, <2>2, <3>1 DEF Lease!Return
    <3> QED
      BY <1>1, <3>2
  <2>3. CASE ~returns
    <3>1. leaseOf[g] = NULL /\ g \notin retiringGroups
      BY <1>1, <1>2, <2>3 DEF leaseOf, retiringGroups, TableInv, AllocationMatchesState
    <3>2. leaseOf' = leaseOf /\ retiringGroups' = retiringGroups
      BY <2>1, <3>1 DEF leaseOf
    <3>3. Lease!Vacate(g)
      BY <1>1, <2>1, <2>3, <3>2 DEF Lease!Vacate
    <3> QED
      BY <1>1, <3>3
  <2> QED
    BY <2>2, <2>3
<1>3. CASE UNCHANGED <<groups, instances>>
  <2>1. /\ leaseOf' = leaseOf /\ retiringGroups' = retiringGroups
        /\ occupiedGroups' = occupiedGroups
    BY <1>3, GroupsUntouched, InstancesUntouched
  <2>2. Lease!Lapse(g) \/ returningGroups' = returningGroups
    BY <1>1, <2>1 DEF Lease!Lapse
  <2> QED
    BY <1>1, <2>1, <2>2
<1> QED
  BY <1>2, <1>3, TakeRowDrops

LEMMA BeginDeleteIsLeaseStep ==
    ASSUME TableInv, NEW c \in Client, NEW g \in GroupId, NEW t \in {"planned", "deleting"},
           BeginDelete(c, g, t)
    PROVE  [Lease!Next]_(Lease!vars)
<1> USE DEF Lease!Next, Lease!vars
<1>1. /\ UNCHANGED <<groups, instances>>
      /\ g \in DOMAIN groups /\ groups[g].state = t /\ InstancesIn(g) = {}
      /\ deletes[c] = NULL
      /\ deletes' = [deletes EXCEPT ![c] = [group |-> g, state |-> t]]
  BY DEF BeginDelete
<1>2. /\ leaseOf' = leaseOf /\ retiringGroups' = retiringGroups
      /\ occupiedGroups' = occupiedGroups
  BY <1>1, GroupsUntouched, InstancesUntouched
<1> DEFINE new == [group |-> g, state |-> t]
<1>3. new.group = g /\ new.state = t
  OBVIOUS
<1>4. /\ deletes'[c] = new /\ new \in Deletion
      /\ \A d \in Client \ {c} : deletes'[d] = deletes[d]
  BY <1>1 DEF TableInv, LedgerTypeOK, Deletion
<1> HIDE DEF new
<1>5. CASE t = "planned"
  <2>1. returningGroups' = returningGroups
    BY <1>1, <1>3, <1>4, <1>5 DEF returningGroups
  <2> QED
    BY <1>2, <2>1
<1>6. CASE t = "deleting"
  <2>1. g \in retiringGroups /\ g \notin occupiedGroups
    BY <1>1, <1>6 DEF retiringGroups, occupiedGroups, InstancesIn
  <2>2. CASE new = NULL
    <3>1. returningGroups' = returningGroups
      BY <1>1, <1>4, <2>2 DEF returningGroups
    <3> QED
      BY <1>2, <3>1
  <2>3. CASE new # NULL
    <3>1. returningGroups' = returningGroups \cup {g}
      BY <1>1, <1>3, <1>4, <1>6, <2>3 DEF returningGroups
    <3>2. Lease!BeginReturn(g)
      BY <1>2, <2>1, <3>1 DEF Lease!BeginReturn
    <3> QED
      BY <3>2
  <2> QED
    BY <2>2, <2>3
<1> QED
  BY <1>5, <1>6

LEMMA GroupStepIsLeaseStep ==
    ASSUME TableInv, NEW g \in GroupId, GroupStep(g)
    PROVE  [Lease!Next]_(Lease!vars)
<1> USE DEF Lease!Next, Lease!vars
<1>1. CASE \E o \in Owner, p \in Profile : InsertPlannedGroup(g, o, p)
  <2>1. /\ DOMAIN groups' = DOMAIN groups \cup {g} /\ g \notin DOMAIN groups
        /\ groups'[g].vlan = NULL /\ groups'[g].state = "planned"
        /\ \A h \in DOMAIN groups : groups'[h] = groups[h]
        /\ UNCHANGED <<instances, deletes>>
    BY <1>1 DEF InsertPlannedGroup, WithRow
  <2>2. leaseOf' = leaseOf /\ retiringGroups' = retiringGroups
    BY <2>1 DEF leaseOf, retiringGroups
  <2> QED
    BY <2>1, <2>2, InstancesUntouched, DeletesUntouched
<1>2. CASE ClaimSlot(g)
  BY <1>2, ClaimGrants
<1>3. CASE ResumeErrored(g)
  <2>1. leaseOf' = leaseOf /\ retiringGroups' = retiringGroups \ {g} /\ g \notin retiringGroups
    BY <1>3, StateMovesNoLease DEF ResumeErrored, GroupState, retiringGroups
  <2> QED
    BY <1>3, <2>1, InstancesUntouched, DeletesUntouched DEF ResumeErrored
<1>4. CASE MarkNetworkGroupError(g)
  <2>1. leaseOf' = leaseOf /\ retiringGroups' = retiringGroups \ {g} /\ g \notin retiringGroups
    BY <1>4, StateMovesNoLease DEF MarkNetworkGroupError, GroupState, retiringGroups
  <2> QED
    BY <1>4, <2>1, InstancesUntouched, DeletesUntouched DEF MarkNetworkGroupError
<1>5. CASE MarkNetworkGroupActive(g)
  <2>1. leaseOf' = leaseOf /\ retiringGroups' = retiringGroups \ {g}
    BY <1>5, StateMovesNoLease DEF MarkNetworkGroupActive, GroupState
  <2>2. CASE g \in retiringGroups
    <3>1. Lease!Revive({g})
      BY <1>5, <2>1, InstancesUntouched, DeletesUntouched DEF Lease!Revive, MarkNetworkGroupActive
    <3> QED
      BY <2>2, <3>1
  <2>3. CASE g \notin retiringGroups
    BY <1>5, <2>1, <2>3, InstancesUntouched, DeletesUntouched DEF MarkNetworkGroupActive
  <2> QED
    BY <2>2, <2>3
<1>6. CASE MarkNetworkGroupDeleting(g)
  <2>1. leaseOf' = leaseOf /\ retiringGroups' = retiringGroups \cup {g}
    BY <1>6, StateMovesNoLease DEF MarkNetworkGroupDeleting, GroupState
  <2>2. leaseOf[g] # NULL /\ g \notin occupiedGroups
    BY <1>6 DEF MarkNetworkGroupDeleting, leaseOf, occupiedGroups, InstancesIn
  <2>3. Lease!Retire(g)
    BY <1>6, <2>1, <2>2, InstancesUntouched, DeletesUntouched DEF Lease!Retire, MarkNetworkGroupDeleting
  <2> QED
    BY <2>3
<1>7. CASE \E c \in Client : DeleteNetworkGroupRecord(c, g) \/ DeleteUnusedPlannedGroup(c, g)
  BY <1>7, BeginDeleteIsLeaseStep DEF DeleteNetworkGroupRecord, DeleteUnusedPlannedGroup
<1> QED
  BY <1>1, <1>2, <1>3, <1>4, <1>5, <1>6, <1>7 DEF GroupStep

LEMMA InstanceStepIsLeaseStep ==
    ASSUME TableInv, NEW i \in InstanceId, InstanceStep(i)
    PROVE  [Lease!Next]_(Lease!vars)
<1> USE DEF Lease!Next, Lease!vars
<1>0. UNCHANGED groups /\ returningGroups' = returningGroups
  BY DeletesUntouched
     DEF InstanceStep, Reserve, FinaliseInstance, MarkQuarantined, DeleteInstanceRow
<1>1. ASSUME NEW o \in Owner, NEW g \in GroupId, NEW vmid \in VmId,
             Reserve(i, o, g, vmid)
      PROVE  [Lease!Next]_(Lease!vars)
  <2>1. /\ DOMAIN instances' = DOMAIN instances \cup {i} /\ i \notin DOMAIN instances
        /\ instances'[i].group = g
        /\ \A k \in DOMAIN instances : instances'[k] = instances[k]
    BY <1>1 DEF Reserve, WithRow
  <2>2. occupiedGroups' = occupiedGroups \cup {g}
    BY <2>1, LedgerAssumption DEF occupiedGroups
  <2>3. Lease!Occupy(g)
    BY <1>0, <2>2, GroupsUntouched DEF Lease!Occupy
  <2> QED
    BY <2>3
<1>2. CASE FinaliseInstance(i) \/ MarkQuarantined(i)
  <2>1. /\ DOMAIN instances' = DOMAIN instances
        /\ \A k \in DOMAIN instances : instances'[k].group = instances[k].group
    BY <1>2 DEF FinaliseInstance, MarkQuarantined, TableInv, LedgerTypeOK, InstanceRow
  <2>2. occupiedGroups' = occupiedGroups
    BY <2>1 DEF occupiedGroups
  <2> QED
    BY <1>0, <2>2, GroupsUntouched
<1>3. CASE DeleteInstanceRow(i)
  <2> DEFINE g == instances[i].group
  <2>1. /\ i \in DOMAIN instances /\ DOMAIN instances' = DOMAIN instances \ {i}
        /\ \A k \in DOMAIN instances' : instances'[k] = instances[k]
    BY <1>3 DEF DeleteInstanceRow, WithoutRow
  <2>2. g \in GroupId \cup {NULL}
    BY <2>1 DEF TableInv, LedgerTypeOK, InstanceRow
  <2>3. CASE g \in occupiedGroups' \cup {NULL}
    <3>1. occupiedGroups' = occupiedGroups
      BY <2>1, <2>3 DEF occupiedGroups
    <3> QED
      BY <1>0, <3>1, GroupsUntouched
  <2>4. CASE g \notin occupiedGroups' \cup {NULL}
    <3>1. occupiedGroups' = occupiedGroups \ {g}
      BY <2>1, <2>4 DEF occupiedGroups
    <3>2. Lease!Vacate(g)
      BY <1>0, <3>1, GroupsUntouched DEF Lease!Vacate
    <3> QED
      BY <2>2, <2>4, <3>2
  <2> QED
    BY <2>3, <2>4
<1> QED
  BY <1>1, <1>2, <1>3 DEF InstanceStep

LEMMA RecoverIsLeaseStep ==
    ASSUME TableInv, RecoverStrandedGroups
    PROVE  Lease!Next
<1>1. /\ DOMAIN groups' = DOMAIN groups
      /\ \A g \in DOMAIN groups : groups'[g].vlan = groups[g].vlan
      /\ \A g \in DOMAIN groups \ Stranded : groups'[g].state = groups[g].state
      /\ \A g \in Stranded : groups'[g].state = "creating"
      /\ UNCHANGED <<instances, deletes>>
  BY DEF RecoverStrandedGroups, Stranded, TableInv, LedgerTypeOK, GroupRow
<1>2. leaseOf' = leaseOf
  BY <1>1 DEF leaseOf
<1>3. Stranded \subseteq retiringGroups /\ retiringGroups' = retiringGroups \ Stranded
  BY <1>1 DEF Stranded, retiringGroups
<1>4. Lease!Revive(Stranded)
  BY <1>1, <1>2, <1>3, InstancesUntouched, DeletesUntouched DEF Lease!Revive
<1> QED
  BY <1>3, <1>4 DEF Lease!Next

\* Every behaviour of the tables is a behaviour of VlanLease, the two steps of a
\* DELETE and the reservations between them included: the lowest free VLAN is
\* handed out, and it comes back only from a group that is still retired, and
\* that was empty when it was retired and when its DELETE began.
THEOREM LedgerImplementsLease == LedgerSpec => LeaseSpec
<1>1. LedgerInit => Lease!Init
  BY DEF LedgerInit, Lease!Init, leaseOf, retiringGroups, occupiedGroups,
         returningGroups
<1>2. TableInv /\ [LedgerNext]_ledgerVars => [Lease!Next]_(Lease!vars)
  <2> SUFFICES ASSUME TableInv, [LedgerNext]_ledgerVars PROVE [Lease!Next]_(Lease!vars)
    OBVIOUS
  <2>1. CASE \E g \in GroupId : GroupStep(g)
    BY <2>1, GroupStepIsLeaseStep
  <2>2. CASE \E i \in InstanceId : InstanceStep(i)
    BY <2>2, InstanceStepIsLeaseStep
  <2>3. CASE RecoverStrandedGroups
    BY <2>3, RecoverIsLeaseStep
  <2>4. CASE UNCHANGED ledgerVars
    BY <2>4, GroupsUntouched, InstancesUntouched, DeletesUntouched DEF ledgerVars, Lease!vars
  <2>5. CASE \E c \in Client : TakeRow(c)
    BY <2>5, TakeRowIsLeaseStep
  <2> QED
    BY <2>1, <2>2, <2>3, <2>4, <2>5 DEF LedgerNext
<1> QED
  BY <1>1, <1>2, TablesInit, TablesNext, PTL DEF LedgerSpec, LeaseSpec, Lease!Spec

-----------------------------------------------------------------------------
(* Provisioning.                                                           *)

\* A handler that is about to reserve or clone has chosen its VMID.
VmIdChosen == \A r \in Request : reqs[r].pc \in {"reserve", "clone"} => reqs[r].vmid # NULL

TypeInv == TypeOK /\ TableInv /\ VmIdChosen

-----------------------------------------------------------------------------
\* What the helpers that move one handler or one removal do to it.

ReqTypes == reqs \in [Request -> RequestState] /\ VmIdChosen

LEMMA GotoTyped ==
    ASSUME ReqTypes, NEW r \in Request, NEW s \in RequestStep \cup RequestEnd,
           s \notin {"reserve", "clone"}, Goto(r, s)
    PROVE  ReqTypes'
BY DEF ReqTypes, VmIdChosen, Goto, RequestState

LEMMA NewRequestTyped == NewRequest \in RequestState
BY DEF NewRequest, RequestState, RequestStep, NetStep

LEMMA FinishTyped ==
    ASSUME ReqTypes, NEW r \in Request, NEW s \in RequestEnd, Finish(r, s)
    PROVE  ReqTypes'
<1>1. [NewRequest EXCEPT !.pc = s] \in RequestState
  BY NewRequestTyped DEF NewRequest, RequestState
<1>2. [NewRequest EXCEPT !.pc = s].pc \notin {"reserve", "clone"}
  BY DEF NewRequest, RequestEnd
<1> QED
  BY <1>1, <1>2 DEF ReqTypes, VmIdChosen, Finish

\* One handler's record is replaced by another.
LEMMA ReplaceTyped ==
    ASSUME ReqTypes, NEW r \in Request, NEW q \in RequestState,
           q.pc \in {"reserve", "clone"} => q.vmid # NULL,
           reqs' = [reqs EXCEPT ![r] = q]
    PROVE  ReqTypes'
BY DEF ReqTypes, VmIdChosen

\* The network work moves three fields of one handler.
LEMMA NetTyped ==
    ASSUME ReqTypes, NEW r \in Request, NEW n \in NetStep,
           NEW D \in SUBSET Vlan, NEW C \in SUBSET Vlan,
           reqs' = [reqs EXCEPT ![r].net = n, ![r].desired = D, ![r].create = C]
    PROVE  ReqTypes'
<1> DEFINE new == [reqs[r] EXCEPT !.net = n, !.desired = D, !.create = C]
<1>1. reqs' = [reqs EXCEPT ![r] = new]
  BY DEF ReqTypes
<1>2. new \in RequestState
  BY DEF ReqTypes, RequestState
<1>3. reqs[r] \in RequestState
  BY DEF ReqTypes
<1>4. new.pc = reqs[r].pc /\ new.vmid = reqs[r].vmid
  BY <1>3 DEF RequestState
<1>5. new.pc \in {"reserve", "clone"} => new.vmid # NULL
  BY <1>4 DEF ReqTypes, VmIdChosen
<1> HIDE DEF new
<1> QED
  BY <1>1, <1>2, <1>5, ReplaceTyped

LEMMA JobTyped ==
    ASSUME TypeOK, NEW j \in Job, NEW s \in JobStep, JobDone(j) \/ JobGoto(j, s)
    PROVE  jobs' \in [Job -> JobState]
BY DEF TypeOK, JobDone, JobGoto, IdleJob, JobState, JobStep

LEMMA VmRemovedTyped ==
    ASSUME TypeOK, NEW m, vms' \in {vms, WithoutRow(vms, m)}
    PROVE  DOMAIN vms' \subseteq VmId /\ vms' \in [DOMAIN vms' -> Vm]
BY DEF TypeOK, WithoutRow

-----------------------------------------------------------------------------
\* Every step keeps the types of the handlers, of Proxmox and of the removals.

LEMMA ArrivalTyped ==
    ASSUME TypeInv, NEW r \in Request, Arrival(r)
    PROVE  ReqTypes'
<1>0. ReqTypes
  BY DEF TypeInv, TypeOK, ReqTypes
<1>1. CASE FastFail(r)
  BY <1>0, <1>1, FinishTyped DEF FastFail, RequestEnd
<1>2. CASE UpsertGroup(r)
  <2>1. PICK mode \in Modes, g \in Request :
            reqs' = [reqs EXCEPT ![r].pc = "attach", ![r].group = g, ![r].mode = mode]
    BY <1>2, ProvisioningAssumption DEF UpsertGroup, GroupsOf, TypeInv, TypeOK, LedgerTypeOK
  <2> DEFINE new == [reqs[r] EXCEPT !.pc = "attach", !.group = g, !.mode = mode]
  <2>2. mode \in NetworkMode
    BY ProvisioningAssumption
  <2>3. new \in RequestState /\ new.pc = "attach"
    BY <1>0, <2>2 DEF ReqTypes, RequestState, RequestStep
  <2>4. reqs' = [reqs EXCEPT ![r] = new]
    BY <1>0, <2>1 DEF ReqTypes
  <2> HIDE DEF new
  <2> QED
    BY <1>0, <2>3, <2>4, ReplaceTyped
<1> QED
  BY <1>1, <1>2 DEF Arrival

LEMMA HandlerTyped ==
    ASSUME TypeInv, NEW r \in Request, Handler(r)
    PROVE  ReqTypes'
<1>0. ReqTypes
  BY DEF TypeInv, TypeOK, ReqTypes
<1>1. CASE \/ AttachShared(r) \/ ChooseFails(r) \/ ReserveRefused(r) \/ Clone(r)
           \/ CloneRefused(r) \/ CloneDone(r) \/ CloneFails(r) \/ Configure(r)
           \/ ConfigureOrStartFails(r) \/ LookUp(r) \/ ApplyPolicy(r) \/ ApplyPolicyFails(r)
           \/ UndoVm(r) \/ DropRow(r) \/ RemoveUnfiltered(r) \/ RemoveUnfilteredFails(r)
           \/ RemoveUnfilteredRow(r) \/ Quarantine(r)
  <2>1. \E t \in (RequestStep \cup RequestEnd) \ {"reserve", "clone"} : Goto(r, t)
    BY <1>1 DEF AttachShared, ChooseFails, ReserveRefused, Clone, CloneRefused, CloneDone,
                CloneFails, Configure, ConfigureOrStartFails, LookUp, ApplyPolicy,
                ApplyPolicyFails, UndoVm, DropRow, RemoveUnfiltered, RemoveUnfilteredFails,
                RemoveUnfilteredRow, Quarantine, RequestStep, RequestEnd
  <2> QED
    BY <1>0, <2>1, GotoTyped
<1>2. CASE AttachRefused(r) \/ Promote(r) \/ Compensate(r)
  BY <1>0, <1>2, FinishTyped DEF AttachRefused, Promote, Compensate, RequestEnd
<1>3. CASE StartAndFinalise(r)
  <2>1. Goto(r, "lookup") \/ Finish(r, "ok")
    BY <1>3 DEF StartAndFinalise
  <2> QED
    BY <1>0, <2>1, GotoTyped, FinishTyped DEF RequestStep, RequestEnd
<1>4. CASE AttachIsolated(r)
  <2>1. groups'[reqs[r].group].vlan \in Vlan \cup {NULL}
    <3>1. reqs[r].group \in DOMAIN groups
      BY <1>4 DEF AttachIsolated, ClaimSlot, ResumeErrored
    <3>2. groups \in [DOMAIN groups -> GroupRow]
      BY DEF TypeInv, TypeOK, LedgerTypeOK
    <3>3. CASE ClaimSlot(reqs[r].group)
      BY <3>1, <3>2, <3>3 DEF ClaimSlot, FreeVlans, GroupRow
    <3>4. CASE ~ClaimSlot(reqs[r].group)
      BY <1>4, <3>1, <3>2, <3>4
         DEF AttachIsolated, ResumeErrored, SetState, OnTables, ledgerVars, GroupRow
    <3> QED
      BY <3>3, <3>4
  <2>2. reqs' = [reqs EXCEPT ![r].pc = "vmid", ![r].vlan = groups'[reqs[r].group].vlan]
    BY <1>4 DEF AttachIsolated
  <2> DEFINE v == groups'[reqs[r].group].vlan
             new == [reqs[r] EXCEPT !.pc = "vmid", !.vlan = v]
  <2> HIDE DEF v
  <2>3. new \in RequestState /\ new.pc = "vmid"
    BY <1>0, <2>1 DEF ReqTypes, RequestState, RequestStep, v
  <2>4. reqs' = [reqs EXCEPT ![r] = new]
    BY <1>0, <2>2 DEF ReqTypes, v
  <2> HIDE DEF new
  <2> QED
    BY <1>0, <2>3, <2>4, ReplaceTyped
<1>5. CASE ChooseVmId(r)
  <2>1. PICK m \in VmId : reqs' = [reqs EXCEPT ![r].pc = "reserve", ![r].vmid = m]
    BY <1>5 DEF ChooseVmId
  <2> DEFINE new == [reqs[r] EXCEPT !.pc = "reserve", !.vmid = m]
  <2>2. new \in RequestState /\ new.vmid = m
    BY <1>0 DEF ReqTypes, RequestState, RequestStep
  <2>3. reqs' = [reqs EXCEPT ![r] = new]
    BY <1>0, <2>1 DEF ReqTypes
  <2> HIDE DEF new
  <2> QED
    BY <1>0, <2>2, <2>3, ReplaceTyped, ProvisioningAssumption
<1>6. CASE ReserveRow(r)
  <2>1. PICK n \in {"plan", "off"} :
            reqs' = [reqs EXCEPT ![r].pc = "clone", ![r].net = n]
    BY <1>6 DEF ReserveRow
  <2>2. reqs[r].pc = "reserve" /\ reqs[r].vmid # NULL
    BY <1>0, <1>6 DEF ReserveRow, At, ReqTypes, VmIdChosen
  <2>3. n \in NetStep /\ "clone" \in RequestStep
    BY DEF NetStep, RequestStep
  <2> DEFINE new == [reqs[r] EXCEPT !.pc = "clone", !.net = n]
  <2>4. new \in RequestState /\ new.vmid = reqs[r].vmid
    BY <1>0, <2>3 DEF ReqTypes, RequestState
  <2>5. reqs' = [reqs EXCEPT ![r] = new]
    BY <1>0, <2>1 DEF ReqTypes
  <2> HIDE DEF new
  <2> QED
    BY <1>0, <2>2, <2>4, <2>5, ReplaceTyped
<1> QED
  BY <1>1, <1>2, <1>3, <1>4, <1>5, <1>6 DEF Handler

LEMMA OnlyNetTyped ==
    ASSUME ReqTypes, NEW r \in Request, NEW n \in NetStep,
           reqs' = [reqs EXCEPT ![r].net = n]
    PROVE  ReqTypes'
<1>1. reqs' \in [Request -> RequestState]
  BY DEF ReqTypes, RequestState
<1>2. \A q \in Request : reqs'[q].vmid = reqs[q].vmid /\ reqs'[q].pc = reqs[q].pc
  BY DEF ReqTypes, RequestState
<1> QED
  BY <1>1, <1>2 DEF ReqTypes, VmIdChosen

LEMMA PlansAreOfThePool ==
    ASSUME TableInv
    PROVE  OperationalVlans \subseteq Vlan
BY DEF OperationalVlans, IsOperational, TableInv, LedgerTypeOK, GroupRow,
       AllocationMatchesState

LEMMA NetworkWorkTyped ==
    ASSUME TypeInv, NEW r \in Request, NetworkWork(r)
    PROVE  ReqTypes' /\ vnets' \subseteq Vlan
<1>0. /\ ReqTypes /\ vnets \subseteq Vlan
      /\ reqs[r].create \subseteq Vlan
  BY DEF TypeInv, TypeOK, ReqTypes, RequestState
<1>1. CASE NetPlan(r)
  <2>1. OperationalVlans \in SUBSET Vlan /\ OperationalVlans \ vnets \in SUBSET Vlan
    BY PlansAreOfThePool DEF TypeInv
  <2>2. vnets' = vnets /\ "apply" \in NetStep
    BY <1>1 DEF NetPlan, ReqOnly, OnProxmox, NetStep
  <2>3. reqs' = [reqs EXCEPT ![r].net = "apply", ![r].desired = OperationalVlans,
                             ![r].create = OperationalVlans \ vnets]
    BY <1>1 DEF NetPlan
  <2> QED
    BY <1>0, <2>1, <2>2, <2>3, NetTyped
<1>2. CASE NetPlanFails(r)
  BY <1>0, <1>2, OnlyNetTyped DEF NetPlanFails, ReqOnly, OnProxmox, NetStep
<1>3. CASE NetApply(r)
  <2>1. PICK n \in {"policies", "failed"} :
            reqs' = [reqs EXCEPT ![r].net = n, ![r].desired = {}, ![r].create = {}]
    BY <1>3 DEF NetApply
  <2>2. vnets' \subseteq Vlan
    BY <1>0, <1>3 DEF NetApply
  <2>3. n \in NetStep /\ {} \in SUBSET Vlan
    BY DEF NetStep
  <2> QED
    BY <1>0, <2>1, <2>2, <2>3, NetTyped
<1>4. CASE NetApplyFails(r)
  <2>1. "failed" \in NetStep /\ {} \in SUBSET Vlan
    BY DEF NetStep
  <2>2. /\ reqs' = [reqs EXCEPT ![r].net = "failed", ![r].desired = {}, ![r].create = {}]
        /\ vnets' = vnets
    BY <1>4 DEF NetApplyFails, ReqOnly, OnProxmox
  <2> QED
    BY <1>0, <2>1, <2>2, NetTyped
<1>5. CASE NetPolicies(r)
  BY <1>0, <1>5, OnlyNetTyped DEF NetPolicies, ReqOnly, OnProxmox, NetStep
<1> QED
  BY <1>1, <1>2, <1>3, <1>4, <1>5 DEF NetworkWork

\* Proxmox keeps its types under every step of a handler.
LEMMA HandlerKeepsProxmox ==
    ASSUME TypeInv, NEW r \in Request, Arrival(r) \/ Handler(r)
    PROVE  /\ DOMAIN vms' \subseteq VmId
           /\ vms' \in [DOMAIN vms' -> Vm]
           /\ vnets' = vnets
<1>0. /\ DOMAIN vms \subseteq VmId
      /\ vms \in [DOMAIN vms -> Vm]
      /\ reqs[r] \in RequestState
  BY DEF TypeInv, TypeOK
<1>1. CASE UNCHANGED <<vms, vnets>>
  BY <1>0, <1>1
<1>2. CASE UndoVm(r) \/ RemoveUnfiltered(r)
  BY <1>2, VmRemovedTyped DEF UndoVm, RemoveUnfiltered, TypeInv
<1>3. CASE Clone(r)
  <2> DEFINE new == [bridge |-> NULL, policy |-> NULL, creator |-> r, wiredBy |-> NULL]
  <2>1. new \in Vm
    BY DEF Vm
  <2>2. reqs[r].vmid \in VmId
    BY <1>0, <1>3 DEF Clone, At, TypeInv, VmIdChosen, RequestState
  <2> HIDE DEF new
  <2>3. vms' = [k \in DOMAIN vms \cup {reqs[r].vmid} |->
                    IF k = reqs[r].vmid THEN new ELSE vms[k]]
    BY <1>3 DEF Clone, WithRow, new
  <2> QED
    BY <1>0, <1>3, <2>1, <2>2, <2>3 DEF Clone
<1>4. CASE Configure(r)
  <2>1. PICK b \in Vlan \cup {Shared, NULL} :
            vms' = [vms EXCEPT ![reqs[r].vmid].bridge = b, ![reqs[r].vmid].wiredBy = r]
    BY <1>0, <1>4 DEF Configure, RequestState
  <2> QED
    BY <1>0, <1>4, <2>1 DEF Configure, Vm
<1>5. CASE ApplyPolicy(r)
  BY <1>0, <1>5 DEF ApplyPolicy, Vm, RequestState
<1> QED
  BY <1>1, <1>2, <1>3, <1>4, <1>5
     DEF Arrival, Handler, FastFail, UpsertGroup, AttachShared, AttachIsolated,
         AttachRefused, ChooseVmId, ChooseFails, ReserveRow, ReserveRefused, CloneRefused,
         CloneDone, CloneFails, ConfigureOrStartFails, StartAndFinalise, LookUp,
         ApplyPolicyFails, Promote, DropRow, RemoveUnfilteredFails, RemoveUnfilteredRow,
         Quarantine, Compensate, ReqOnly, OnProxmox

LEMMA JobsTyped ==
    ASSUME TypeInv, NEW j \in Job, Removal(j) \/ Teardown(j)
    PROVE  /\ DOMAIN vms' \subseteq VmId
           /\ vms' \in [DOMAIN vms' -> Vm]
           /\ vnets' \subseteq Vlan
           /\ reqs' = reqs /\ crashes' = crashes
           /\ jobs' \in [Job -> JobState]
<1>0. TypeOK
  BY DEF TypeInv
<1>1. CASE RemoveVm(j)
  BY <1>0, <1>1, VmRemovedTyped, JobTyped DEF RemoveVm, JobStep, TypeOK
<1>2. CASE \/ RemoveVmFails(j) \/ RemoveRow(j) \/ Unplan(j) \/ MarkDeletingRefused(j)
           \/ CheckReferences(j) \/ TeardownFails(j) \/ Release(j)
  <2>1. /\ UNCHANGED <<vms, vnets, reqs, crashes>>
        /\ JobDone(j) \/ \E t \in JobStep : JobGoto(j, t)
    BY <1>2 DEF RemoveVmFails, RemoveRow, Unplan, MarkDeletingRefused, CheckReferences,
                TeardownFails, Release, JobOnly, OnProxmox, JobStep
  <2> QED
    BY <1>0, <2>1, JobTyped DEF TypeOK, JobStep
<1>3. CASE DeleteVnet(j)
  BY <1>0, <1>3, JobTyped DEF DeleteVnet, JobStep, TypeOK
<1>4. CASE MarkDeleting(j)
  <2> DEFINE g == jobs[j].group
             new == [IdleJob EXCEPT !.pc = "references", !.group = g,
                                    !.vlan = groups[g].vlan]
  <2>1. g \in DOMAIN groups /\ groups \in [DOMAIN groups -> GroupRow] /\ g \in Request
    BY <1>0, <1>4, ProvisioningAssumption
       DEF MarkDeleting, MarkNetworkGroupDeleting, TypeOK, LedgerTypeOK
  <2>2. new \in JobState
    BY <2>1 DEF IdleJob, JobState, JobStep, GroupRow
  <2>3. jobs' = [jobs EXCEPT ![j] = new] /\ UNCHANGED <<vms, vnets, reqs, crashes>>
    BY <1>4 DEF MarkDeleting, OnProxmox
  <2> HIDE DEF new
  <2> QED
    BY <1>0, <2>2, <2>3 DEF TypeOK
<1> QED
  BY <1>1, <1>2, <1>3, <1>4 DEF Removal, Teardown

LEMMA BeginTyped ==
    ASSUME TypeInv, NEW j \in Job, NEW r \in Request,
           BeginRemoval(j, r) \/ OperatorRelease(j, r)
    PROVE  jobs' \in [Job -> JobState]
<1>0. jobs \in [Job -> JobState] /\ LedgerTypeOK
  BY DEF TypeInv, TypeOK
<1>1. CASE BeginRemoval(j, r)
  <2> DEFINE new == [pc |-> "vm", inst |-> r, vmid |-> instances[r].vmid,
                     group |-> instances[r].group, vlan |-> NULL]
  <2>1. new \in JobState
    BY <1>0, <1>1, ProvisioningAssumption
       DEF BeginRemoval, JobState, JobStep, LedgerTypeOK, InstanceRow
  <2>2. jobs' = [jobs EXCEPT ![j] = new]
    BY <1>1 DEF BeginRemoval
  <2> HIDE DEF new
  <2> QED
    BY <1>0, <2>1, <2>2
<1>2. CASE OperatorRelease(j, r)
  <2> DEFINE new == [IdleJob EXCEPT !.pc = "mark", !.group = r]
  <2>1. new \in JobState
    BY DEF IdleJob, JobState, JobStep
  <2>2. jobs' = [jobs EXCEPT ![j] = new]
    BY <1>2 DEF OperatorRelease
  <2> HIDE DEF new
  <2> QED
    BY <1>0, <2>1, <2>2
<1> QED
  BY <1>1, <1>2

LEMMA CrashTyped ==
    ASSUME TypeInv, Crash
    PROVE  ReqTypes' /\ jobs' \in [Job -> JobState] /\ crashes' \in 0..MaxCrashes
<1>1. /\ reqs \in [Request -> RequestState] /\ VmIdChosen /\ crashes \in 0..MaxCrashes
  BY DEF TypeInv, TypeOK
<1>2. /\ [NewRequest EXCEPT !.pc = "dead"] \in RequestState
      /\ [NewRequest EXCEPT !.pc = "dead"].pc = "dead"
  BY NewRequestTyped DEF NewRequest, RequestState, RequestEnd
<1>3. reqs' \in [Request -> RequestState]
  BY <1>1, <1>2 DEF Crash
<1>4. VmIdChosen'
  BY <1>1, <1>2 DEF Crash, VmIdChosen
<1>5. IdleJob \in JobState
  BY DEF IdleJob, JobState, JobStep
<1>6. crashes' \in 0..MaxCrashes
  BY <1>1, ProvisioningAssumption DEF Crash
<1> QED
  BY <1>3, <1>4, <1>5, <1>6 DEF ReqTypes, Crash

-----------------------------------------------------------------------------
\* Every step on the tables is a step of the ledger.

LEMMA RequestStepsLedger ==
    ASSUME TypeInv, NEW r \in Request, Arrival(r) \/ Handler(r) \/ NetworkWork(r)
    PROVE  [LedgerNext]_ledgerVars
<1>0. /\ DOMAIN groups \subseteq GroupId
      /\ r \in GroupId /\ r \in InstanceId /\ r \in Client
      /\ OwnerOf[r] \in Owner /\ ProfileOf[r] \in Profile
      /\ reqs[r] \in RequestState
  BY ProvisioningAssumption DEF TypeInv, TypeOK, LedgerTypeOK
<1>1. CASE UNCHANGED ledgerVars
  BY <1>1
<1>2. CASE UpsertGroup(r)
  <2>1. InsertPlannedGroup(r, OwnerOf[r], ProfileOf[r]) \/ UNCHANGED ledgerVars
    BY <1>2 DEF UpsertGroup, OnTables
  <2> QED
    BY <1>0, <2>1 DEF LedgerNext, GroupStep
<1>3. CASE AttachIsolated(r)
  <2>1. \/ reqs[r].group \in GroupId /\ ClaimSlot(reqs[r].group)
        \/ reqs[r].group \in GroupId /\ ResumeErrored(reqs[r].group)
        \/ UNCHANGED ledgerVars
    BY <1>0, <1>3 DEF AttachIsolated, OnTables, ClaimSlot, ResumeErrored
  <2> QED
    BY <2>1 DEF LedgerNext, GroupStep
<1>4. CASE ReserveRow(r)
  <2>1. /\ Reserve(r, OwnerOf[r], reqs[r].group, reqs[r].vmid)
        /\ reqs[r].group \in GroupId
        /\ reqs[r].vmid \in VmId
    BY <1>0, <1>4 DEF ReserveRow, Reserve, At, TypeInv, VmIdChosen, RequestState
  <2> QED
    BY <1>0, <2>1 DEF LedgerNext, InstanceStep
<1>5. CASE \/ StartAndFinalise(r) \/ DropRow(r) \/ RemoveUnfilteredRow(r) \/ Quarantine(r)
  <2>1. \/ FinaliseInstance(r) \/ DeleteInstanceRow(r) \/ MarkQuarantined(r)
        \/ UNCHANGED ledgerVars
    BY <1>5 DEF StartAndFinalise, DropRow, RemoveUnfilteredRow, Quarantine, IfMatched,
                OnTables
  <2> QED
    BY <1>0, <2>1 DEF LedgerNext, InstanceStep
<1>6. CASE Promote(r) \/ Compensate(r)
  <2>1. \/ /\ reqs[r].group \in GroupId
           /\ \/ MarkNetworkGroupActive(reqs[r].group)
              \/ MarkNetworkGroupError(reqs[r].group)
              \/ DeleteUnusedPlannedGroup(r, reqs[r].group)
        \/ UNCHANGED ledgerVars
    BY <1>0, <1>6 DEF Promote, Compensate, IfMatched, OnTables
  <2> QED
    BY <1>0, <2>1 DEF LedgerNext, GroupStep
<1> QED
  BY <1>1, <1>2, <1>3, <1>4, <1>5, <1>6
     DEF Arrival, Handler, NetworkWork, FastFail, AttachShared, AttachRefused, ChooseVmId,
         ChooseFails, ReserveRefused, Clone, CloneRefused, CloneDone, CloneFails, Configure,
         ConfigureOrStartFails, LookUp, ApplyPolicy, ApplyPolicyFails, UndoVm,
         RemoveUnfiltered, RemoveUnfilteredFails, NetPlan, NetPlanFails, NetApply,
         NetApplyFails, NetPolicies, ReqOnly, OnTables

LEMMA JobStepsLedger ==
    ASSUME TypeInv, NEW j \in Job, Removal(j) \/ Teardown(j)
    PROVE  [LedgerNext]_ledgerVars
<1>0. /\ DOMAIN groups \subseteq GroupId /\ DOMAIN instances \subseteq InstanceId
      /\ j \in Client
  BY ProvisioningAssumption DEF TypeInv, TypeOK, LedgerTypeOK
<1>1. CASE UNCHANGED ledgerVars
  BY <1>1
<1>2. CASE RemoveRow(j)
  <2>1. \/ jobs[j].inst \in InstanceId /\ DeleteInstanceRow(jobs[j].inst)
        \/ UNCHANGED ledgerVars
    BY <1>0, <1>2 DEF RemoveRow, IfMatched, OnTables
  <2> QED
    BY <2>1 DEF LedgerNext, InstanceStep
<1>3. CASE Unplan(j) \/ MarkDeleting(j) \/ Release(j)
  <2>1. \/ /\ jobs[j].group \in GroupId
           /\ \/ DeleteUnusedPlannedGroup(j, jobs[j].group)
              \/ MarkNetworkGroupDeleting(jobs[j].group)
              \/ DeleteNetworkGroupRecord(j, jobs[j].group)
        \/ UNCHANGED ledgerVars
    BY <1>0, <1>3 DEF Unplan, MarkDeleting, Release, IfMatched, OnTables,
                      MarkNetworkGroupDeleting
  <2> QED
    BY <1>0, <2>1 DEF LedgerNext, GroupStep
<1> QED
  BY <1>1, <1>2, <1>3
     DEF Removal, Teardown, RemoveVm, RemoveVmFails, MarkDeletingRefused, CheckReferences,
         DeleteVnet, TeardownFails, JobOnly, OnTables

LEMMA StepsLedger == TypeInv /\ [Next]_vars => [LedgerNext]_ledgerVars
<1> SUFFICES ASSUME TypeInv, [Next]_vars PROVE [LedgerNext]_ledgerVars
  OBVIOUS
<1>1. CASE \E r \in Request : Arrival(r) \/ Handler(r) \/ NetworkWork(r)
  BY <1>1, RequestStepsLedger
<1>2. CASE \E j \in Job : Removal(j) \/ Teardown(j)
  BY <1>2, JobStepsLedger
<1>3. CASE DriftRecover
  BY <1>3 DEF DriftRecover, LedgerNext
<1>5. CASE \E c \in Client : DeleteEnds(c)
  BY <1>5 DEF DeleteEnds, LedgerNext
<1>4. CASE \/ \E r \in Request : DriftRepair(r)
           \/ \E j \in Job, r \in Request : BeginRemoval(j, r) \/ OperatorRelease(j, r)
           \/ Crash
           \/ UNCHANGED vars
  BY <1>4 DEF DriftRepair, BeginRemoval, OperatorRelease, Crash, JobOnly, OnTables, vars,
              ledgerVars
<1> QED
  BY <1>1, <1>2, <1>3, <1>4, <1>5 DEF Next

-----------------------------------------------------------------------------
\* Type correctness, and the refinement.

LEMMA ProvisioningInit == Init => TypeInv
<1> SUFFICES ASSUME Init PROVE TypeInv
  OBVIOUS
<1>1. TableInv
  BY TablesInit DEF Init
<1>2. TypeOK
  BY <1>1, NewRequestTyped, ProvisioningAssumption
     DEF Init, TypeOK, TableInv, IdleJob, JobState, JobStep
<1>3. VmIdChosen
  BY DEF Init, VmIdChosen, NewRequest
<1> QED
  BY <1>1, <1>2, <1>3 DEF TypeInv

LEMMA TypeNext == TypeInv /\ [Next]_vars => TypeInv'
<1> SUFFICES ASSUME TypeInv, [Next]_vars PROVE TypeInv'
  OBVIOUS
<1>1. TableInv'
  BY StepsLedger, TablesNext DEF TypeInv
<1>2. LedgerTypeOK'
  BY <1>1 DEF TableInv
<1>3. TypeOK /\ VmIdChosen
  BY DEF TypeInv
<1>4. /\ ReqTypes'
      /\ DOMAIN vms' \subseteq VmId /\ vms' \in [DOMAIN vms' -> Vm] /\ vnets' \subseteq Vlan
      /\ jobs' \in [Job -> JobState]
      /\ crashes' \in 0..MaxCrashes
  <2>1. CASE \E r \in Request : Arrival(r) \/ Handler(r)
    <3>1. PICK r \in Request : Arrival(r) \/ Handler(r)
      BY <2>1
    <3>2. UNCHANGED <<jobs, crashes>>
      BY <3>1 DEF Arrival, Handler, FastFail, UpsertGroup, AttachShared, AttachIsolated,
         AttachRefused, ChooseVmId, ChooseFails, ReserveRow, ReserveRefused, Clone,
         CloneRefused, CloneDone, CloneFails, Configure, ConfigureOrStartFails,
         StartAndFinalise, LookUp, ApplyPolicy, ApplyPolicyFails, Promote, UndoVm, DropRow,
         RemoveUnfiltered, RemoveUnfilteredFails, RemoveUnfilteredRow, Quarantine,
         Compensate, ReqOnly
    <3> QED
      BY <1>3, <3>1, <3>2, ArrivalTyped, HandlerTyped, HandlerKeepsProxmox DEF TypeOK
  <2>2. CASE \E r \in Request : NetworkWork(r)
    <3>1. PICK r \in Request : NetworkWork(r)
      BY <2>2
    <3>2. UNCHANGED <<vms, jobs, crashes>>
      BY <3>1 DEF NetworkWork, NetPlan, NetPlanFails, NetApply, NetApplyFails, NetPolicies,
                  ReqOnly, OnProxmox
    <3> QED
      BY <1>3, <3>1, <3>2, NetworkWorkTyped DEF TypeOK
  <2>3. CASE \E j \in Job : Removal(j) \/ Teardown(j)
    BY <1>3, <2>3, JobsTyped DEF TypeOK, ReqTypes, VmIdChosen
  <2>4. CASE \E j \in Job, r \in Request : BeginRemoval(j, r) \/ OperatorRelease(j, r)
    BY <1>3, <2>4, BeginTyped
       DEF BeginRemoval, OperatorRelease, JobOnly, OnProxmox, TypeOK, ReqTypes, VmIdChosen
  <2>5. CASE \E r \in Request : DriftRepair(r)
    <3>1. PICK r \in Request : DriftRepair(r)
      BY <2>5
    <3>2. instances[r].group \in Request
      BY <1>3, <3>1, ProvisioningAssumption
         DEF DriftRepair, FirewallDrifted, TypeOK, LedgerTypeOK
    <3>3. DOMAIN vms' = DOMAIN vms /\ vms' \in [DOMAIN vms -> Vm]
      BY <1>3, <3>1, <3>2 DEF DriftRepair, TypeOK, Vm
    <3> QED
      BY <1>3, <3>1, <3>3 DEF DriftRepair, TypeOK, ReqTypes, VmIdChosen
  <2>6. CASE Crash
    BY <1>3, <2>6, CrashTyped DEF Crash, OnProxmox, TypeOK
  <2>7. CASE DriftRecover \/ (\E c \in Client : DeleteEnds(c)) \/ UNCHANGED vars
    BY <1>3, <2>7 DEF DriftRecover, DeleteEnds, vars, OnProxmox, TypeOK, ReqTypes, VmIdChosen
  <2> QED
    BY <2>1, <2>2, <2>3, <2>4, <2>5, <2>6, <2>7 DEF Next
<1> QED
  BY <1>1, <1>2, <1>4 DEF TypeInv, TypeOK, ReqTypes

\* Handlers, removals, Proxmox and the tables keep their types.
THEOREM ProvisioningTypeCorrect == Spec => []TypeOK
<1>1. TypeInv => TypeOK
  BY DEF TypeInv
<1> QED
  BY ProvisioningInit, TypeNext, <1>1, PTL DEF Spec

\* Whatever handlers, removals, teardowns, the drift pass and crashes do to the
\* two tables is what the ledger allows.
THEOREM ProvisioningImplementsLedger == Spec => LedgerSpec
<1>1. Init => LedgerInit
  BY DEF Init
<1> QED
  BY ProvisioningInit, TypeNext, StepsLedger, <1>1, PTL DEF Spec, LedgerSpec

\* What the ledger promises, the program keeps: the quota, ...
THEOREM ProvisioningKeepsQuota == Spec => []QuotaHolds
BY ProvisioningImplementsLedger, QuotaIsNeverExceeded, PTL

\* ... and the lease of a VLAN, through the DELETE that outruns a reservation, and
\* the one a dead process left behind.
THEOREM ProvisioningImplementsLease == Spec => LeaseSpec
BY ProvisioningImplementsLedger, LedgerImplementsLease, PTL

-----------------------------------------------------------------------------
\* Isolation.  AttachedVlanIsHeld is not inductive: that a handler's VLAN is
\* still its group's when configVM writes it rests on the reservation having
\* been made for the very group the VLAN was read from, on group ids never
\* coming back, and on the handler's row not existing, nor any VM it wired,
\* before it reserves.  A DELETE that had begun may still take the group from
\* under the reservation; but the network plan is refused then, and once it was
\* made the group is settled: it is not in a state a DELETE asks for, and cannot
\* be brought into one while the instance is in it.

Early == {"new", "attach", "vmid", "reserve"}

Settled(g) == g \in DOMAIN groups /\ groups[g].state \notin {"planned", "deleting"}

NothingBeforeReservation ==
    \A r \in Request : reqs[r].pc \in Early =>
        r \notin DOMAIN instances /\ \A m \in DOMAIN vms : vms[m].wiredBy # r

NoVlanBeforeAttachment == \A r \in Request : reqs[r].pc = "new" => reqs[r].vlan = NULL

GroupsComeFromRequests == \A g \in DOMAIN groups : reqs[g].pc # "new"

HandlersKnowTheirGroup ==
    \A r \in Request : reqs[r].group # NULL =>
        LET g == reqs[r].group IN
        /\ reqs[g].pc # "new"
        /\ g \in DOMAIN groups =>
            groups[g].owner = OwnerOf[r] /\ groups[g].profile = ProfileOf[r]

RowsKnowTheirGroup ==
    \A i \in DOMAIN instances :
        LET g == instances[i].group IN
        g # NULL =>
            /\ g \in DOMAIN groups
            /\ groups[g].owner = OwnerOf[i] /\ groups[g].profile = ProfileOf[i]

HandlersKnowTheirVlan ==
    \A r \in Request : reqs[r].vlan # NULL =>
        LET g == reqs[r].group IN
        /\ g # NULL /\ reqs[r].mode = "active"
        /\ g \in DOMAIN groups => groups[g].vlan = reqs[r].vlan
        /\ r \in DOMAIN instances =>
            \/ instances[r].group = g
            \/ instances[r].group = NULL /\ g \notin DOMAIN groups

PlannedGroupsAreSettled ==
    \A r \in Request : r \in DOMAIN instances =>
        (reqs[r].vlan # NULL /\ reqs[r].net \notin {"plan", "failed"} =>
            Settled(instances[r].group))

ConfiguredIsReady ==
    \A r \in Request : reqs[r].pc = "config" => reqs[r].net \in {"off", "ready"}

WiredGroupsAreSettled ==
    \A m \in Wired :
        LET g == instances[vms[m].wiredBy].group IN
        Settled(g) /\ groups[g].vlan = vms[m].bridge

IsolationInv ==
    /\ NothingBeforeReservation
    /\ NoVlanBeforeAttachment
    /\ GroupsComeFromRequests
    /\ HandlersKnowTheirGroup
    /\ RowsKnowTheirGroup
    /\ HandlersKnowTheirVlan
    /\ PlannedGroupsAreSettled
    /\ ConfiguredIsReady
    /\ WiredGroupsAreSettled

\* What no statement changes in a row that stays: whose it is, a VLAN once
\* claimed, and the group an instance is in.
GroupRowsKept ==
    \A g \in DOMAIN groups \cap DOMAIN groups' :
        /\ groups'[g].owner = groups[g].owner
        /\ groups'[g].profile = groups[g].profile
        /\ groups[g].vlan # NULL => groups'[g].vlan = groups[g].vlan

\* An instance keeps its group, or both lose each other; a settled group with an
\* instance in it stays settled.
InstanceRowsKept ==
    \A i \in DOMAIN instances \cap DOMAIN instances' :
        LET g == instances[i].group IN
        /\ \/ instances'[i].group = g /\ (g \in DOMAIN groups => g \in DOMAIN groups')
           \/ instances'[i].group = NULL /\ g \in DOMAIN groups /\ g \notin DOMAIN groups'
        /\ Settled(g) =>
            /\ instances'[i].group = g
            /\ g \in DOMAIN groups' /\ groups'[g].state \notin {"planned", "deleting"}

LEMMA LedgerKeepsRows ==
    ASSUME TableInv, [LedgerNext]_ledgerVars
    PROVE  GroupRowsKept /\ InstanceRowsKept
<1> USE DEF GroupRowsKept, InstanceRowsKept, Settled
<1>0. groups \in [DOMAIN groups -> GroupRow] /\ instances \in [DOMAIN instances -> InstanceRow]
  BY DEF TableInv, LedgerTypeOK
<1>1. CASE UNCHANGED <<groups, instances>>
  BY <1>1
<1>2. CASE RecoverStrandedGroups
  BY <1>0, <1>2 DEF RecoverStrandedGroups, GroupRow
<1>3. ASSUME NEW g \in GroupId,
             \/ ResumeErrored(g) \/ MarkNetworkGroupError(g)
             \/ MarkNetworkGroupActive(g) \/ MarkNetworkGroupDeleting(g)
      PROVE  GroupRowsKept /\ InstanceRowsKept
  <2>1. /\ UNCHANGED instances
        /\ \E t \in GroupState :
            SetState(g, t) /\ (t \in {"planned", "deleting"} => InstancesIn(g) = {})
    BY <1>3 DEF ResumeErrored, MarkNetworkGroupError, MarkNetworkGroupActive,
                MarkNetworkGroupDeleting, GroupState
  <2>2. PICK t \in GroupState :
            SetState(g, t) /\ (t \in {"planned", "deleting"} => InstancesIn(g) = {})
    BY <2>1
  <2>3. /\ DOMAIN groups' = DOMAIN groups
        /\ \A h \in DOMAIN groups :
            /\ groups'[h].owner = groups[h].owner /\ groups'[h].profile = groups[h].profile
            /\ groups'[h].vlan = groups[h].vlan
            /\ groups'[h].state = (IF h = g THEN t ELSE groups[h].state)
    BY <1>0, <2>2 DEF SetState, GroupRow
  <2> QED
    BY <2>1, <2>2, <2>3 DEF InstancesIn
<1>4. ASSUME NEW g \in GroupId, ClaimSlot(g)
      PROVE  GroupRowsKept /\ InstanceRowsKept
  <2>1. PICK v : groups' = [groups EXCEPT ![g].vlan = v, ![g].state = "creating"]
    BY <1>4 DEF ClaimSlot
  <2>2. UNCHANGED instances /\ g \in DOMAIN groups /\ groups[g].vlan = NULL
    BY <1>4 DEF ClaimSlot
  <2>3. /\ DOMAIN groups' = DOMAIN groups
        /\ \A h \in DOMAIN groups :
            /\ groups'[h].owner = groups[h].owner /\ groups'[h].profile = groups[h].profile
            /\ groups'[h].vlan = (IF h = g THEN v ELSE groups[h].vlan)
            /\ groups'[h].state = (IF h = g THEN "creating" ELSE groups[h].state)
    BY <1>0, <2>1 DEF GroupRow
  <2> QED
    BY <2>2, <2>3
<1>5. ASSUME NEW g \in GroupId, NEW o \in Owner, NEW p \in Profile,
             InsertPlannedGroup(g, o, p)
      PROVE  GroupRowsKept /\ InstanceRowsKept
  <2>1. /\ UNCHANGED instances /\ g \notin DOMAIN groups
        /\ DOMAIN groups' = DOMAIN groups \cup {g}
        /\ \A h \in DOMAIN groups : groups'[h] = groups[h]
    BY <1>5 DEF InsertPlannedGroup, WithRow
  <2> QED
    BY <2>1
<1>6. ASSUME NEW g \in DOMAIN groups, groups[g].state \in {"planned", "deleting"}, DropGroup(g)
      PROVE  GroupRowsKept /\ InstanceRowsKept
  <2>1. /\ DOMAIN groups' = DOMAIN groups \ {g}
        /\ \A h \in DOMAIN groups' : groups'[h] = groups[h]
        /\ \A i \in DOMAIN instances :
            instances'[i].group = IF instances[i].group = g THEN NULL ELSE instances[i].group
    BY <1>6, DropIsLocal
  <2> QED
    BY <1>6, <2>1
<1>7. ASSUME NEW c \in Client, TakeRow(c) PROVE GroupRowsKept /\ InstanceRowsKept
  BY <1>1, <1>6, <1>7, TakeRowDrops DEF Deletion
<1>8. ASSUME NEW i \in InstanceId, InstanceStep(i)
      PROVE  GroupRowsKept /\ InstanceRowsKept
  <2>1. /\ UNCHANGED groups
        /\ \A k \in DOMAIN instances \cap DOMAIN instances' :
                instances'[k].group = instances[k].group
    BY <1>0, <1>8 DEF InstanceStep, Reserve, FinaliseInstance, MarkQuarantined,
       DeleteInstanceRow, WithRow, WithoutRow, InstanceRow
  <2> QED
    BY <2>1
<1>9. CASE \E g \in GroupId, c \in Client :
              DeleteNetworkGroupRecord(c, g) \/ DeleteUnusedPlannedGroup(c, g)
  BY <1>1, <1>9 DEF DeleteNetworkGroupRecord, DeleteUnusedPlannedGroup, BeginDelete
<1> QED
  BY <1>1, <1>2, <1>3, <1>4, <1>5, <1>7, <1>8, <1>9 DEF LedgerNext, GroupStep, ledgerVars

\* Most steps are quiet: they add no row, wire no VM, and let every handler keep
\* what it read or forget it.
QuietTables ==
    DOMAIN groups' \subseteq DOMAIN groups /\ DOMAIN instances' \subseteq DOMAIN instances

QuietRequests ==
    \A r \in Request :
        \/ /\ reqs'[r].group = reqs[r].group /\ reqs'[r].vlan = reqs[r].vlan
           /\ reqs'[r].mode = reqs[r].mode
           /\ reqs'[r].pc \in Early => reqs[r].pc \in Early
           /\ reqs'[r].pc = "new" => reqs[r].pc = "new"
           /\ reqs'[r].pc = "config" =>
                reqs[r].pc = "config" \/ reqs'[r].net \in {"off", "ready"}
           /\ reqs[r].net \in {"off", "ready"} => reqs'[r].net = reqs[r].net
           /\ reqs[r].net \in {"plan", "failed"} => reqs'[r].net \in {"plan", "failed"}
        \/ /\ reqs'[r].group = NULL /\ reqs'[r].vlan = NULL
           /\ reqs'[r].pc \notin Early \cup {"config"}

QuietVms ==
    \A m \in DOMAIN vms' :
        \/ vms'[m].wiredBy = NULL
        \/ /\ m \in DOMAIN vms
           /\ vms'[m].wiredBy = vms[m].wiredBy /\ vms'[m].bridge = vms[m].bridge

LEMMA QuietStep ==
    ASSUME TypeInv, TypeInv', IsolationInv, [LedgerNext]_ledgerVars,
           QuietTables, QuietRequests, QuietVms
    PROVE  IsolationInv'
<1> USE DEF QuietTables, QuietRequests, QuietVms
<1>1. /\ \A g \in DOMAIN groups' :
            /\ g \in DOMAIN groups /\ g \in Request
            /\ groups'[g].owner = groups[g].owner
            /\ groups'[g].profile = groups[g].profile
            /\ groups[g].vlan # NULL => groups'[g].vlan = groups[g].vlan
      /\ \A i \in DOMAIN instances' : i \in DOMAIN instances /\ i \in Request
      /\ InstanceRowsKept
  BY LedgerKeepsRows, ProvisioningAssumption DEF TypeInv, TableInv, LedgerTypeOK, GroupRowsKept
<1>2. \A r \in Request : reqs[r].group \in Request \cup {NULL}
  BY DEF TypeInv, TypeOK, RequestState
<1>3. NULL \notin Request /\ "new" \in Early /\ DOMAIN groups \subseteq Request
  BY ProvisioningAssumption DEF Early, TypeInv, TypeOK, LedgerTypeOK
<1>4. NothingBeforeReservation'
  BY <1>1, <1>3 DEF IsolationInv, NothingBeforeReservation
<1>5. NoVlanBeforeAttachment'
  BY <1>3 DEF IsolationInv, NoVlanBeforeAttachment
<1>6. GroupsComeFromRequests'
  BY <1>1, <1>3 DEF IsolationInv, GroupsComeFromRequests
<1>7. HandlersKnowTheirGroup'
  BY <1>1, <1>2, <1>3 DEF IsolationInv, HandlersKnowTheirGroup
<1>8. RowsKnowTheirGroup'
  BY <1>1, <1>3 DEF IsolationInv, RowsKnowTheirGroup, InstanceRowsKept
<1>9. HandlersKnowTheirVlan'
  <2>1. SUFFICES ASSUME NEW r \in Request, reqs'[r].vlan # NULL
                 PROVE  LET g == reqs'[r].group IN
                        /\ g # NULL /\ reqs'[r].mode = "active"
                        /\ g \in DOMAIN groups' => groups'[g].vlan = reqs'[r].vlan
                        /\ r \in DOMAIN instances' =>
                            \/ instances'[r].group = g
                            \/ instances'[r].group = NULL /\ g \notin DOMAIN groups'
    BY DEF HandlersKnowTheirVlan
  <2>2. /\ reqs'[r].group = reqs[r].group /\ reqs'[r].vlan = reqs[r].vlan
        /\ reqs'[r].mode = reqs[r].mode /\ reqs[r].vlan # NULL
    BY <2>1
  <2> QED
    BY <1>1, <2>2 DEF IsolationInv, HandlersKnowTheirVlan, InstanceRowsKept
<1>10. PlannedGroupsAreSettled'
  <2>1. SUFFICES ASSUME NEW r \in Request, r \in DOMAIN instances',
                        reqs'[r].vlan # NULL, reqs'[r].net \notin {"plan", "failed"}
                 PROVE  Settled(instances[r].group)'
    BY DEF PlannedGroupsAreSettled
  <2>2. reqs[r].vlan # NULL /\ reqs[r].net \notin {"plan", "failed"}
    BY <2>1
  <2>3. r \in DOMAIN instances /\ Settled(instances[r].group)
    BY <1>1, <2>1, <2>2 DEF IsolationInv, PlannedGroupsAreSettled
  <2> QED
    BY <1>1, <2>1, <2>3 DEF InstanceRowsKept, Settled
<1>11. ConfiguredIsReady'
  BY DEF IsolationInv, ConfiguredIsReady
<1>12. WiredGroupsAreSettled'
  <2>1. SUFFICES ASSUME NEW m \in Wired'
                 PROVE  LET g == instances'[vms'[m].wiredBy].group IN
                        /\ g \in DOMAIN groups'
                        /\ groups'[g].state \notin {"planned", "deleting"}
                        /\ groups'[g].vlan = vms'[m].bridge
    BY DEF WiredGroupsAreSettled, Settled
  <2>2. /\ m \in DOMAIN vms' /\ vms'[m].bridge \in Vlan
        /\ vms'[m].wiredBy \in DOMAIN instances'
    BY DEF Wired
  <2>3. vms'[m].wiredBy # NULL
    BY <1>1, <1>3, <2>2
  <2>4. /\ m \in Wired /\ vms'[m].wiredBy = vms[m].wiredBy
        /\ vms'[m].bridge = vms[m].bridge
    BY <1>1, <2>2, <2>3 DEF Wired
  <2> DEFINE i == vms[m].wiredBy
  <2>5. Settled(instances[i].group) /\ groups[instances[i].group].vlan = vms[m].bridge
    BY <2>4 DEF IsolationInv, WiredGroupsAreSettled
  <2>6. i \in DOMAIN instances /\ i \in DOMAIN instances'
    BY <1>1, <2>2, <2>4
  <2>7. /\ instances'[i].group = instances[i].group
        /\ instances[i].group \in DOMAIN groups'
        /\ groups'[instances[i].group].state \notin {"planned", "deleting"}
    BY <1>1, <2>5, <2>6 DEF InstanceRowsKept
  <2>8. vms[m].bridge # NULL
    BY <2>2, <2>4, LedgerAssumption
  <2> QED
    BY <1>1, <2>4, <2>5, <2>7, <2>8
<1> QED
  BY <1>4, <1>5, <1>6, <1>7, <1>8, <1>9, <1>10, <1>11, <1>12 DEF IsolationInv

\* How the helpers move one handler, seen from here.
LEMMA GotoIsQuiet ==
    ASSUME TypeInv, NEW r \in Request, NEW t, Goto(r, t),
           t \in Early => reqs[r].pc \in Early /\ t # "new",
           t = "config" => reqs[r].net \in {"off", "ready"}
    PROVE  QuietRequests
BY DEF TypeInv, TypeOK, RequestState, Goto, QuietRequests, Early

LEMMA FinishIsQuiet ==
    ASSUME TypeInv, NEW r \in Request, NEW t \in RequestEnd, Finish(r, t)
    PROVE  QuietRequests
<1> DEFINE done == [NewRequest EXCEPT !.pc = t]
<1>1. done.group = NULL /\ done.vlan = NULL /\ done.pc \notin Early \cup {"config"}
  BY DEF NewRequest, RequestEnd, Early
<1>2. reqs' = [reqs EXCEPT ![r] = done] /\ reqs \in [Request -> RequestState]
  BY DEF Finish, TypeInv, TypeOK
<1> HIDE DEF done
<1> QED
  BY <1>1, <1>2 DEF QuietRequests

\* Every step of a handler but those below is quiet.
LEMMA HandlerIsQuiet ==
    ASSUME TypeInv, NEW r \in Request, FastFail(r) \/ Handler(r),
           ~AttachIsolated(r), ~ReserveRow(r), ~Configure(r)
    PROVE  QuietTables /\ QuietRequests /\ QuietVms
<1>0. /\ reqs \in [Request -> RequestState]
      /\ vms \in [DOMAIN vms -> Vm]
      /\ TableInv
  BY DEF TypeInv, TypeOK
<1>1. QuietRequests
  <2>1. CASE \/ AttachShared(r) \/ ChooseFails(r) \/ ReserveRefused(r) \/ Clone(r)
             \/ CloneRefused(r) \/ CloneDone(r) \/ CloneFails(r)
             \/ ConfigureOrStartFails(r) \/ LookUp(r) \/ ApplyPolicy(r)
             \/ ApplyPolicyFails(r) \/ UndoVm(r) \/ DropRow(r) \/ RemoveUnfiltered(r)
             \/ RemoveUnfilteredFails(r) \/ RemoveUnfilteredRow(r) \/ Quarantine(r)
    <3>1. \E t : /\ Goto(r, t)
                 /\ t \in Early => reqs[r].pc \in Early /\ t # "new"
                 /\ t = "config" => reqs[r].net \in {"off", "ready"}
      BY <2>1 DEF AttachShared, ChooseFails, ReserveRefused, Clone, CloneRefused,
         CloneDone, CloneFails, ConfigureOrStartFails, LookUp, ApplyPolicy,
         ApplyPolicyFails, UndoVm, DropRow, RemoveUnfiltered, RemoveUnfilteredFails,
         RemoveUnfilteredRow, Quarantine, At, Early
    <3> QED
      BY <3>1, GotoIsQuiet
  <2>2. CASE FastFail(r) \/ AttachRefused(r) \/ Promote(r) \/ Compensate(r)
    BY <2>2, FinishIsQuiet DEF FastFail, AttachRefused, Promote, Compensate, RequestEnd
  <2>3. CASE StartAndFinalise(r)
    <3>1. Goto(r, "lookup") \/ Finish(r, "ok")
      BY <2>3 DEF StartAndFinalise
    <3> QED
      BY <3>1, GotoIsQuiet, FinishIsQuiet DEF Early, RequestEnd
  <2>4. CASE ChooseVmId(r)
    <3>1. PICK m : reqs' = [reqs EXCEPT ![r].pc = "reserve", ![r].vmid = m]
      BY <2>4 DEF ChooseVmId
    <3>2. \A q \in Request : /\ reqs'[q].group = reqs[q].group /\ reqs'[q].vlan = reqs[q].vlan
                             /\ reqs'[q].mode = reqs[q].mode /\ reqs'[q].net = reqs[q].net
                             /\ q # r => reqs'[q].pc = reqs[q].pc
      BY <1>0, <3>1 DEF RequestState
    <3>3. reqs'[r].pc = "reserve" /\ reqs[r].pc = "vmid"
      BY <1>0, <2>4, <3>1 DEF ChooseVmId, At, RequestState
    <3> QED
      BY <3>2, <3>3 DEF QuietRequests, Early
  <2> QED
    BY <2>1, <2>2, <2>3, <2>4 DEF Handler
<1>2. QuietTables
  <2>1. CASE UNCHANGED <<groups, instances>>
    BY <2>1 DEF QuietTables
  <2>2. CASE \/ StartAndFinalise(r) \/ DropRow(r) \/ RemoveUnfilteredRow(r)
             \/ Quarantine(r) \/ Promote(r)
    BY <2>2 DEF QuietTables, StartAndFinalise, DropRow, RemoveUnfilteredRow, Quarantine,
       Promote, IfMatched, OnTables, ledgerVars, FinaliseInstance, DeleteInstanceRow,
       WithoutRow, MarkQuarantined, MarkNetworkGroupActive, SetState
  <2>3. CASE Compensate(r)
    BY <2>3 DEF QuietTables, Compensate, IfMatched, OnTables, ledgerVars, SetState,
       MarkNetworkGroupError, DeleteUnusedPlannedGroup, BeginDelete
  <2> QED
    BY <2>1, <2>2, <2>3
       DEF Handler, FastFail, AttachShared, AttachRefused, ChooseVmId, ChooseFails,
           ReserveRefused, Clone, CloneRefused, CloneDone, CloneFails,
           ConfigureOrStartFails, LookUp, ApplyPolicy, ApplyPolicyFails, UndoVm,
           RemoveUnfiltered, RemoveUnfilteredFails, ReqOnly, OnTables, ledgerVars
<1>3. QuietVms
  <2>1. CASE vms' = vms
    BY <2>1 DEF QuietVms
  <2>2. CASE UndoVm(r) \/ RemoveUnfiltered(r)
    BY <2>2 DEF QuietVms, UndoVm, RemoveUnfiltered, WithoutRow
  <2>3. CASE Clone(r)
    BY <2>3 DEF QuietVms, Clone, WithRow
  <2>4. CASE ApplyPolicy(r)
    BY <1>0, <2>4 DEF QuietVms, ApplyPolicy, Vm
  <2> QED
    BY <2>1, <2>2, <2>3, <2>4
       DEF Handler, FastFail, AttachShared, AttachRefused, ChooseVmId, ChooseFails,
           ReserveRefused, CloneRefused, CloneDone, CloneFails, StartAndFinalise,
           ConfigureOrStartFails, LookUp, ApplyPolicyFails, Promote, DropRow,
           RemoveUnfilteredFails, RemoveUnfilteredRow, Quarantine, Compensate, ReqOnly,
           OnProxmox
<1> QED
  BY <1>1, <1>2, <1>3

\* The network work moves three fields of one handler, one of them seen here.
LEMMA NetIsQuiet ==
    ASSUME TypeInv, NEW r \in Request, NEW n, NEW D, NEW C,
           \/ reqs' = [reqs EXCEPT ![r].net = n, ![r].desired = D, ![r].create = C]
           \/ reqs' = [reqs EXCEPT ![r].net = n],
           reqs[r].net \notin {"off", "ready"},
           reqs[r].net \in {"plan", "failed"} => n = "failed"
    PROVE  QuietRequests
<1>0. reqs \in [Request -> RequestState] /\ reqs[r] \in RequestState
  BY DEF TypeInv, TypeOK
<1> DEFINE new == [reqs[r] EXCEPT !.net = n, !.desired = D, !.create = C]
           other == [reqs[r] EXCEPT !.net = n]
<1>1. reqs' = [reqs EXCEPT ![r] = new] \/ reqs' = [reqs EXCEPT ![r] = other]
  BY <1>0
<1>2. /\ new.group = reqs[r].group /\ new.vlan = reqs[r].vlan /\ new.pc = reqs[r].pc
      /\ new.mode = reqs[r].mode /\ new.net = n
      /\ other.group = reqs[r].group /\ other.vlan = reqs[r].vlan /\ other.pc = reqs[r].pc
      /\ other.mode = reqs[r].mode /\ other.net = n
  BY <1>0 DEF RequestState
<1> HIDE DEF new, other
<1> QED
  BY <1>0, <1>1, <1>2 DEF QuietRequests

LEMMA NetworkWorkIsQuiet ==
    ASSUME TypeInv, NEW r \in Request, NetworkWork(r), ~NetPlan(r)
    PROVE  QuietTables /\ QuietRequests /\ QuietVms
<1>1. UNCHANGED <<groups, instances, vms>>
  BY DEF NetworkWork, NetPlanFails, NetApply, NetApplyFails, NetPolicies,
         ReqOnly, OnTables, OnProxmox, ledgerVars
<1>2. QuietRequests
  <2>2. CASE NetApply(r)
    <3>1. PICK n : reqs' = [reqs EXCEPT ![r].net = n, ![r].desired = {}, ![r].create = {}]
      BY <2>2 DEF NetApply
    <3>2. reqs[r].net = "apply"
      BY <2>2 DEF NetApply
    <3> QED
      BY <3>1, <3>2, NetIsQuiet
  <2>3. CASE NetApplyFails(r)
    BY <2>3, NetIsQuiet DEF NetApplyFails
  <2>4. CASE NetPlanFails(r) \/ NetPolicies(r)
    BY <2>4, NetIsQuiet DEF NetPlanFails, NetPolicies
  <2> QED
    BY <2>2, <2>3, <2>4 DEF NetworkWork
<1> QED
  BY <1>1, <1>2 DEF QuietTables, QuietVms

LEMMA JobIsQuiet ==
    ASSUME TypeInv, NEW j \in Job, Removal(j) \/ Teardown(j)
    PROVE  QuietTables /\ QuietRequests /\ QuietVms
<1>0. TableInv
  BY DEF TypeInv
<1>1. QuietRequests
  BY JobsTyped DEF QuietRequests
<1>2. QuietVms
  <2>1. vms' = vms \/ RemoveVm(j)
    BY DEF Removal, Teardown, RemoveVmFails, RemoveRow, Unplan, MarkDeleting,
       MarkDeletingRefused, CheckReferences, DeleteVnet, TeardownFails, Release, JobOnly,
       OnProxmox
  <2> QED
    BY <2>1 DEF QuietVms, RemoveVm, WithoutRow
<1>3. QuietTables
  <2>1. CASE UNCHANGED <<groups, instances>>
    BY <2>1 DEF QuietTables
  <2>2. CASE RemoveRow(j) \/ MarkDeleting(j)
    BY <2>2 DEF QuietTables, RemoveRow, MarkDeleting, IfMatched, OnTables, ledgerVars,
       DeleteInstanceRow, WithoutRow, MarkNetworkGroupDeleting, SetState
  <2>3. CASE Unplan(j) \/ Release(j)
    BY <2>3 DEF QuietTables, Unplan, Release, IfMatched, OnTables, ledgerVars,
       DeleteUnusedPlannedGroup, DeleteNetworkGroupRecord, BeginDelete
  <2> QED
    BY <2>1, <2>2, <2>3
       DEF Removal, Teardown, RemoveVm, RemoveVmFails, MarkDeletingRefused,
           CheckReferences, DeleteVnet, TeardownFails, JobOnly, OnTables, ledgerVars
<1> QED
  BY <1>1, <1>2, <1>3

\* The five steps that are not quiet.

\* A plan is made of a group that is there and operational, so it is the group
\* of the row, and settled.
LEMMA NetPlanKeepsIsolation ==
    ASSUME TypeInv, TypeInv', IsolationInv, NEW r \in Request, NetPlan(r)
    PROVE  IsolationInv'
<1>0. reqs \in [Request -> RequestState] /\ NULL \notin Request /\ DOMAIN groups \subseteq Request
  BY ProvisioningAssumption DEF TypeInv, TypeOK, LedgerTypeOK
<1>1. /\ UNCHANGED <<groups, instances, vms>>
      /\ reqs[r].net = "plan" /\ Settled(reqs[r].group)
  BY DEF NetPlan, ReqOnly, OnTables, OnProxmox, ledgerVars, IsOperational, Settled
<1>2. /\ \A q \in Request : /\ reqs'[q].group = reqs[q].group /\ reqs'[q].vlan = reqs[q].vlan
                            /\ reqs'[q].pc = reqs[q].pc /\ reqs'[q].mode = reqs[q].mode
      /\ \A q \in Request \ {r} : reqs'[q].net = reqs[q].net
  <2>1. PICK D, C : reqs' = [reqs EXCEPT ![r].net = "apply", ![r].desired = D, ![r].create = C]
    BY Zenon DEF NetPlan
  <2> DEFINE new == [reqs[r] EXCEPT !.net = "apply", !.desired = D, !.create = C]
  <2>2. reqs' = [reqs EXCEPT ![r] = new]
    BY <1>0, <2>1
  <2>3. /\ new.group = reqs[r].group /\ new.vlan = reqs[r].vlan
        /\ new.pc = reqs[r].pc /\ new.mode = reqs[r].mode
    BY <1>0 DEF RequestState
  <2> HIDE DEF new
  <2> QED
    BY <1>0, <2>2, <2>3
<1>3. NothingBeforeReservation' /\ NoVlanBeforeAttachment'
  BY <1>1, <1>2 DEF IsolationInv, NothingBeforeReservation, NoVlanBeforeAttachment
<1>4. GroupsComeFromRequests'
  BY <1>0, <1>1, <1>2 DEF IsolationInv, GroupsComeFromRequests
<1>5. HandlersKnowTheirGroup'
  <2>1. \A q \in Request : reqs[q].group \in Request \cup {NULL}
    BY <1>0 DEF RequestState
  <2> QED
    BY <1>1, <1>2, <2>1 DEF IsolationInv, HandlersKnowTheirGroup
<1>6. RowsKnowTheirGroup'
  BY <1>1 DEF IsolationInv, RowsKnowTheirGroup
<1>7. HandlersKnowTheirVlan'
  BY <1>1, <1>2 DEF IsolationInv, HandlersKnowTheirVlan
<1>8. PlannedGroupsAreSettled'
  <2>1. ASSUME r \in DOMAIN instances, reqs[r].vlan # NULL
        PROVE  Settled(instances[r].group)
    BY <1>1, <2>1 DEF IsolationInv, HandlersKnowTheirVlan, Settled
  <2> QED
    BY <1>1, <1>2, <2>1 DEF IsolationInv, PlannedGroupsAreSettled, Settled
<1>9. ConfiguredIsReady'
  BY <1>1, <1>2 DEF IsolationInv, ConfiguredIsReady
<1>10. WiredGroupsAreSettled'
  BY <1>1 DEF IsolationInv, WiredGroupsAreSettled, Wired, Settled
<1> QED
  BY <1>3, <1>4, <1>5, <1>6, <1>7, <1>8, <1>9, <1>10 DEF IsolationInv

\* What UpsertGroup does: a row of the request's own, or a row that is there.
LEMMA UpsertKeepsIsolation ==
    ASSUME TypeInv, TypeInv', IsolationInv, NEW r \in Request, UpsertGroup(r)
    PROVE  IsolationInv'
<1>0. /\ reqs \in [Request -> RequestState]
      /\ NULL \notin Request
      /\ DOMAIN groups \subseteq Request
  BY ProvisioningAssumption DEF TypeInv, TypeOK, LedgerTypeOK
<1> DEFINE existing == GroupsOf(OwnerOf[r], ProfileOf[r])
           Joins(g, mode) ==
               reqs' = [reqs EXCEPT ![r].pc = "attach", ![r].group = g, ![r].mode = mode]
<1>a. PICK mode \in Modes, g \in IF existing = {} THEN {r} ELSE existing : Joins(g, mode)
  BY Zenon DEF UpsertGroup
<1>1. /\ g \in Request
      /\ g = r \/ (g \in DOMAIN groups /\ groups[g].owner = OwnerOf[r]
                                     /\ groups[g].profile = ProfileOf[r])
      /\ \/ UNCHANGED groups /\ g \in DOMAIN groups
         \/ g = r /\ InsertPlannedGroup(r, OwnerOf[r], ProfileOf[r])
  <2> HIDE DEF Joins
  <2> QED
    BY <1>0, <1>a DEF UpsertGroup, GroupsOf, OnTables, ledgerVars
<1>2. UNCHANGED <<instances, vms>> /\ reqs[r].pc = "new" /\ reqs[r].vlan = NULL
  BY DEF UpsertGroup, OnTables, ledgerVars, OnProxmox, InsertPlannedGroup, At, IsolationInv,
         NoVlanBeforeAttachment
<1>3. /\ reqs'[r].pc = "attach" /\ reqs'[r].group = g /\ reqs'[r].vlan = NULL
      /\ \A q \in Request \ {r} : reqs'[q] = reqs[q]
  <2> DEFINE new == [reqs[r] EXCEPT !.pc = "attach", !.group = g, !.mode = mode]
  <2>1. reqs' = [reqs EXCEPT ![r] = new]
    BY <1>0, <1>a
  <2>2. new.pc = "attach" /\ new.group = g /\ new.vlan = NULL
    BY <1>0, <1>2 DEF RequestState
  <2> HIDE DEF new
  <2> QED
    BY <1>0, <2>1, <2>2
<1>4. /\ \A h \in DOMAIN groups : h # r /\ h \in DOMAIN groups' /\ groups'[h] = groups[h]
      /\ \A h \in DOMAIN groups' : h # r => h \in DOMAIN groups
      /\ r \in DOMAIN groups' => g = r /\ groups'[r].owner = OwnerOf[r]
                                     /\ groups'[r].profile = ProfileOf[r]
  <2>1. r \notin DOMAIN groups
    BY <1>2 DEF IsolationInv, GroupsComeFromRequests
  <2>2. CASE UNCHANGED groups
    BY <2>1, <2>2
  <2>3. CASE g = r /\ InsertPlannedGroup(r, OwnerOf[r], ProfileOf[r])
    BY <2>1, <2>3 DEF InsertPlannedGroup, WithRow
  <2> QED
    BY <1>1, <2>2, <2>3
<1>5. NothingBeforeReservation' /\ NoVlanBeforeAttachment'
  BY <1>2, <1>3 DEF IsolationInv, NothingBeforeReservation, NoVlanBeforeAttachment, Early
<1>6. GroupsComeFromRequests'
  BY <1>0, <1>3, <1>4 DEF IsolationInv, GroupsComeFromRequests
<1>7. HandlersKnowTheirGroup'
  <2>1. SUFFICES ASSUME NEW q \in Request, reqs'[q].group # NULL
                 PROVE  LET h == reqs'[q].group IN
                        /\ reqs'[h].pc # "new"
                        /\ h \in DOMAIN groups' =>
                            groups'[h].owner = OwnerOf[q] /\ groups'[h].profile = ProfileOf[q]
    BY DEF HandlersKnowTheirGroup
  <2>2. CASE q = r
    <3>1. reqs'[g].pc # "new"
      BY <1>0, <1>1, <1>3 DEF IsolationInv, GroupsComeFromRequests
    <3> QED
      BY <1>1, <1>3, <1>4, <2>2, <3>1
  <2>3. CASE q # r
    <3>1. /\ reqs'[q].group = reqs[q].group /\ reqs[q].group \in Request
          /\ reqs[reqs[q].group].pc # "new"
      BY <1>0, <1>3, <2>1, <2>3 DEF RequestState, IsolationInv, HandlersKnowTheirGroup
    <3>2. reqs[q].group # r /\ reqs[q].group # NULL
      BY <1>0, <1>2, <3>1
    <3> QED
      BY <1>3, <1>4, <3>1, <3>2 DEF IsolationInv, HandlersKnowTheirGroup
  <2> QED
    BY <2>2, <2>3
<1>8. RowsKnowTheirGroup'
  BY <1>2, <1>4 DEF IsolationInv, RowsKnowTheirGroup
<1>11. r \notin DOMAIN instances
  BY <1>2 DEF IsolationInv, NothingBeforeReservation, Early
<1>9. HandlersKnowTheirVlan'
  <2>1. SUFFICES ASSUME NEW q \in Request, reqs'[q].vlan # NULL
                 PROVE  LET h == reqs'[q].group IN
                        /\ h # NULL /\ reqs'[q].mode = "active"
                        /\ h \in DOMAIN groups' => groups'[h].vlan = reqs'[q].vlan
                        /\ q \in DOMAIN instances' =>
                            \/ instances'[q].group = h
                            \/ instances'[q].group = NULL /\ h \notin DOMAIN groups'
    BY DEF HandlersKnowTheirVlan
  <2>2. q # r /\ reqs'[q] = reqs[q]
    BY <1>3, <2>1
  <2>3. reqs[q].group # NULL /\ reqs[reqs[q].group].pc # "new"
    BY <2>1, <2>2 DEF IsolationInv, HandlersKnowTheirVlan, HandlersKnowTheirGroup
  <2>4. reqs[q].group # r
    BY <1>2, <2>3
  <2> QED
    BY <1>2, <1>4, <2>1, <2>2, <2>3, <2>4 DEF IsolationInv, HandlersKnowTheirVlan
<1>10. PlannedGroupsAreSettled'
  BY <1>2, <1>3, <1>4, <1>11 DEF IsolationInv, PlannedGroupsAreSettled, Settled
<1>12. ConfiguredIsReady'
  BY <1>3 DEF IsolationInv, ConfiguredIsReady
<1>13. WiredGroupsAreSettled'
  BY <1>2, <1>4 DEF IsolationInv, WiredGroupsAreSettled, Wired, Settled
<1> QED
  BY <1>5, <1>6, <1>7, <1>8, <1>9, <1>10, <1>12, <1>13 DEF IsolationInv

LEMMA AttachKeepsIsolation ==
    ASSUME TypeInv, TypeInv', IsolationInv, [LedgerNext]_ledgerVars,
           NEW r \in Request, AttachIsolated(r)
    PROVE  IsolationInv'
<1>0. /\ reqs \in [Request -> RequestState]
      /\ NULL \notin Request /\ NULL \notin Vlan
      /\ DOMAIN groups \subseteq Request
      /\ groups \in [DOMAIN groups -> GroupRow]
  BY ProvisioningAssumption, LedgerAssumption DEF TypeInv, TypeOK, LedgerTypeOK
<1> DEFINE own == reqs[r].group
           v == groups'[own].vlan
<1>1. /\ UNCHANGED <<instances, vms>>
      /\ DOMAIN groups' = DOMAIN groups /\ own \in DOMAIN groups
      /\ reqs[r].pc = "attach" /\ reqs[r].mode = "active"
  BY <1>0 DEF AttachIsolated, ClaimSlot, ResumeErrored, SetState, OnTables, ledgerVars,
     OnProxmox, At, Isolated
<1>11. reqs' = [reqs EXCEPT ![r].pc = "vmid", ![r].vlan = v]
  BY DEF AttachIsolated
<1> HIDE DEF v
<1>2. /\ reqs'[r].pc = "vmid" /\ reqs'[r].group = own /\ reqs'[r].vlan = v
      /\ reqs'[r].mode = "active"
      /\ \A q \in Request \ {r} : reqs'[q] = reqs[q]
  <2> DEFINE new == [reqs[r] EXCEPT !.pc = "vmid", !.vlan = v]
  <2>1. reqs' = [reqs EXCEPT ![r] = new]
    BY <1>0, <1>11
  <2>2. new.pc = "vmid" /\ new.group = own /\ new.vlan = v /\ new.mode = "active"
    BY <1>0, <1>1 DEF RequestState
  <2> HIDE DEF new
  <2> QED
    BY <1>0, <2>1, <2>2
<1>3. \A h \in DOMAIN groups : /\ groups'[h].owner = groups[h].owner
                               /\ groups'[h].profile = groups[h].profile
                               /\ groups[h].vlan # NULL => groups'[h].vlan = groups[h].vlan
  BY <1>1, LedgerKeepsRows DEF TypeInv, GroupRowsKept
<1>13. \A h \in DOMAIN groups : Settled(h) =>
            h \in DOMAIN groups' /\ groups'[h].state \notin {"planned", "deleting"}
  BY <1>0 DEF AttachIsolated, ClaimSlot, ResumeErrored, SetState, OnTables, ledgerVars,
     GroupRow, Settled
<1>4. r \notin DOMAIN instances
  BY <1>1 DEF IsolationInv, NothingBeforeReservation, Early
<1>5. NothingBeforeReservation' /\ NoVlanBeforeAttachment'
  BY <1>1, <1>2 DEF IsolationInv, NothingBeforeReservation, NoVlanBeforeAttachment, Early
<1>6. GroupsComeFromRequests'
  BY <1>0, <1>1, <1>2 DEF IsolationInv, GroupsComeFromRequests
<1>7. HandlersKnowTheirGroup'
  <2>1. \A q \in Request : /\ reqs'[q].group = reqs[q].group
                           /\ reqs'[q].pc = "new" => reqs[q].pc = "new"
                           /\ reqs[q].group \in Request \cup {NULL}
    BY <1>0, <1>2 DEF RequestState
  <2> QED
    BY <1>1, <1>3, <2>1 DEF IsolationInv, HandlersKnowTheirGroup
<1>8. RowsKnowTheirGroup'
  BY <1>1, <1>3 DEF IsolationInv, RowsKnowTheirGroup
<1>9. HandlersKnowTheirVlan'
  BY <1>0, <1>1, <1>2, <1>3, <1>4 DEF IsolationInv, HandlersKnowTheirVlan, v
<1>10. PlannedGroupsAreSettled'
  <2>1. SUFFICES ASSUME NEW q \in Request, q \in DOMAIN instances,
                        reqs'[q].vlan # NULL, reqs'[q].net \notin {"plan", "failed"}
                 PROVE  Settled(instances[q].group)'
    BY <1>1 DEF PlannedGroupsAreSettled
  <2>2. Settled(instances[q].group)
    BY <1>2, <1>4, <2>1 DEF IsolationInv, PlannedGroupsAreSettled
  <2>3. /\ instances[q].group \in DOMAIN groups
        /\ instances'[q].group = instances[q].group
    BY <1>1, <2>2 DEF Settled
  <2> QED
    BY <1>13, <2>2, <2>3 DEF Settled
<1>12. ConfiguredIsReady'
  BY <1>2 DEF IsolationInv, ConfiguredIsReady
<1>14. WiredGroupsAreSettled'
  <2>1. SUFFICES ASSUME NEW m \in Wired
                 PROVE  LET g == instances[vms[m].wiredBy].group IN
                        /\ g \in DOMAIN groups'
                        /\ groups'[g].state \notin {"planned", "deleting"}
                        /\ groups'[g].vlan = vms[m].bridge
    BY <1>1 DEF WiredGroupsAreSettled, Wired, Settled
  <2> DEFINE g == instances[vms[m].wiredBy].group
  <2>2. Settled(g) /\ groups[g].vlan = vms[m].bridge
    BY DEF IsolationInv, WiredGroupsAreSettled
  <2>3. g \in DOMAIN groups /\ groups[g].vlan # NULL
    BY <1>0, <2>2 DEF Settled, Wired
  <2> QED
    BY <1>3, <1>13, <2>2, <2>3
<1> QED
  BY <1>5, <1>6, <1>7, <1>8, <1>9, <1>10, <1>12, <1>14 DEF IsolationInv

LEMMA ReserveKeepsIsolation ==
    ASSUME TypeInv, TypeInv', IsolationInv, NEW r \in Request, ReserveRow(r)
    PROVE  IsolationInv'
<1>0. reqs \in [Request -> RequestState] /\ NULL \notin Request
      /\ DOMAIN groups \subseteq Request
  BY ProvisioningAssumption DEF TypeInv, TypeOK, LedgerTypeOK
<1>1. /\ UNCHANGED <<groups, vms>>
      /\ reqs[r].group \in DOMAIN groups
      /\ reqs[r].pc = "reserve"
      /\ DOMAIN instances' = DOMAIN instances \cup {r}
      /\ instances'[r].group = reqs[r].group
      /\ \A i \in DOMAIN instances : i # r /\ instances'[i] = instances[i]
  BY DEF ReserveRow, Reserve, OnProxmox, At, WithRow
<1>2. /\ reqs'[r].pc = "clone" /\ reqs'[r].group = reqs[r].group
      /\ reqs'[r].vlan = reqs[r].vlan /\ reqs'[r].mode = reqs[r].mode
      /\ reqs[r].mode = "active" => reqs'[r].net = "plan"
      /\ \A q \in Request \ {r} : reqs'[q] = reqs[q]
  <2>1. PICK n : /\ reqs' = [reqs EXCEPT ![r].pc = "clone", ![r].net = n]
                 /\ reqs[r].mode = "active" => n = "plan"
    BY DEF ReserveRow, Isolated
  <2> DEFINE new == [reqs[r] EXCEPT !.pc = "clone", !.net = n]
  <2>2. reqs' = [reqs EXCEPT ![r] = new]
    BY <1>0, <2>1
  <2>3. /\ new.pc = "clone" /\ new.group = reqs[r].group /\ new.vlan = reqs[r].vlan
        /\ new.mode = reqs[r].mode /\ new.net = n
    BY <1>0 DEF RequestState
  <2> HIDE DEF new
  <2> QED
    BY <1>0, <2>1, <2>2, <2>3
<1>3. \A m \in DOMAIN vms : vms[m].wiredBy # r
  BY <1>1 DEF IsolationInv, NothingBeforeReservation, Early
<1>5. NothingBeforeReservation' /\ NoVlanBeforeAttachment'
  BY <1>1, <1>2 DEF IsolationInv, NothingBeforeReservation, NoVlanBeforeAttachment, Early
<1>6. GroupsComeFromRequests'
  BY <1>0, <1>1, <1>2 DEF IsolationInv, GroupsComeFromRequests
<1>7. HandlersKnowTheirGroup'
  <2>1. \A q \in Request : /\ reqs'[q].group = reqs[q].group
                           /\ reqs'[q].pc = "new" => reqs[q].pc = "new"
                           /\ reqs[q].group \in Request \cup {NULL}
    BY <1>0, <1>2 DEF RequestState
  <2> QED
    BY <1>1, <2>1 DEF IsolationInv, HandlersKnowTheirGroup
<1>8. RowsKnowTheirGroup'
  BY <1>0, <1>1 DEF IsolationInv, RowsKnowTheirGroup, HandlersKnowTheirGroup
<1>9. HandlersKnowTheirVlan'
  BY <1>1, <1>2 DEF IsolationInv, HandlersKnowTheirVlan
<1>10. PlannedGroupsAreSettled'
  <2>1. reqs[r].vlan # NULL => reqs'[r].net = "plan"
    BY <1>2 DEF IsolationInv, HandlersKnowTheirVlan
  <2> QED
    BY <1>1, <1>2, <2>1 DEF IsolationInv, PlannedGroupsAreSettled, Settled
<1>11. ConfiguredIsReady'
  BY <1>2 DEF IsolationInv, ConfiguredIsReady
<1>12. WiredGroupsAreSettled'
  BY <1>1, <1>3 DEF IsolationInv, WiredGroupsAreSettled, Wired, Settled
<1> QED
  BY <1>5, <1>6, <1>7, <1>8, <1>9, <1>10, <1>11, <1>12 DEF IsolationInv

LEMMA ConfigureKeepsIsolation ==
    ASSUME TypeInv, TypeInv', IsolationInv, NEW r \in Request, Configure(r)
    PROVE  IsolationInv'
<1>0. /\ reqs \in [Request -> RequestState] /\ NULL \notin Vlan
      /\ vms \in [DOMAIN vms -> Vm]
      /\ Shared \notin Vlan
  BY ProvisioningAssumption, LedgerAssumption DEF TypeInv, TypeOK
<1> DEFINE m == reqs[r].vmid
           b == IF Isolated(r) THEN reqs[r].vlan ELSE Shared
<1>1. /\ UNCHANGED <<groups, instances>>
      /\ m \in DOMAIN vms
      /\ vms' = [vms EXCEPT ![m].bridge = b, ![m].wiredBy = r]
      /\ Goto(r, "start")
      /\ reqs[r].net \in {"off", "ready"}
  BY DEF Configure, OnTables, ledgerVars, At, IsolationInv, ConfiguredIsReady
<1>2. \A q \in Request : /\ reqs'[q].group = reqs[q].group /\ reqs'[q].vlan = reqs[q].vlan
                         /\ reqs'[q].mode = reqs[q].mode /\ reqs'[q].net = reqs[q].net
                         /\ reqs'[q].pc = (IF q = r THEN "start" ELSE reqs[q].pc)
  BY <1>0, <1>1 DEF Goto, RequestState
<1> HIDE DEF b
<1>3. /\ DOMAIN vms' = DOMAIN vms
      /\ vms'[m].bridge = b /\ vms'[m].wiredBy = r
      /\ \A n \in DOMAIN vms \ {m} : vms'[n] = vms[n]
  <2> DEFINE new == [vms[m] EXCEPT !.bridge = b, !.wiredBy = r]
  <2>1. vms' = [vms EXCEPT ![m] = new]
    BY <1>0, <1>1
  <2>2. new.bridge = b /\ new.wiredBy = r
    BY <1>0, <1>1 DEF Vm
  <2> HIDE DEF new
  <2> QED
    BY <1>0, <1>1, <2>1, <2>2
<1>4. NULL \notin DOMAIN groups
  BY ProvisioningAssumption DEF TypeInv, TypeOK, LedgerTypeOK
<1>5. NothingBeforeReservation' /\ NoVlanBeforeAttachment'
  <2>1. \A q \in Request : reqs'[q].pc \in Early => q # r /\ reqs[q].pc \in Early
    BY <1>2 DEF Early
  <2>2. ASSUME NEW q \in Request, reqs'[q].pc \in Early
        PROVE  q \notin DOMAIN instances' /\ \A n \in DOMAIN vms' : vms'[n].wiredBy # q
    <3>1. q # r /\ q \notin DOMAIN instances /\ \A n \in DOMAIN vms : vms[n].wiredBy # q
      BY <2>1, <2>2 DEF IsolationInv, NothingBeforeReservation
    <3> QED
      BY <1>1, <1>3, <3>1
  <2>3. NothingBeforeReservation'
    BY <2>2 DEF NothingBeforeReservation
  <2>4. NoVlanBeforeAttachment'
    BY <1>2 DEF IsolationInv, NoVlanBeforeAttachment
  <2> QED
    BY <2>3, <2>4
<1>6. GroupsComeFromRequests'
  <2>1. DOMAIN groups \subseteq Request
    BY ProvisioningAssumption DEF TypeInv, TypeOK, LedgerTypeOK
  <2> QED
    BY <1>1, <1>2, <2>1 DEF IsolationInv, GroupsComeFromRequests
<1>7. HandlersKnowTheirGroup'
  <2>1. \A q \in Request : reqs[q].group \in Request \cup {NULL}
    BY <1>0 DEF RequestState
  <2> QED
    BY <1>1, <1>2, <2>1 DEF IsolationInv, HandlersKnowTheirGroup
<1>8. RowsKnowTheirGroup'
  BY <1>1 DEF IsolationInv, RowsKnowTheirGroup
<1>9. HandlersKnowTheirVlan'
  BY <1>1, <1>2 DEF IsolationInv, HandlersKnowTheirVlan
<1>10. PlannedGroupsAreSettled'
  BY <1>1, <1>2 DEF IsolationInv, PlannedGroupsAreSettled, Settled
<1>11. ConfiguredIsReady'
  BY <1>2 DEF IsolationInv, ConfiguredIsReady
<1>12. WiredGroupsAreSettled'
  <2>1. SUFFICES ASSUME NEW n \in Wired'
                 PROVE  LET g == instances[vms'[n].wiredBy].group IN
                        Settled(g) /\ groups[g].vlan = vms'[n].bridge
    BY <1>1 DEF WiredGroupsAreSettled, Settled
  <2>2. CASE n = m
    <3>1. r \in DOMAIN instances /\ b \in Vlan
      BY <1>1, <1>3, <2>1, <2>2 DEF Wired
    <3>2. b = reqs[r].vlan /\ reqs[r].vlan # NULL
      BY <1>0, <3>1 DEF b
    <3>3. Settled(instances[r].group)
      BY <1>1, <3>1, <3>2 DEF IsolationInv, PlannedGroupsAreSettled
    <3>4. groups[instances[r].group].vlan = b
      BY <1>4, <3>1, <3>2, <3>3 DEF IsolationInv, HandlersKnowTheirVlan, Settled
    <3> QED
      BY <1>3, <2>2, <3>3, <3>4
  <2>3. CASE n # m
    <3>1. n \in Wired /\ vms'[n] = vms[n]
      BY <1>1, <1>3, <2>1, <2>3 DEF Wired
    <3> QED
      BY <3>1 DEF IsolationInv, WiredGroupsAreSettled
  <2> QED
    BY <2>2, <2>3
<1> QED
  BY <1>5, <1>6, <1>7, <1>8, <1>9, <1>10, <1>11, <1>12 DEF IsolationInv

-----------------------------------------------------------------------------
\* Isolation is an invariant.

LEMMA IsolationInit == Init => IsolationInv
<1> SUFFICES ASSUME Init PROVE IsolationInv
  OBVIOUS
<1>1. /\ DOMAIN groups = {} /\ DOMAIN instances = {} /\ DOMAIN vms = {}
  BY DEF Init, LedgerInit
<1>2. \A r \in Request : reqs[r].group = NULL /\ reqs[r].vlan = NULL /\ reqs[r].pc = "new"
  BY DEF Init, NewRequest
<1> QED
  BY <1>1, <1>2
     DEF IsolationInv, NothingBeforeReservation, NoVlanBeforeAttachment,
         GroupsComeFromRequests, HandlersKnowTheirGroup, RowsKnowTheirGroup,
         HandlersKnowTheirVlan, PlannedGroupsAreSettled, ConfiguredIsReady,
         WiredGroupsAreSettled, Wired

\* What is left is quiet as well: the drift pass, a crash, the start of a removal.
LEMMA OtherStepsAreQuiet ==
    ASSUME TypeInv,
           \/ \E r \in Request : DriftRepair(r)
           \/ \E j \in Job, r \in Request : BeginRemoval(j, r) \/ OperatorRelease(j, r)
           \/ \E c \in Client : DeleteEnds(c)
           \/ DriftRecover \/ Crash \/ UNCHANGED vars
    PROVE  QuietTables /\ QuietRequests /\ QuietVms
<1>0. reqs \in [Request -> RequestState] /\ vms \in [DOMAIN vms -> Vm] /\ TableInv
  BY DEF TypeInv, TypeOK
<1>1. QuietTables
  <2>1. CASE \E c \in Client : DeleteEnds(c)
    BY <1>0, <2>1, TakeRowDrops, DropIsLocal DEF QuietTables, DeleteEnds
  <2>2. CASE ~\E c \in Client : DeleteEnds(c)
    BY <2>2 DEF QuietTables, DriftRepair, BeginRemoval, OperatorRelease, DriftRecover, Crash,
       vars, JobOnly, OnTables, ledgerVars, RecoverStrandedGroups
  <2> QED
    BY <2>1, <2>2
<1>2. QuietRequests
  <2>1. CASE Crash
    <3> DEFINE dead == [NewRequest EXCEPT !.pc = "dead"]
    <3>1. dead.group = NULL /\ dead.vlan = NULL /\ dead.pc \notin Early \cup {"config"}
      BY DEF NewRequest, Early
    <3>2. \A r \in Request : reqs'[r] = dead \/ reqs'[r] = reqs[r]
      BY <2>1 DEF Crash
    <3> HIDE DEF dead
    <3> QED
      BY <3>1, <3>2 DEF QuietRequests
  <2>2. CASE UNCHANGED reqs
    BY <2>2 DEF QuietRequests
  <2> QED
    BY <2>1, <2>2
       DEF DriftRepair, BeginRemoval, OperatorRelease, DeleteEnds, DriftRecover, JobOnly, vars
<1>3. QuietVms
  <2>1. CASE \E r \in Request : DriftRepair(r)
    BY <1>0, <2>1 DEF QuietVms, DriftRepair, FirewallDrifted, Vm
  <2>2. CASE UNCHANGED vms
    BY <2>2 DEF QuietVms
  <2> QED
    BY <2>1, <2>2 DEF BeginRemoval, OperatorRelease, DeleteEnds, DriftRecover, Crash,
                      JobOnly, OnProxmox, vars
<1> QED
  BY <1>1, <1>2, <1>3

LEMMA IsolationNext == TypeInv /\ IsolationInv /\ [Next]_vars => IsolationInv'
<1> SUFFICES ASSUME TypeInv, IsolationInv, [Next]_vars PROVE IsolationInv'
  OBVIOUS
<1>1. TypeInv' /\ [LedgerNext]_ledgerVars
  BY TypeNext, StepsLedger
<1>2. ASSUME NEW r \in Request, Arrival(r) \/ Handler(r) PROVE IsolationInv'
  <2>1. CASE UpsertGroup(r)
    BY <1>1, <2>1, UpsertKeepsIsolation
  <2>2. CASE AttachIsolated(r)
    BY <1>1, <2>2, AttachKeepsIsolation
  <2>3. CASE ReserveRow(r)
    BY <1>1, <2>3, ReserveKeepsIsolation
  <2>4. CASE Configure(r)
    BY <1>1, <2>4, ConfigureKeepsIsolation
  <2>5. CASE /\ FastFail(r) \/ Handler(r)
             /\ ~AttachIsolated(r) /\ ~ReserveRow(r) /\ ~Configure(r)
    BY <1>1, <2>5, HandlerIsQuiet, QuietStep
  <2> QED
    BY <1>2, <2>1, <2>2, <2>3, <2>4, <2>5 DEF Arrival
<1>3. ASSUME NEW r \in Request, NetworkWork(r) PROVE IsolationInv'
  BY <1>1, <1>3, NetworkWorkIsQuiet, QuietStep, NetPlanKeepsIsolation
<1>4. ASSUME NEW j \in Job, Removal(j) \/ Teardown(j) PROVE IsolationInv'
  BY <1>1, <1>4, JobIsQuiet, QuietStep
<1>5. CASE \/ \E r \in Request : DriftRepair(r)
           \/ \E j \in Job, r \in Request : BeginRemoval(j, r) \/ OperatorRelease(j, r)
           \/ \E c \in Client : DeleteEnds(c)
           \/ DriftRecover \/ Crash \/ UNCHANGED vars
  BY <1>1, <1>5, OtherStepsAreQuiet, QuietStep
<1> QED
  BY <1>2, <1>3, <1>4, <1>5 DEF Next

LEMMA IsolationHolds == Spec => [](TypeInv /\ IsolationInv)
BY ProvisioningInit, TypeNext, IsolationInit, IsolationNext, PTL DEF Spec

\* The VLAN a handler read is still its group's when its row exists, through
\* every await of createInstance and whatever removals and teardowns do: also when
\* a DELETE that outran the reservation took the group, for then the request's
\* network is never planned.
THEOREM AttachmentsAreCurrent == Spec => []AttachmentIsCurrent
<1>1. ASSUME TypeInv, IsolationInv, NEW r \in Request \cap DOMAIN instances,
             reqs[r].vlan # NULL
      PROVE  LET g == instances[r].group IN
             \/ g = NULL /\ reqs[r].net \in {"plan", "failed"}
             \/ g = reqs[r].group /\ g \in DOMAIN groups /\ groups[g].vlan = reqs[r].vlan
  <2>1. NULL \notin DOMAIN groups
    BY <1>1, LedgerAssumption DEF TypeInv, TypeOK, LedgerTypeOK
  <2>2. CASE instances[r].group = NULL
    BY <1>1, <2>1, <2>2 DEF IsolationInv, PlannedGroupsAreSettled, Settled
  <2>3. CASE instances[r].group # NULL
    BY <1>1, <2>3 DEF IsolationInv, RowsKnowTheirGroup, HandlersKnowTheirVlan
  <2> QED
    BY <2>2, <2>3
<1>2. TypeInv /\ IsolationInv => AttachmentIsCurrent
  BY <1>1 DEF AttachmentIsCurrent
<1> QED
  BY IsolationHolds, <1>2, PTL

\* A VM configured by a request that still has its row sits on the VLAN of the
\* row's group: no DELETE freed it underneath, not even one that had begun before
\* the reservation.
THEOREM AttachedVlansAreHeld == Spec => []AttachedVlanIsHeld
<1>1. IsolationInv => AttachedVlanIsHeld
  BY DEF IsolationInv, WiredGroupsAreSettled, Settled, AttachedVlanIsHeld
<1> QED
  BY IsolationHolds, <1>1, PTL

\* Two VMs on one VLAN, each wired for a live row, are one owner's, on one
\* profile.
THEOREM NeighboursShareOwnerAndProfile == Spec => []NoForeignNeighbour
<1>1. TypeInv /\ IsolationInv => NoForeignNeighbour
  <2>1. SUFFICES ASSUME TypeInv, IsolationInv, NEW m \in Wired, NEW n \in Wired,
                        vms[m].bridge = vms[n].bridge
                 PROVE  /\ OwnerOf[vms[m].wiredBy] = OwnerOf[vms[n].wiredBy]
                        /\ ProfileOf[vms[m].wiredBy] = ProfileOf[vms[n].wiredBy]
    BY DEF NoForeignNeighbour
  <2> DEFINE g == instances[vms[m].wiredBy].group
             h == instances[vms[n].wiredBy].group
  <2>2. /\ g \in DOMAIN groups /\ groups[g].vlan = vms[m].bridge
        /\ h \in DOMAIN groups /\ groups[h].vlan = vms[n].bridge
    BY <2>1 DEF IsolationInv, WiredGroupsAreSettled, Settled
  <2>3. vms[m].bridge # NULL
    BY <2>1, LedgerAssumption DEF Wired
  <2>4. g = h
    BY <2>1, <2>2, <2>3 DEF TypeInv, TableInv, VlanExclusive
  <2>5. /\ vms[m].wiredBy \in DOMAIN instances /\ vms[n].wiredBy \in DOMAIN instances
    BY <2>1 DEF Wired
  <2>6. g # NULL /\ h # NULL
    BY <2>1, <2>2, LedgerAssumption DEF TypeInv, TypeOK, LedgerTypeOK
  <2> QED
    BY <2>1, <2>4, <2>5, <2>6 DEF IsolationInv, RowsKnowTheirGroup
<1> QED
  BY IsolationHolds, <1>1, PTL

-----------------------------------------------------------------------------
\* Failures.  A row that outlives the failure of its request was flagged before
\* the compensation ran.

FailureIsHandled ==
    \A r \in Request \cap DOMAIN instances :
        reqs[r].pc \in {"compensate", "failed"} => instances[r].quarantined

\* Nothing unflags a row.
LEMMA QuarantineLasts ==
    ASSUME TableInv, [LedgerNext]_ledgerVars
    PROVE  \A i \in DOMAIN instances \cap DOMAIN instances' :
                instances[i].quarantined => instances'[i].quarantined
<1>0. instances \in [DOMAIN instances -> InstanceRow]
  BY DEF TableInv, LedgerTypeOK
<1>1. CASE \/ UNCHANGED ledgerVars \/ RecoverStrandedGroups
           \/ \E g \in GroupId :
                \/ \E o \in Owner, p \in Profile : InsertPlannedGroup(g, o, p)
                \/ ClaimSlot(g) \/ ResumeErrored(g) \/ MarkNetworkGroupError(g)
                \/ MarkNetworkGroupActive(g) \/ MarkNetworkGroupDeleting(g)
                \/ \E c \in Client :
                    DeleteNetworkGroupRecord(c, g) \/ DeleteUnusedPlannedGroup(c, g)
  <2>1. UNCHANGED instances
    BY <1>1 DEF ledgerVars, RecoverStrandedGroups, InsertPlannedGroup,
       ClaimSlot, ResumeErrored, MarkNetworkGroupError, MarkNetworkGroupActive,
       MarkNetworkGroupDeleting, DeleteNetworkGroupRecord, DeleteUnusedPlannedGroup,
       BeginDelete
  <2> QED
    BY <2>1
<1>2. ASSUME NEW i \in InstanceId, InstanceStep(i)
      PROVE  \A k \in DOMAIN instances \cap DOMAIN instances' :
                instances[k].quarantined => instances'[k].quarantined
  BY <1>0, <1>2 DEF InstanceStep, Reserve, FinaliseInstance, MarkQuarantined,
     DeleteInstanceRow, WithRow, WithoutRow, InstanceRow
<1>3. ASSUME NEW c \in Client, TakeRow(c)
      PROVE  \A k \in DOMAIN instances \cap DOMAIN instances' :
                instances[k].quarantined => instances'[k].quarantined
  BY <1>0, <1>3 DEF TakeRow, DropGroup, InstanceRow
<1> QED
  BY <1>1, <1>2, <1>3 DEF LedgerNext, GroupStep

\* One handler's record is replaced: what the others and its pc are then.
LEMMA OthersStay ==
    ASSUME TypeInv, NEW r \in Request, NEW s, reqs' = [reqs EXCEPT ![r] = s]
    PROVE  reqs'[r] = s /\ \A q \in Request \ {r} : reqs'[q] = reqs[q]
BY DEF TypeInv, TypeOK

\* The steps that set more of a handler than its pc.
LEMMA HandlerGoesOn ==
    ASSUME TypeInv, NEW r \in Request,
           UpsertGroup(r) \/ AttachIsolated(r) \/ ChooseVmId(r) \/ ReserveRow(r)
    PROVE  /\ \A q \in Request \ {r} : reqs'[q] = reqs[q]
           /\ reqs'[r].pc \notin {"compensate", "failed"}
<1>0. reqs \in [Request -> RequestState] /\ reqs[r] \in RequestState
  BY DEF TypeInv, TypeOK
<1>1. CASE UpsertGroup(r)
  <2>1. PICK g, mode :
            reqs' = [reqs EXCEPT ![r].pc = "attach", ![r].group = g, ![r].mode = mode]
    BY <1>1 DEF UpsertGroup
  <2> DEFINE new == [reqs[r] EXCEPT !.pc = "attach", !.group = g, !.mode = mode]
  <2>2. reqs' = [reqs EXCEPT ![r] = new] /\ new.pc = "attach"
    BY <1>0, <2>1 DEF RequestState
  <2> HIDE DEF new
  <2> QED
    BY <2>2, OthersStay
<1>2. CASE AttachIsolated(r)
  <2>1. PICK v : reqs' = [reqs EXCEPT ![r].pc = "vmid", ![r].vlan = v]
    BY <1>2 DEF AttachIsolated
  <2> DEFINE new == [reqs[r] EXCEPT !.pc = "vmid", !.vlan = v]
  <2>2. reqs' = [reqs EXCEPT ![r] = new] /\ new.pc = "vmid"
    BY <1>0, <2>1 DEF RequestState
  <2> HIDE DEF new
  <2> QED
    BY <2>2, OthersStay
<1>3. CASE ChooseVmId(r)
  <2>1. PICK m : reqs' = [reqs EXCEPT ![r].pc = "reserve", ![r].vmid = m]
    BY <1>3 DEF ChooseVmId
  <2> DEFINE new == [reqs[r] EXCEPT !.pc = "reserve", !.vmid = m]
  <2>2. reqs' = [reqs EXCEPT ![r] = new] /\ new.pc = "reserve"
    BY <1>0, <2>1 DEF RequestState
  <2> HIDE DEF new
  <2> QED
    BY <2>2, OthersStay
<1>4. CASE ReserveRow(r)
  <2>1. PICK n : reqs' = [reqs EXCEPT ![r].pc = "clone", ![r].net = n]
    BY <1>4 DEF ReserveRow
  <2> DEFINE new == [reqs[r] EXCEPT !.pc = "clone", !.net = n]
  <2>2. reqs' = [reqs EXCEPT ![r] = new] /\ new.pc = "clone"
    BY <1>0, <2>1 DEF RequestState
  <2> HIDE DEF new
  <2> QED
    BY <2>2, OthersStay
<1> QED
  BY <1>1, <1>2, <1>3, <1>4

\* A step of r's handler touches no other handler; it ends in the compensation
\* or in a failure only by going there.
LEMMA HandlerMoves ==
    ASSUME TypeInv, NEW r \in Request, Arrival(r) \/ Handler(r)
    PROVE  /\ \A q \in Request \ {r} : reqs'[q] = reqs[q]
           /\ \/ reqs'[r].pc \notin {"compensate", "failed"}
              \/ Goto(r, "compensate") \/ Finish(r, "failed")
<1>0. reqs \in [Request -> RequestState] /\ reqs[r] \in RequestState
  BY DEF TypeInv, TypeOK
<1>1. CASE \E t \in RequestStep : Goto(r, t)
  BY <1>0, <1>1 DEF Goto, RequestState, RequestStep
<1>2. CASE \E t \in RequestEnd : Finish(r, t)
  <2>1. PICK t \in RequestEnd : Finish(r, t)
    BY <1>2
  <2> DEFINE done == [NewRequest EXCEPT !.pc = t]
  <2>2. reqs' = [reqs EXCEPT ![r] = done] /\ done.pc = t
    BY <2>1 DEF Finish, NewRequest
  <2> HIDE DEF done
  <2>3. t = "failed" \/ t \notin {"compensate", "failed"}
    BY DEF RequestEnd
  <2> QED
    BY <2>1, <2>2, <2>3, OthersStay
<1>3. CASE UpsertGroup(r) \/ AttachIsolated(r) \/ ChooseVmId(r) \/ ReserveRow(r)
  BY <1>3, HandlerGoesOn
<1> QED
  BY <1>1, <1>2, <1>3
     DEF Arrival, Handler, FastFail, AttachShared, AttachRefused, ChooseFails,
         ReserveRefused, Clone, CloneRefused, CloneDone, CloneFails, Configure,
         StartAndFinalise, ConfigureOrStartFails, LookUp, ApplyPolicy, ApplyPolicyFails,
         Promote, UndoVm, DropRow, RemoveUnfiltered, RemoveUnfilteredFails,
         RemoveUnfilteredRow, Quarantine, Compensate, RequestStep, RequestEnd

LEMMA NetworkMoves ==
    ASSUME TypeInv, NEW r \in Request, NetworkWork(r)
    PROVE  \A q \in Request : reqs'[q].pc = reqs[q].pc
<1>0. reqs \in [Request -> RequestState] /\ reqs[r] \in RequestState
  BY DEF TypeInv, TypeOK
<1>1. \/ \E n : reqs' = [reqs EXCEPT ![r].net = n]
      \/ \E n, D, C :
            reqs' = [reqs EXCEPT ![r].net = n, ![r].desired = D, ![r].create = C]
  <2>1. CASE NetPlanFails(r) \/ NetPolicies(r)
    BY <2>1 DEF NetPlanFails, NetPolicies
  <2>2. CASE NetPlan(r)
    BY <2>2, Zenon DEF NetPlan
  <2>3. CASE NetApply(r)
    BY <2>3, Zenon DEF NetApply
  <2>4. CASE NetApplyFails(r)
    BY <2>4, Zenon DEF NetApplyFails
  <2> QED
    BY <2>1, <2>2, <2>3, <2>4 DEF NetworkWork
<1>2. CASE \E n : reqs' = [reqs EXCEPT ![r].net = n]
  BY <1>0, <1>2 DEF RequestState
<1>3. ASSUME NEW n, NEW D, NEW C,
             reqs' = [reqs EXCEPT ![r].net = n, ![r].desired = D, ![r].create = C]
      PROVE  \A q \in Request : reqs'[q].pc = reqs[q].pc
  <2> DEFINE new == [reqs[r] EXCEPT !.net = n, !.desired = D, !.create = C]
  <2>1. reqs' = [reqs EXCEPT ![r] = new] /\ new.pc = reqs[r].pc
    BY <1>0, <1>3 DEF RequestState
  <2> HIDE DEF new
  <2> QED
    BY <2>1, OthersStay
<1> QED
  BY <1>1, <1>2, <1>3

LEMMA HandlerFails ==
    ASSUME TypeInv, IsolationInv, FailureIsHandled, [LedgerNext]_ledgerVars,
           NEW r \in Request, Arrival(r) \/ Handler(r),
           Goto(r, "compensate") \/ Finish(r, "failed"), r \in DOMAIN instances'
    PROVE  instances'[r].quarantined
<1>0. /\ reqs \in [Request -> RequestState]
      /\ instances \in [DOMAIN instances -> InstanceRow]
      /\ TableInv
  BY DEF TypeInv, TypeOK, LedgerTypeOK
<1>1. reqs'[r].pc \in {"compensate", "failed"}
  <2> DEFINE done == [NewRequest EXCEPT !.pc = "failed"]
  <2>1. done.pc = "failed"
    BY DEF NewRequest
  <2>2. Goto(r, "compensate") \/ reqs' = [reqs EXCEPT ![r] = done]
    BY DEF Finish
  <2> HIDE DEF done
  <2> QED
    BY <1>0, <2>1, <2>2 DEF Goto, RequestState
<1>2. ASSUME UpsertGroup(r) \/ AttachIsolated(r) \/ ChooseVmId(r) \/ ReserveRow(r)
      PROVE  FALSE
  BY <1>1, <1>2, HandlerGoesOn
<1>3. ASSUME \/ AttachShared(r) \/ Clone(r) \/ CloneRefused(r) \/ CloneDone(r)
             \/ CloneFails(r) \/ Configure(r) \/ ConfigureOrStartFails(r)
             \/ ApplyPolicy(r) \/ ApplyPolicyFails(r) \/ UndoVm(r)
             \/ RemoveUnfiltered(r) \/ RemoveUnfilteredFails(r)
      PROVE  FALSE
  <2>1. \E t \in {"vmid", "waitClone", "dropRow", "config", "undoVm", "start",
                  "promote", "rmVm", "rmRow", "quarantine"} : Goto(r, t)
    BY <1>3 DEF AttachShared, Clone, CloneRefused, CloneDone, CloneFails, Configure,
       ConfigureOrStartFails, ApplyPolicy, ApplyPolicyFails, UndoVm, RemoveUnfiltered,
       RemoveUnfilteredFails
  <2> QED
    BY <1>0, <1>1, <2>1 DEF Goto, RequestState
<1>4. ASSUME StartAndFinalise(r) \/ Promote(r)
      PROVE  FALSE
  <2>1. Goto(r, "lookup") \/ Finish(r, "ok")
    BY <1>4 DEF StartAndFinalise, Promote
  <2> DEFINE done == [NewRequest EXCEPT !.pc = "ok"]
  <2>2. done.pc = "ok"
    BY DEF NewRequest
  <2>3. Goto(r, "lookup") \/ reqs' = [reqs EXCEPT ![r] = done]
    BY <2>1 DEF Finish
  <2> HIDE DEF done
  <2> QED
    BY <1>0, <1>1, <2>2, <2>3 DEF Goto, RequestState
\* Before the reservation there is no row; LookUp found none.
<1>5. CASE FastFail(r) \/ AttachRefused(r) \/ ChooseFails(r) \/ ReserveRefused(r)
  <2>1. reqs[r].pc \in Early /\ instances' = instances
    BY <1>5 DEF FastFail, AttachRefused, ChooseFails, ReserveRefused, At, Early, ReqOnly,
       OnTables, ledgerVars
  <2> QED
    BY <2>1 DEF IsolationInv, NothingBeforeReservation
<1>6. CASE LookUp(r)
  <2>1. instances' = instances /\ Goto(r, IF r \in DOMAIN instances THEN "policy" ELSE "compensate")
    BY <1>6 DEF LookUp, ReqOnly, OnTables, ledgerVars
  <2>2. r \notin DOMAIN instances
    BY <1>0, <1>1, <2>1 DEF Goto, RequestState
  <2> QED
    BY <2>1, <2>2
\* The row goes, or is flagged, on the way to the compensation.
<1>7. CASE DropRow(r) \/ RemoveUnfilteredRow(r) \/ Quarantine(r)
  BY <1>0, <1>7 DEF DropRow, RemoveUnfilteredRow, Quarantine, IfMatched, OnTables, ledgerVars,
     DeleteInstanceRow, WithoutRow, MarkQuarantined, InstanceRow
<1>8. CASE Compensate(r)
  <2>1. r \in DOMAIN instances /\ reqs[r].pc = "compensate"
    BY <1>8 DEF Compensate, At, IfMatched, OnTables, ledgerVars, MarkNetworkGroupError,
       DeleteUnusedPlannedGroup, BeginDelete
  <2> QED
    BY <1>0, <2>1, QuarantineLasts DEF FailureIsHandled
<1> QED
  BY <1>2, <1>3, <1>4, <1>5, <1>6, <1>7, <1>8 DEF Arrival, Handler

\* Whoever else moves: a row that stays stays flagged, and no handler moves but
\* to die.
LEMMA FailureNext ==
    TypeInv /\ IsolationInv /\ FailureIsHandled /\ [Next]_vars => FailureIsHandled'
<1> SUFFICES ASSUME TypeInv, IsolationInv, FailureIsHandled, [Next]_vars
             PROVE  FailureIsHandled'
  OBVIOUS
<1>0. [LedgerNext]_ledgerVars /\ TableInv
  BY StepsLedger DEF TypeInv
<1>1. ASSUME NEW r \in Request, r \in DOMAIN instances, r \in DOMAIN instances',
             reqs[r].pc \in {"compensate", "failed"}
      PROVE  instances'[r].quarantined
  BY <1>0, <1>1, QuarantineLasts DEF FailureIsHandled
<1>2. ASSUME NEW r \in Request, Arrival(r) \/ Handler(r)
      PROVE  FailureIsHandled'
  <2>1. DOMAIN instances' \subseteq DOMAIN instances \cup {r}
    <3>1. CASE ReserveRow(r)
      BY <3>1 DEF ReserveRow, Reserve, WithRow
    <3>2. CASE UpsertGroup(r)
      BY <3>2 DEF UpsertGroup, InsertPlannedGroup, OnTables, ledgerVars
    <3>3. CASE AttachIsolated(r)
      BY <3>3 DEF AttachIsolated, ClaimSlot, ResumeErrored, OnTables, ledgerVars
    <3>4. CASE Configure(r)
      BY <3>4 DEF Configure, OnTables, ledgerVars
    <3>5. CASE /\ FastFail(r) \/ Handler(r)
               /\ ~AttachIsolated(r) /\ ~ReserveRow(r) /\ ~Configure(r)
      BY <3>5, HandlerIsQuiet DEF QuietTables
    <3> QED
      BY <1>2, <3>1, <3>2, <3>3, <3>4, <3>5 DEF Arrival
  <2>2. SUFFICES ASSUME NEW q \in Request, q \in DOMAIN instances',
                        reqs'[q].pc \in {"compensate", "failed"}
                 PROVE  instances'[q].quarantined
    BY DEF FailureIsHandled
  <2>3. CASE q # r
    BY <1>1, <1>2, <2>1, <2>2, <2>3, HandlerMoves
  <2>4. CASE q = r
    BY <1>0, <1>2, <2>2, <2>4, HandlerMoves, HandlerFails
  <2> QED
    BY <2>3, <2>4
<1>3. ASSUME DOMAIN instances' \subseteq DOMAIN instances,
             \A q \in Request : reqs'[q].pc \in {"compensate", "failed"} =>
                                reqs[q].pc \in {"compensate", "failed"}
      PROVE  FailureIsHandled'
  BY <1>1, <1>3 DEF FailureIsHandled
<1>4. ASSUME NEW r \in Request, NetworkWork(r) PROVE FailureIsHandled'
  <2>1. UNCHANGED instances
    BY <1>4 DEF NetworkWork, NetPlan, NetPlanFails, NetApply, NetApplyFails, NetPolicies,
       ReqOnly, OnTables, ledgerVars
  <2> QED
    BY <1>3, <1>4, <2>1, NetworkMoves
<1>5. ASSUME NEW j \in Job, Removal(j) \/ Teardown(j) PROVE FailureIsHandled'
  BY <1>3, <1>5, JobsTyped, JobIsQuiet DEF QuietTables
<1>6. CASE \/ \E r \in Request : DriftRepair(r)
           \/ \E j \in Job, r \in Request : BeginRemoval(j, r) \/ OperatorRelease(j, r)
           \/ \E c \in Client : DeleteEnds(c)
           \/ DriftRecover \/ Crash \/ UNCHANGED vars
  <2>1. DOMAIN instances' \subseteq DOMAIN instances
    BY <1>6, OtherStepsAreQuiet DEF QuietTables
  <2>2. CASE Crash
    <3> DEFINE dead == [NewRequest EXCEPT !.pc = "dead"]
    <3>1. dead.pc = "dead"
      BY DEF NewRequest
    <3>2. \A q \in Request : reqs'[q] = dead \/ reqs'[q] = reqs[q]
      BY <2>2 DEF Crash
    <3> HIDE DEF dead
    <3> QED
      BY <1>3, <2>1, <3>1, <3>2
  <2>3. CASE UNCHANGED reqs
    BY <1>3, <2>1, <2>3
  <2> QED
    BY <1>6, <2>2, <2>3
       DEF DriftRepair, BeginRemoval, OperatorRelease, DeleteEnds, DriftRecover, JobOnly, vars
<1> QED
  BY <1>2, <1>4, <1>5, <1>6 DEF Next

\* A request that answered an error leaves no row behind, or a quarantined one:
\* whichever step failed, with whatever else running.
THEOREM FailuresAreAccountedFor == Spec => []FailureIsAccountedFor
<1>1. Init => FailureIsHandled
  BY DEF Init, LedgerInit, FailureIsHandled
<1>2. FailureIsHandled => FailureIsAccountedFor
  BY DEF FailureIsHandled, FailureIsAccountedFor
<1> QED
  BY IsolationHolds, FailureNext, <1>1, <1>2, PTL DEF Spec

-----------------------------------------------------------------------------
(* The firewall of a VM.                                                   *)

\* The rules that admit no neighbour and no peer outside g.
Fine(g) ==
    {"session", "drop"} \cup (IF "neighbour" \in g THEN {"own"} ELSE {}) \cup (Peer \cap g)

\* The calls that put no other rule in.
FineCall(g) ==
    ({"set", "unset"} \X {"subnet", "infrastructure"}) \cup ({"delete"} \X (Nat \ {0}))
        \cup ({"insert"} \X Fine(g)) \cup {<<"options">>}

FineJob(g) ==
    [step : {"idle", "observe", "policy", "look", "filter", "entries", "rules", "verify"},
     same : BOOLEAN, policy : Seq(Fine(g)), todo : Seq(FineCall(g))]

\* Rules, policies read and calls planned are all fine by what was ever granted.
GrantedInv ==
    /\ allow \in BOOLEAN /\ peers \subseteq Peer
    /\ peers \subseteq granted /\ (allow => "neighbour" \in granted)
    /\ rules \in Seq(Fine(granted))
    /\ job \in [Writer -> FineJob(granted)]
    /\ \A w \in Writer : job[w].same => "neighbour" \in granted

-----------------------------------------------------------------------------
\* Sequences.

LEMMA ShortSeq ==
    ASSUME NEW S, NEW a \in S, NEW b \in S
    PROVE  <<a>> \in Seq(S) /\ <<a, b>> \in Seq(S)
OBVIOUS

LEMMA SetToSeqTyped ==
    ASSUME NEW S, IsFiniteSet(S)
    PROVE  SetToSeq(S) \in Seq(S)
<1>1. Cardinality(S) \in Nat /\ ExistsBijection(1..Cardinality(S), S)
  BY FS_CardinalityType
<1>2. PICK f : f \in [1..Cardinality(S) -> S] /\ IsInjective(f)
  BY <1>1 DEF ExistsBijection, Bijection, Injection
<1>3. SetToSeq(S) \in [1..Cardinality(S) -> S]
  BY <1>2 DEF SetToSeq
<1> QED
  BY <1>1, <1>3

LEMMA RemoveAtTyped ==
    ASSUME NEW S, NEW s \in Seq(S), NEW k \in Nat \ {0}, k <= Len(s)
    PROVE  RemoveAt(s, k) \in Seq(S)
<1>1. Len(s) \in Nat /\ \A i \in 1..Len(s) : s[i] \in S
  BY LenProperties, ElementOfSeq
<1>2. SubSeq(s, 1, k - 1) \in Seq(S)
  BY <1>1, SubSeqProperties
<1>3. SubSeq(s, k + 1, Len(s)) \in Seq(S)
  BY <1>1, SubSeqProperties
<1> QED
  BY <1>2, <1>3, ConcatProperties DEF RemoveAt

\* More was granted: what was fine still is.
LEMMA FineGrows ==
    ASSUME NEW g, NEW h, g \subseteq h
    PROVE  Fine(g) \subseteq Fine(h) /\ FineCall(g) \subseteq FineCall(h) /\ FineJob(g) \subseteq FineJob(h)
<1>1. Fine(g) \subseteq Fine(h)
  BY DEF Fine
<1>2. FineCall(g) \subseteq FineCall(h)
  BY <1>1 DEF FineCall
<1>3. Seq(Fine(g)) \subseteq Seq(Fine(h)) /\ Seq(FineCall(g)) \subseteq Seq(FineCall(h))
  BY <1>1, <1>2, SeqMonotonic
<1> QED
  BY <1>1, <1>2, <1>3 DEF FineJob

LEMMA PolicyFine ==
    ASSUME NEW g, NEW same \in BOOLEAN, NEW from, same => "neighbour" \in g,
           from \subseteq Peer, from \subseteq g
    PROVE  Policy(same, from) \in Seq(Fine(g))
<1> DEFINE own == IF same THEN <<"drop", "own">> ELSE <<>>
<1>1. SetToSeq(from) \in Seq(Fine(g))
  <2>1. IsFiniteSet(from)
    BY FirewallAssumption, FS_Subset DEF FirewallAssumption
  <2>2. from \subseteq Fine(g)
    BY DEF Fine
  <2>3. SetToSeq(from) \in Seq(from)
    BY <2>1, SetToSeqTyped
  <2> HIDE DEF own
  <2> QED
    BY <2>2, <2>3, SeqMonotonic
<1>2. own \in Seq(Fine(g)) /\ <<"session">> \in Seq(Fine(g))
  <2>1. "session" \in Fine(g) /\ "drop" \in Fine(g) /\ (same => "own" \in Fine(g))
    BY DEF Fine
  <2> QED
    BY <2>1, ShortSeq, EmptySeq
<1> HIDE DEF own
<1>3. <<"session">> \o own \in Seq(Fine(g))
  BY <1>2, ConcatProperties
<1>4. (<<"session">> \o own) \o SetToSeq(from) \in Seq(Fine(g))
  BY <1>1, <1>3, ConcatProperties
<1> QED
  BY <1>4 DEF Policy, own

LEMMA RewriteFine ==
    ASSUME NEW g, NEW policy \in Seq(Fine(g)), rules \in Seq(Fine(g))
    PROVE  Rewrite(policy) \in Seq(FineCall(g))
<1>1. Deletes \in Seq(FineCall(g))
  <2>1. Len(rules) \in Nat
    BY LenProperties
  <2>2. \A k \in 1..Len(rules) : <<"delete", Len(rules) + 1 - k>> \in FineCall(g)
    BY <2>1 DEF FineCall
  <2> QED
    BY <2>1, <2>2 DEF Deletes
<1>2. Inserts(policy) \in Seq(FineCall(g))
  <2>1. Len(policy) \in Nat /\ \A k \in 1..Len(policy) : policy[Len(policy) + 1 - k] \in Fine(g)
    BY LenProperties, ElementOfSeq
  <2>2. \A k \in 1..Len(policy) : <<"insert", policy[Len(policy) + 1 - k]>> \in FineCall(g)
    BY <2>1 DEF FineCall
  <2> QED
    BY <2>1, <2>2 DEF Inserts
<1>3. <<<<"options">>>> \in Seq(FineCall(g))
  BY DEF FineCall
<1>4. Deletes \o Inserts(policy) \in Seq(FineCall(g))
  BY <1>1, <1>2, ConcatProperties
<1> QED
  BY <1>3, <1>4, ConcatProperties DEF Rewrite

-----------------------------------------------------------------------------
\* Nobody is admitted whom the rows never admitted.

\* A step of one writer.
LEMMA WriterMoves ==
    ASSUME GrantedInv, UNCHANGED rows, rules' \in Seq(Fine(granted)),
           NEW w \in Writer, NEW j \in FineJob(granted), j.same => "neighbour" \in granted,
           job' = [job EXCEPT ![w] = j]
    PROVE  GrantedInv'
BY DEF GrantedInv, rows

LEMMA IdleFine == Idle \in FineJob(granted) /\ ~Idle.same /\ <<>> \in Seq(FineCall(granted))
BY EmptySeq DEF Idle, FineJob

\* The writer ends, or takes up what it has computed.
LEMMA WriterSteps ==
    ASSUME GrantedInv, UNCHANGED rows, rules' \in Seq(Fine(granted)), NEW w \in Writer,
           \/ Finished(w)
           \/ \E step \in {"idle", "observe", "policy", "look", "filter", "entries", "rules", "verify"},
                 todo \in Seq(FineCall(granted)) : Step(w, step, todo)
    PROVE  GrantedInv'
<1>1. CASE Finished(w)
  BY <1>1, IdleFine, WriterMoves DEF Finished
<1>2. ASSUME NEW step \in {"idle", "observe", "policy", "look", "filter", "entries", "rules", "verify"},
             NEW todo \in Seq(FineCall(granted)), Step(w, step, todo)
      PROVE  GrantedInv'
  <2> DEFINE j == [job[w] EXCEPT !.step = step, !.todo = todo]
  <2>1. job[w] \in FineJob(granted) /\ (job[w].same => "neighbour" \in granted)
    BY DEF GrantedInv
  <2>2. j \in FineJob(granted) /\ j.same = job[w].same
    BY <2>1 DEF FineJob
  <2>3. job' = [job EXCEPT ![w] = j]
    BY <1>2 DEF Step
  <2> HIDE DEF j
  <2> QED
    BY <2>1, <2>2, <2>3, WriterMoves
<1> QED
  BY <1>1, <1>2

\* A throw leaves the rules, or the VM is gone.
LEMMA Thrown ==
    ASSUME GrantedInv, UNCHANGED rows, NEW w \in Writer, Throw(w)
    PROVE  GrantedInv'
<1>1. rules' \in Seq(Fine(granted))
  BY EmptySeq DEF Throw, Refused, guest, GrantedInv
<1> QED
  BY <1>1, WriterSteps DEF Throw

LEMMA CallFine ==
    ASSUME GrantedInv, NEW w \in Writer, Call(w)
    PROVE  GrantedInv'
<1> DEFINE todo == job[w].todo
           op == Head(todo)
<1>1. todo \in Seq(FineCall(granted)) /\ todo # <<>> /\ rules \in Seq(Fine(granted))
      /\ job[w].step \in {"idle", "observe", "policy", "look", "filter", "entries", "rules", "verify"}
  BY DEF GrantedInv, FineJob, Call
<1>2. op \in FineCall(granted) /\ Tail(todo) \in Seq(FineCall(granted))
  BY <1>1, HeadTailProperties
<1>3. rules' \in Seq(Fine(granted))
  <2>1. CASE op[1] \in {"set", "unset", "options"}
    BY <1>1, <2>1 DEF Call, CreateEntry, DeleteEntry, UpdateOptions
  <2>2. CASE op[1] = "delete" /\ DeleteRule(op[2])
    <3>1. op[2] \in Nat \ {0}
      BY <1>2, <2>2 DEF FineCall
    <3> QED
      BY <1>1, <2>2, <3>1, RemoveAtTyped DEF DeleteRule
  <2>3. CASE op[1] = "insert" /\ CreateRule(op[2])
    <3>1. op[2] \in Fine(granted)
      BY <1>2, <2>3 DEF FineCall
    <3>2. <<op[2]>> \in Seq(Fine(granted))
      BY <3>1
    <3> QED
      BY <1>1, <2>3, <3>2, ConcatProperties DEF CreateRule
  <2> QED
    BY <2>1, <2>2, <2>3 DEF Call
<1>4. Step(w, IF op[1] = "options" THEN "verify" ELSE job[w].step, Tail(todo)) /\ UNCHANGED rows
  BY DEF Call
<1> QED
  BY <1>1, <1>2, <1>3, <1>4, WriterSteps

LEMMA GrantedStep ==
    ASSUME GrantedInv, [FirewallNext]_firewallVars
    PROVE  GrantedInv'
<1>1. CASE EditPeers \/ EditProfile
  <2>1. granted \subseteq granted' /\ UNCHANGED <<rules, job>>
    BY <1>1 DEF EditPeers, EditProfile, guest
  <2>2. Seq(Fine(granted)) \subseteq Seq(Fine(granted')) /\ FineJob(granted) \subseteq FineJob(granted')
    BY <2>1, FineGrows, SeqMonotonic
  <2>3. /\ allow' \in BOOLEAN /\ peers' \subseteq Peer
        /\ peers' \subseteq granted' /\ (allow' => "neighbour" \in granted')
    <3>1. CASE EditPeers
      BY <3>1 DEF EditPeers, GrantedInv
    <3>2. CASE EditProfile
      BY <3>2 DEF EditProfile, GrantedInv
    <3> QED
      BY <1>1, <3>1, <3>2
  <2> QED
    BY <2>1, <2>2, <2>3 DEF GrantedInv
<1>2. CASE RemoveInstance
  BY <1>2, EmptySeq DEF RemoveInstance, rows, GrantedInv
<1>3. CASE BackendDies
  BY <1>3, IdleFine DEF BackendDies, rows, guest, GrantedInv
<1>4. CASE TimerPass \/ RequestedPass
  BY <1>4, IdleFine, WriterSteps DEF TimerPass, RequestedPass, Start, guest, Writer, Pass, GrantedInv
<1>5. ASSUME NEW w \in Writer, WriterStep(w)
      PROVE  GrantedInv'
  <2>1. CASE ReadPolicy(w)
    <3>1. CASE Finished(w)
      BY <2>1, <3>1, WriterSteps DEF ReadPolicy, guest, GrantedInv
    <3>2. ASSUME NEW same \in BOOLEAN, same => "neighbour" \in granted,
                 job' = [job EXCEPT ![w] = [@ EXCEPT !.step = "look", !.policy = Policy(same, PeersRead)]]
          PROVE  GrantedInv'
      <4> DEFINE policy == Policy(same, PeersRead)
                 j == [job[w] EXCEPT !.step = "look", !.policy = policy]
      <4>1. policy \in Seq(Fine(granted))
        BY <3>2, PolicyFine DEF GrantedInv, PeersRead
      <4> HIDE DEF policy
      <4>2. j \in FineJob(granted) /\ j.same = job[w].same
        BY <4>1 DEF GrantedInv, FineJob
      <4>3. job' = [job EXCEPT ![w] = j]
        BY <3>2 DEF policy
      <4>4. rules' \in Seq(Fine(granted)) /\ UNCHANGED rows
        BY <2>1 DEF ReadPolicy, guest, GrantedInv
      <4> HIDE DEF j
      <4> QED
        BY <4>2, <4>3, <4>4, WriterMoves DEF GrantedInv
    <3>3. job[w].same \in BOOLEAN /\ (job[w].same => "neighbour" \in granted)
          /\ allow \in BOOLEAN /\ (allow => "neighbour" \in granted)
      BY DEF GrantedInv, FineJob
    <3> QED
      BY <2>1, <3>1, <3>2, <3>3 DEF ReadPolicy, PolicyNow
  <2>2. CASE Look(w)
    BY <2>2, IdleFine, WriterSteps DEF Look, guest, GrantedInv
  <2>3. CASE ReadFilter(w)
    <3> DEFINE rewrite(e) == IF e \in ipset' THEN <<<<"unset", e>>, <<"set", e>>>> ELSE <<<<"set", e>>>>
    <3>1. rewrite("subnet") \in Seq(FineCall(granted)) /\ rewrite("infrastructure") \in Seq(FineCall(granted))
      <4>1. \A call \in {"set", "unset"}, e \in {"subnet", "infrastructure"} :
                <<call, e>> \in FineCall(granted)
        BY DEF FineCall
      <4> QED
        BY <4>1, ShortSeq
    <3>2. Step(w, "entries", rewrite("subnet") \o rewrite("infrastructure"))
      BY <2>3 DEF ReadFilter, Entries
    <3> HIDE DEF rewrite
    <3>3. rewrite("subnet") \o rewrite("infrastructure") \in Seq(FineCall(granted))
      BY <3>1, ConcatProperties
    <3> QED
      BY <2>3, <3>2, <3>3, WriterSteps DEF ReadFilter, GrantedInv
  <2>4. CASE ReadRules(w)
    <3>1. Rewrite(job[w].policy) \in Seq(FineCall(granted))
      BY RewriteFine DEF GrantedInv, FineJob
    <3> QED
      BY <2>4, <3>1, WriterSteps DEF ReadRules, guest, GrantedInv
  <2>5. CASE Call(w)
    BY <2>5, CallFine
  <2>6. CASE Verify(w)
    BY <2>6, WriterSteps, Thrown DEF Verify, guest, GrantedInv
  <2>7. CASE CallRefused(w) \/ CallFails(w)
    BY <2>7, Thrown DEF CallRefused, CallFails
  <2>8. CASE Observe(w)
    BY <2>8, IdleFine, WriterSteps DEF Observe, guest, GrantedInv
  <2> QED
    BY <1>5, <2>1, <2>2, <2>3, <2>4, <2>5, <2>6, <2>7, <2>8 DEF WriterStep
<1>6. CASE UNCHANGED firewallVars
  BY <1>6 DEF firewallVars, rows, guest, GrantedInv
<1> QED
  BY <1>1, <1>2, <1>3, <1>4, <1>5, <1>6 DEF FirewallNext

LEMMA GrantedHolds == FirewallSpec => []GrantedInv
<1>1. FirewallInit => GrantedInv
  <2> SUFFICES ASSUME FirewallInit PROVE GrantedInv
    OBVIOUS
  <2>1. PICK same \in BOOLEAN :
          /\ job = [w \in Writer |->
                IF w = Create THEN [Idle EXCEPT !.step = "policy", !.same = same] ELSE Idle]
          /\ granted = Wanted \cup IF same THEN {"neighbour"} ELSE {}
    BY DEF FirewallInit
  <2>2. [Idle EXCEPT !.step = "policy", !.same = same] \in FineJob(granted)
    BY EmptySeq DEF Idle, FineJob
  <2>3. job \in [Writer -> FineJob(granted)] /\ \A w \in Writer : job[w].same => "neighbour" \in granted
    BY <2>1, <2>2, IdleFine DEF Idle
  <2> QED
    BY <2>1, <2>3, EmptySeq DEF FirewallInit, GrantedInv, Wanted
<1>2. GrantedInv /\ [FirewallNext]_firewallVars => GrantedInv'
  BY GrantedStep
<1> QED
  BY <1>1, <1>2, PTL DEF FirewallSpec

\* However the writes of several handlers interleave, an enabled firewall admits
\* a neighbour or a peer only if the rows admitted it at some time.
THEOREM SourcesHold == FirewallSpec => []OnlyGrantedSources
<1>1. GrantedInv => OnlyGrantedSources
  <2> SUFFICES ASSUME GrantedInv, enabled, NEW p \in {"neighbour"} \cup Peer, p \in Admitted
               PROVE  p \in granted
    BY DEF OnlyGrantedSources
  <2>1. PICK k \in DOMAIN rules : p \in Matches(rules[k])
    BY DEF Admitted
  <2>2. rules[k] \in Fine(granted)
    BY <2>1, LenProperties, ElementOfSeq DEF GrantedInv
  <2> QED
    BY <2>1, <2>2, FirewallAssumption DEF Fine, Matches, FirewallAssumption
<1> QED
  BY <1>1, GrantedHolds, PTL

-----------------------------------------------------------------------------
\* What was handed over is filtered.

\* The create is under way until its VM is handed over, marked or gone, and what
\* was handed over has been seen enabled.
HandedInv ==
    /\ row \in {"made", "accepted", "quarantined", "gone"}
    /\ row = "made" /\ ~crashed => job[Create].step # "idle"
    /\ row = "accepted" => enabled
    /\ job[Create].step # "observe"

\* Ending, the create leaves the VM removed or its row marked.
LEMMA ThrowHanded ==
    ASSUME GrantedInv, HandedInv, NEW w \in Writer, Throw(w), UNCHANGED crashed
    PROVE  HandedInv'
<1>1. /\ job'[w].step = "idle"
      /\ \A v \in Writer \ {w} : job'[v] = job[v]
  BY DEF Throw, Finished, Idle, GrantedInv
<1>2. CASE w = Create
  BY <1>1, <1>2 DEF Throw, Refused, HandedInv, Exists, guest
<1>3. CASE w # Create
  BY <1>1, <1>3 DEF Throw, Refused, HandedInv, guest, Writer
<1> QED
  BY <1>2, <1>3

\* Where a step of a writer takes it.
LEMMA StepGoes ==
    ASSUME GrantedInv, NEW w \in Writer, NEW step, NEW todo, Step(w, step, todo)
    PROVE  job'[w].step = step /\ \A v \in Writer \ {w} : job'[v] = job[v]
BY DEF GrantedInv, FineJob, Step

\* A step that is not the create's last, and undoes nothing.
LEMMA HandedKept ==
    ASSUME HandedInv, NEW w \in Writer, \A v \in Writer \ {w} : job'[v] = job[v],
           UNCHANGED <<row, crashed>>, enabled => enabled',
           w = Create => job'[w].step # "observe" /\ (job[w].step # "idle" => job'[w].step # "idle")
    PROVE  HandedInv'
BY DEF HandedInv, Writer

LEMMA HandedStep ==
    ASSUME GrantedInv, HandedInv, [FirewallNext]_firewallVars
    PROVE  HandedInv'
<1>0. Create \in Writer /\ Create # Timer /\ Create # Route
  BY FirewallAssumption DEF FirewallAssumption, Writer
<1>1. CASE EditPeers \/ EditProfile \/ RemoveInstance \/ UNCHANGED firewallVars
  BY <1>1 DEF EditPeers, EditProfile, RemoveInstance, firewallVars, guest, HandedInv
<1>2. CASE BackendDies
  BY <1>2 DEF BackendDies, guest, HandedInv, Idle, Writer
<1>3. CASE TimerPass \/ RequestedPass
  <2>1. PICK w \in Pass : Start(w) /\ UNCHANGED <<row, crashed, enabled>>
    BY <1>3 DEF TimerPass, RequestedPass, Pass, guest
  <2> QED
    BY <1>0, <2>1, StepGoes, HandedKept DEF Start, Pass, Writer
<1>4. ASSUME NEW w \in Writer, WriterStep(w)
      PROVE  HandedInv'
  <2>1. CASE CallRefused(w) \/ CallFails(w)
    BY <2>1, ThrowHanded DEF CallRefused, CallFails
  <2>2. CASE Verify(w)
    <3>1. CASE Throw(w)
      BY <2>2, <3>1, ThrowHanded DEF Verify
    <3>2. CASE Finished(w) /\ Accepted(w) /\ UNCHANGED guest /\ enabled
      BY <1>0, <2>2, <3>2 DEF Verify, Finished, Accepted, guest, HandedInv, GrantedInv, Idle
    <3> QED
      BY <2>2, <3>1, <3>2 DEF Verify, Converged
  <2>3. CASE Look(w)
    <3>1. CASE Finished(w) /\ Accepted(w) /\ enabled
      BY <1>0, <2>3, <3>1 DEF Look, Finished, Accepted, guest, HandedInv, GrantedInv, Idle
    <3>2. CASE Step(w, "filter", <<>>) /\ UNCHANGED row
      BY <2>3, <3>2, StepGoes, HandedKept DEF Look, guest
    <3>3. Converged(job[w].policy) => enabled
      BY DEF Converged
    <3> QED
      BY <2>3, <3>1, <3>2, <3>3 DEF Look
  <2>4. CASE ReadPolicy(w)
    <3>1. UNCHANGED <<row, crashed, enabled>> /\ \A v \in Writer \ {w} : job'[v] = job[v]
      BY <2>4 DEF ReadPolicy, Finished, guest, GrantedInv
    <3>2. CASE w = Create
      <4>1. job'[w].step = "look"
        BY <2>4, <3>2 DEF ReadPolicy, GrantedInv, FineJob
      <4> QED
        BY <3>1, <4>1, HandedKept
    <3> QED
      BY <3>1, <3>2, HandedKept
  <2>5. CASE ReadFilter(w) \/ ReadRules(w)
    <3>1. UNCHANGED <<row, crashed, enabled>>
      BY <2>5 DEF ReadFilter, ReadRules, guest
    <3>2. \E step \in {"entries", "rules"} : \E todo : Step(w, step, todo)
      BY <2>5 DEF ReadFilter, ReadRules
    <3> QED
      BY <3>1, <3>2, StepGoes, HandedKept
  <2>6. CASE Observe(w)
    <3>1. w # Create /\ UNCHANGED <<row, crashed, enabled>>
      BY <2>6 DEF Observe, HandedInv, guest
    <3>2. \A v \in Writer \ {w} : job'[v] = job[v]
      BY <2>6 DEF Observe, Finished, Step, GrantedInv
    <3> QED
      BY <3>1, <3>2, HandedKept
  <2>7. CASE Call(w)
    <3>1. UNCHANGED <<row, crashed>> /\ (enabled' = enabled \/ enabled' = TRUE)
      BY <2>7 DEF Call, CreateEntry, DeleteEntry, CreateRule, DeleteRule, UpdateOptions
    <3>2. PICK step \in {"verify", job[w].step} : \E todo : Step(w, step, todo)
      BY <2>7 DEF Call
    <3>3. PICK todo : Step(w, step, todo)
      BY <3>2
    <3>4. w = Create => job[w].step # "observe"
      BY DEF HandedInv
    <3> QED
      BY <3>1, <3>3, <3>4, StepGoes, HandedKept
  <2> QED
    BY <1>4, <2>1, <2>2, <2>3, <2>4, <2>5, <2>6, <2>7 DEF WriterStep
<1> QED
  BY <1>1, <1>2, <1>3, <1>4 DEF FirewallNext

\* Unless the backend died, a VM whose create has ended is filtered and was handed
\* over, or its row is quarantined: whatever the passes write beside the create.
THEOREM AcceptedHolds == FirewallSpec => []AcceptedIsFiltered
<1>1. FirewallInit => HandedInv
  BY DEF FirewallInit, HandedInv, Idle, Writer
<1>2. GrantedInv /\ HandedInv /\ [FirewallNext]_firewallVars => HandedInv'
  BY HandedStep
<1>3. HandedInv => AcceptedIsFiltered
  BY DEF HandedInv, AcceptedIsFiltered, Exists
<1> QED
  BY <1>1, <1>2, <1>3, GrantedHolds, PTL DEF FirewallSpec

=============================================================================
