----------------------------- MODULE GroupLedger -----------------------------
(***************************************************************************)
(* The two tables every part of the control plane meets in, network_groups *)
(* and instances, and the statements that move their rows.                 *)
(*                                                                         *)
(* A table is a function from the ids of its rows to the rows.  One action *)
(* is one SQL statement, or one transaction that runs under an advisory    *)
(* lock.  The clients may call the statements in any order: what holds     *)
(* here holds whatever the callers do.                                     *)
(*                                                                         *)
(* Only the two DELETEs of groups.ts take two steps.  PostgreSQL evaluates *)
(* their NOT EXISTS in the snapshot the statement begins with; then it     *)
(* waits for the key-share lock of every reservation not committed yet.    *)
(* Once it has the row it evaluates the row's own columns again, if they   *)
(* changed, and the subquery not: a reservation committed in between loses *)
(* its group.  An UPDATE waits for no reservation, and none of them reads  *)
(* what a reservation reads, so that one step is enough for each.          *)
(*                                                                         *)
(* Left out: last_error, the revision columns and timestamps (no guard     *)
(* reads them); vnet_name and subnet_cidr, which the canonical slot derives *)
(* from vlan_tag, so the all-or-nothing tuple is one field.                *)
(***************************************************************************)
EXTENDS Integers, FiniteSets

CONSTANTS
    GroupId, InstanceId,    \* identity columns
    Owner, Profile,         \* users.vu_id, lab_profiles.id
    Vlan,                   \* the allocation pool, 2000-2255 in the deployment
    VmId,                   \* Proxmox VMIDs
    Client,                 \* database sessions: each runs one statement at a time
    Exempt,                 \* owners the per-student limit does not bind (admins)
    Limit,                  \* settings.limits.vmPerStudent
    NULL

ASSUME LedgerAssumption ==
    /\ Vlan \subseteq Nat
    /\ Limit \in Nat
    /\ NULL \notin Vlan
    /\ NULL \notin GroupId
    /\ IsFiniteSet(InstanceId)

VARIABLES
    groups, instances,      \* the rows by id
    deletes                 \* the DELETE of a group each session is waiting in

ledgerVars == <<groups, instances, deletes>>

GroupState == {"planned", "creating", "active", "deleting", "error"}

GroupRow ==
    [owner : Owner, profile : Profile, state : GroupState, vlan : Vlan \cup {NULL}]

InstanceRow ==
    [owner : Owner, group : GroupId \cup {NULL}, vmid : VmId,
     provisioning : BOOLEAN, quarantined : BOOLEAN]

\* The row its snapshot found, and the state its WHERE clause asks for.
Deletion == [group : GroupId, state : {"planned", "deleting"}]

LedgerTypeOK ==
    /\ DOMAIN groups \subseteq GroupId
    /\ groups \in [DOMAIN groups -> GroupRow]
    /\ DOMAIN instances \subseteq InstanceId
    /\ instances \in [DOMAIN instances -> InstanceRow]
    /\ deletes \in [Client -> Deletion \cup {NULL}]

LedgerInit ==
    /\ groups = [g \in {} |-> NULL]
    /\ instances = [i \in {} |-> NULL]
    /\ deletes = [c \in Client |-> NULL]

-----------------------------------------------------------------------------
\* Tables.

WithRow(table, id, row) ==
    [k \in DOMAIN table \cup {id} |-> IF k = id THEN row ELSE table[k]]

WithoutRow(table, id) == [k \in DOMAIN table \ {id} |-> table[k]]

GroupsOf(o, p) == {g \in DOMAIN groups : groups[g].owner = o /\ groups[g].profile = p}

InstancesIn(g) == {i \in DOMAIN instances : instances[i].group = g}

InstancesOf(o) == {i \in DOMAIN instances : instances[i].owner = o}

OccupiedVlans == {groups[g].vlan : g \in DOMAIN groups}

FreeVlans == Vlan \ OccupiedVlans

IsLowest(v, S) == v \in S /\ \A w \in S : v <= w

Unallocated == {g \in DOMAIN groups : groups[g].vlan = NULL}

\* The network plan gives every row without a VLAN a free one of its own, in
\* whatever state the row is, and throws when the pool has too few of them.
PlanFits == Cardinality(Unallocated) <= Cardinality(FreeVlans)

\* The rows every infrastructure plan is built from.
IsOperational(row) ==
    \/ row.state \in {"creating", "active"}
    \/ row.state = "error" /\ row.vlan # NULL

OperationalVlans == {groups[g].vlan : g \in {h \in DOMAIN groups : IsOperational(groups[h])}}

SetState(g, state) == groups' = [groups EXCEPT ![g].state = state]

-----------------------------------------------------------------------------
\* network_groups

\* getOrCreatePlannedGroup when the (owner, profile) key is new.  When it is
\* not, the upsert returns the existing row and changes nothing.
InsertPlannedGroup(g, o, p) ==
    /\ g \notin DOMAIN groups
    /\ GroupsOf(o, p) = {}
    /\ groups' = WithRow(groups, g,
                    [owner |-> o, profile |-> p, state |-> "planned", vlan |-> NULL])
    /\ UNCHANGED <<instances, deletes>>

\* Variant: the occupied set is read from operational rows only, so the VLAN of
\* a group being torn down looks free.
ClaimAmongOperational(g) ==
    /\ g \in DOMAIN groups
    /\ groups[g].vlan = NULL
    /\ groups[g].state \in {"planned", "error"}
    /\ PlanFits
    /\ \E v \in Vlan \ OperationalVlans :
        /\ IsLowest(v, Vlan \ OperationalVlans)
        /\ groups' = [groups EXCEPT ![g].vlan = v, ![g].state = "creating"]
    /\ UNCHANGED <<instances, deletes>>

\* allocateNetworkGroup on a row without an allocation.  The transaction builds
\* the network plan before it commits: rows that only wait for a VLAN count.
ClaimSlot(g) ==
    /\ g \in DOMAIN groups
    /\ groups[g].vlan = NULL
    /\ groups[g].state \in {"planned", "error"}
    /\ PlanFits
    /\ \E v \in FreeVlans :
        /\ IsLowest(v, FreeVlans)
        /\ groups' = [groups EXCEPT ![g].vlan = v, ![g].state = "creating"]
    /\ UNCHANGED <<instances, deletes>>

\* allocateNetworkGroup on an errored row that kept its allocation.
ResumeErrored(g) ==
    /\ g \in DOMAIN groups
    /\ groups[g].vlan # NULL
    /\ groups[g].state = "error"
    /\ SetState(g, "creating")
    /\ UNCHANGED <<instances, deletes>>

\* The failed attempt is recorded; the allocation is kept.
MarkNetworkGroupError(g) ==
    /\ g \in DOMAIN groups
    /\ groups[g].state \in {"planned", "creating", "error"}
    /\ InstancesIn(g) = {}
    /\ SetState(g, "error")
    /\ UNCHANGED <<instances, deletes>>

MarkNetworkGroupActive(g) ==
    /\ g \in DOMAIN groups
    /\ groups[g].state \in {"creating", "deleting"}
    /\ SetState(g, "active")
    /\ UNCHANGED <<instances, deletes>>

MarkNetworkGroupDeleting(g) ==
    /\ g \in DOMAIN groups
    /\ groups[g].state \in {"creating", "active", "error", "deleting"}
    /\ groups[g].vlan # NULL    \* the callers refuse a group without an allocation
    /\ InstancesIn(g) = {}
    /\ SetState(g, "deleting")
    /\ UNCHANGED <<instances, deletes>>

\* The foreign key is ON DELETE SET NULL: a row still naming the group loses it.
DropGroup(g) ==
    /\ groups' = WithoutRow(groups, g)
    /\ instances' = [i \in DOMAIN instances |->
                        IF instances[i].group = g
                        THEN [instances[i] EXCEPT !.group = NULL]
                        ELSE instances[i]]

\* The DELETE begins: its WHERE clause holds in its snapshot.
BeginDelete(c, g, state) ==
    /\ deletes[c] = NULL
    /\ g \in DOMAIN groups
    /\ groups[g].state = state
    /\ InstancesIn(g) = {}
    /\ deletes' = [deletes EXCEPT ![c] = [group |-> g, state |-> state]]
    /\ UNCHANGED <<groups, instances>>

DeleteNetworkGroupRecord(c, g) == BeginDelete(c, g, "deleting")

DeleteUnusedPlannedGroup(c, g) == BeginDelete(c, g, "planned")

\* Variant: the state was read by a statement of its own and the row is deleted
\* by its id.
DeleteById(c) ==
    /\ deletes[c] # NULL
    /\ IF deletes[c].group \in DOMAIN groups
       THEN DropGroup(deletes[c].group)
       ELSE UNCHANGED <<groups, instances>>
    /\ deletes' = [deletes EXCEPT ![c] = NULL]

\* The DELETE takes the row, whoever is in it by now, unless the row is gone or
\* its state has moved.
TakeRow(c) ==
    LET g == deletes[c].group IN
    /\ deletes[c] # NULL
    /\ IF g \in DOMAIN groups /\ groups[g].state = deletes[c].state
       THEN DropGroup(g)
       ELSE UNCHANGED <<groups, instances>>
    /\ deletes' = [deletes EXCEPT ![c] = NULL]

\* One UPDATE over every group that is `deleting` while it holds instances.
Stranded == {g \in DOMAIN groups : groups[g].state = "deleting" /\ InstancesIn(g) # {}}

RecoverStrandedGroups ==
    /\ Stranded # {}
    /\ groups' = [g \in DOMAIN groups |->
                    IF g \in Stranded
                    THEN [groups[g] EXCEPT !.state = "creating"]
                    ELSE groups[g]]
    /\ UNCHANGED <<instances, deletes>>

-----------------------------------------------------------------------------
\* instances

\* The per-owner advisory lock makes count and INSERT one step.
WithinLimit(o) == o \in Exempt \/ Cardinality(InstancesOf(o)) < Limit

\* Variant: the count of the fast fail is trusted.
ReserveUncounted(i, o, g, vmid) ==
    /\ i \notin DOMAIN instances
    /\ g \in DOMAIN groups
    /\ instances' = WithRow(instances, i,
                        [owner |-> o, group |-> g, vmid |-> vmid,
                         provisioning |-> TRUE, quarantined |-> FALSE])
    /\ UNCHANGED <<groups, deletes>>

\* The reservation transaction of createInstance.  A group that is gone by now
\* fails the INSERT's foreign key; nothing makes the group the owner's own.
Reserve(i, o, g, vmid) ==
    /\ i \notin DOMAIN instances
    /\ g \in DOMAIN groups
    /\ WithinLimit(o)
    /\ instances' = WithRow(instances, i,
                        [owner |-> o, group |-> g, vmid |-> vmid,
                         provisioning |-> TRUE, quarantined |-> FALSE])
    /\ UNCHANGED <<groups, deletes>>

\* UPDATE ... SET provisioning_started_at = NULL: "describes a real machine".
FinaliseInstance(i) ==
    /\ i \in DOMAIN instances
    /\ instances' = [instances EXCEPT ![i].provisioning = FALSE]
    /\ UNCHANGED <<groups, deletes>>

MarkQuarantined(i) ==
    /\ i \in DOMAIN instances
    /\ instances' = [instances EXCEPT ![i].quarantined = TRUE]
    /\ UNCHANGED <<groups, deletes>>

DeleteInstanceRow(i) ==
    /\ i \in DOMAIN instances
    /\ instances' = WithoutRow(instances, i)
    /\ UNCHANGED <<groups, deletes>>

-----------------------------------------------------------------------------
GroupStep(g) ==
    \/ \E o \in Owner, p \in Profile : InsertPlannedGroup(g, o, p)
    \/ ClaimSlot(g)
    \/ ResumeErrored(g)
    \/ MarkNetworkGroupError(g)
    \/ MarkNetworkGroupActive(g)
    \/ MarkNetworkGroupDeleting(g)
    \/ \E c \in Client : DeleteNetworkGroupRecord(c, g) \/ DeleteUnusedPlannedGroup(c, g)

InstanceStep(i) ==
    \/ \E o \in Owner, g \in GroupId, vmid \in VmId : Reserve(i, o, g, vmid)
    \/ FinaliseInstance(i)
    \/ MarkQuarantined(i)
    \/ DeleteInstanceRow(i)

LedgerNext ==
    \/ \E g \in GroupId : GroupStep(g)
    \/ \E i \in InstanceId : InstanceStep(i)
    \/ \E c \in Client : TakeRow(c)
    \/ RecoverStrandedGroups

LedgerSpec == LedgerInit /\ [][LedgerNext]_ledgerVars

-----------------------------------------------------------------------------
\* Properties.

\* No two groups hold the same VLAN, whatever interleaving of allocations,
\* retries and teardowns: UNIQUE (vlan_tag) never has to refuse a statement.
VlanExclusive ==
    \A g, h \in DOMAIN groups :
        groups[g].vlan # NULL /\ groups[g].vlan = groups[h].vlan => g = h

\* network_groups_allocation_state_check never has to refuse a statement: a
\* planned group holds no VLAN, a creating, active or deleting one does.
AllocationMatchesState ==
    \A g \in DOMAIN groups :
        /\ groups[g].state = "planned" => groups[g].vlan = NULL
        /\ groups[g].state \in {"creating", "active", "deleting"} => groups[g].vlan # NULL

\* Reservations count: no owner the limit binds ever holds more rows than it.
QuotaHolds ==
    \A o \in Owner \ Exempt : Cardinality(InstancesOf(o)) <= Limit

\* What the tables mean in terms of the promise of VlanLease.
leaseOf == [g \in GroupId |-> IF g \in DOMAIN groups THEN groups[g].vlan ELSE NULL]
retiringGroups == {g \in DOMAIN groups : groups[g].state = "deleting"}
occupiedGroups == {instances[i].group : i \in DOMAIN instances} \ {NULL}
returningGroups ==
    {deletes[c].group : c \in {d \in Client : deletes[d] # NULL /\ deletes[d].state = "deleting"}}

Lease == INSTANCE VlanLease WITH
    Holder <- GroupId, NoVlan <- NULL,
    lease <- leaseOf, retiring <- retiringGroups, occupied <- occupiedGroups,
    returning <- returningGroups

\* The tables implement VlanLease: lowest free VLAN first; given back only from a
\* group that is retired at that moment, retired only while no instance occupied
\* it, and whose return was begun while none did.
LeaseSpec == Lease!Spec

-----------------------------------------------------------------------------
\* What a comment says, and the code does not do.

\* "the instance check catches a VM attached during it" (groups.ts, above
\* deleteNetworkGroupRecord): ON DELETE SET NULL never fires.
NoInstanceLosesItsGroup ==
    \A i \in DOMAIN instances : instances[i].group \in DOMAIN groups

=============================================================================
