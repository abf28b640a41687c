---------------------------- MODULE Provisioning ----------------------------
(***************************************************************************)
(* The life of a student VM: POST /instances and everything it races.      *)
(*                                                                         *)
(*   requests   the create handler, with its network work running beside   *)
(*              the clone, its compensation and its firewall step          *)
(*   jobs       whatever removes an instance and releases its group: the   *)
(*              DELETE handler, the expiry sweeper, the operator's release *)
(*   drift      recovery of stranded groups, repair of VM firewalls        *)
(*   crash      the process dies; tables and Proxmox keep what they have   *)
(*                                                                         *)
(* Every await of the code ends an action.  A request inserts at most one  *)
(* group row and one instance row, so both rows are named after it: ids    *)
(* are never reused, as identity columns are not.  Requests and removals   *)
(* are the sessions of the ledger; a DELETE one of them waits in does not  *)
(* end with its process.                                                   *)
(*                                                                         *)
(* Proxmox is external: a call succeeds, finds nothing, or fails; a task   *)
(* that fails after its call was accepted is not noticed by deleteInstance *)
(* (waitForTaskCompletion returns false instead of throwing).              *)
(***************************************************************************)
EXTENDS GroupLedger

CONSTANTS
    Request,        \* POST /instances calls
    Job,            \* concurrent removals and releases
    OwnerOf,        \* [Request -> Owner]
    ProfileOf,      \* [Request -> Profile]
    Modes,          \* network modes an operator may set: subset of NetworkMode
    Shared,         \* the legacy bridge
    MaxCrashes

NetworkMode == {"legacy", "dry-run", "active"}

ASSUME ProvisioningAssumption ==
    /\ GroupId = Request /\ InstanceId = Request /\ Client = Request \cup Job
    /\ OwnerOf \in [Request -> Owner]
    /\ ProfileOf \in [Request -> Profile]
    /\ Modes \subseteq NetworkMode
    /\ VmId \subseteq Nat
    /\ NULL \notin VmId /\ NULL \notin Request
    /\ Shared \notin Vlan \cup {NULL}
    /\ MaxCrashes \in Nat

VARIABLES
    vms,            \* Proxmox guests by VMID
    vnets,          \* VLANs whose SDN VNet exists
    reqs,           \* [Request -> handler state]
    jobs,           \* [Job -> removal state]
    crashes

vars == <<groups, instances, deletes, vms, vnets, reqs, jobs, crashes>>

-----------------------------------------------------------------------------
\* A guest: the bridge its net0 names and the group whose firewall policy it
\* carries.  Proxmox does not know the ghosts, the request whose clone made it
\* and the one whose configVM wrote net0.
Vm == [bridge : Vlan \cup {Shared, NULL}, policy : Request \cup {NULL},
       creator : Request, wiredBy : Request \cup {NULL}]

RequestStep ==
    {"new", "attach", "vmid", "reserve", "clone", "waitClone", "config",
     "start", "lookup", "policy", "promote",
     "undoVm", "dropRow", "rmVm", "rmRow", "quarantine", "compensate"}

RequestEnd == {"ok", "failed", "dead"}

\* The network work of a request: not wanted, about to plan, applying a plan
\* under the reconciliation lock, converging the appliances, over.
NetStep == {"off", "plan", "apply", "policies", "ready", "failed"}

RequestState ==
    [pc : RequestStep \cup RequestEnd, mode : NetworkMode \cup {NULL}, group : Request \cup {NULL},
     vlan : Vlan \cup {NULL}, vmid : VmId \cup {NULL}, net : NetStep,
     desired : SUBSET Vlan, create : SUBSET Vlan]

JobStep ==
    {"idle", "vm", "row", "unplan", "mark", "references", "vnet", "release"}

JobState ==
    [pc : JobStep, inst : Request \cup {NULL}, vmid : VmId \cup {NULL},
     group : Request \cup {NULL}, vlan : Vlan \cup {NULL}]

TypeOK ==
    /\ LedgerTypeOK
    /\ DOMAIN vms \subseteq VmId
    /\ vms \in [DOMAIN vms -> Vm]
    /\ vnets \subseteq Vlan
    /\ reqs \in [Request -> RequestState]
    /\ jobs \in [Job -> JobState]
    /\ crashes \in 0..MaxCrashes

NewRequest ==
    [pc |-> "new", mode |-> NULL, group |-> NULL, vlan |-> NULL, vmid |-> NULL,
     net |-> "off", desired |-> {}, create |-> {}]

IdleJob == [pc |-> "idle", inst |-> NULL, vmid |-> NULL, group |-> NULL, vlan |-> NULL]

Init ==
    /\ LedgerInit
    /\ vms = [m \in {} |-> NULL]
    /\ vnets = {}
    /\ reqs = [r \in Request |-> NewRequest]
    /\ jobs = [j \in Job |-> IdleJob]
    /\ crashes = 0

-----------------------------------------------------------------------------
\* Helpers.

At(r, step) == reqs[r].pc = step

Isolated(r) == reqs[r].mode = "active"

Goto(r, step) == reqs' = [reqs EXCEPT ![r].pc = step]

\* A handler that answered forgets the rest.
Finish(r, answer) == reqs' = [reqs EXCEPT ![r] = [NewRequest EXCEPT !.pc = answer]]

InFlight(r) == reqs[r].pc \in RequestStep \ {"new"}

\* The reconciliation lock is held while a plan is being applied.
LockFree == \A r \in Request : reqs[r].net # "apply"

\* A removal does nothing while it waits in a DELETE.
JobAt(j, step) == jobs[j].pc = step /\ deletes[j] = NULL

JobGoto(j, step) == jobs' = [jobs EXCEPT ![j].pc = step]

JobDone(j) == jobs' = [jobs EXCEPT ![j] = IdleJob]

OnTables == UNCHANGED ledgerVars
OnProxmox == UNCHANGED <<vms, vnets>>

ReqOnly == OnTables /\ OnProxmox /\ UNCHANGED <<jobs, crashes>>
JobOnly == OnTables /\ OnProxmox /\ UNCHANGED <<reqs, crashes>>

\* A guarded UPDATE or DELETE: no row matches, nothing happens.
IfMatched(matches, statement) == IF matches THEN statement ELSE OnTables

-----------------------------------------------------------------------------
\* POST /instances, up to the reservation.

\* The fast fail on the limit: 429 before anything is touched.
FastFail(r) ==
    /\ At(r, "new")
    /\ ~WithinLimit(OwnerOf[r])
    /\ Finish(r, "failed")
    /\ ReqOnly

\* The limit looks free (a count that is stale from here on); getNetworkMode;
\* the upsert of the owner's group for this profile.
UpsertGroup(r) ==
    LET existing == GroupsOf(OwnerOf[r], ProfileOf[r]) IN
    /\ At(r, "new")
    /\ WithinLimit(OwnerOf[r])
    /\ \E mode \in Modes, g \in IF existing = {} THEN {r} ELSE existing :
        reqs' = [reqs EXCEPT ![r].pc = "attach", ![r].group = g,
                             ![r].mode = mode]
    /\ IF existing = {} THEN InsertPlannedGroup(r, OwnerOf[r], ProfileOf[r]) ELSE OnTables
    /\ OnProxmox /\ UNCHANGED <<jobs, crashes>>

\* resolveNetworkAttachment outside active mode: the shared bridge.
AttachShared(r) ==
    /\ At(r, "attach") /\ ~Isolated(r)
    /\ Goto(r, "vmid")
    /\ ReqOnly

\* resolveNetworkAttachment in active mode: the group's VLAN, claimed, resumed
\* or already there.
AttachIsolated(r) ==
    LET g == reqs[r].group IN
    /\ At(r, "attach") /\ Isolated(r)
    /\ \/ ClaimSlot(g)
       \/ ResumeErrored(g)
       \/ g \in DOMAIN groups /\ groups[g].state \in {"creating", "active"} /\ OnTables
    /\ reqs' = [reqs EXCEPT ![r].pc = "vmid", ![r].vlan = groups'[g].vlan]
    /\ OnProxmox /\ UNCHANGED <<jobs, crashes>>

\* The group is gone, is being torn down, or the network plan does not fit the
\* pool: the handler answers 500 and, being outside the inner try, compensates
\* nothing, not even the planned row that made the plan too large.
AttachRefused(r) ==
    LET g == reqs[r].group IN
    /\ At(r, "attach") /\ Isolated(r)
    /\ \/ g \notin DOMAIN groups
       \/ g \in DOMAIN groups /\ groups[g].state = "deleting"
       \/ g \in DOMAIN groups /\ groups[g].vlan = NULL /\ ~PlanFits
    /\ Finish(r, "failed")
    /\ ReqOnly

\* getNextAvailableId asks Proxmox, and only Proxmox, which VMIDs are taken.
ChooseVmId(r) ==
    /\ At(r, "vmid")
    /\ \E m \in VmId \ DOMAIN vms :
        /\ IsLowest(m, VmId \ DOMAIN vms)
        /\ reqs' = [reqs EXCEPT ![r].pc = "reserve", ![r].vmid = m]
    /\ ReqOnly

\* No capacity, or Proxmox unreachable, before anything was reserved.
ChooseFails(r) ==
    /\ At(r, "vmid")
    /\ Goto(r, "compensate")
    /\ ReqOnly

\* The row is written before the clone; the network work starts once it is.
ReserveRow(r) ==
    /\ At(r, "reserve")
    /\ Reserve(r, OwnerOf[r], reqs[r].group, reqs[r].vmid)
    /\ reqs' = [reqs EXCEPT ![r].pc = "clone",
                            ![r].net = IF Isolated(r) THEN "plan" ELSE "off"]
    /\ OnProxmox /\ UNCHANGED <<jobs, crashes>>

\* Over the limit, or the group is gone (foreign key).
ReserveRefused(r) ==
    /\ At(r, "reserve")
    /\ ~WithinLimit(OwnerOf[r]) \/ reqs[r].group \notin DOMAIN groups
    /\ Goto(r, "compensate")
    /\ ReqOnly

-----------------------------------------------------------------------------
\* prepareNetwork, alongside the clone.

\* Variant: the request's own group is not looked for in the plan.
NetPlanOfOthers(r) ==
    /\ reqs[r].net = "plan"
    /\ LockFree
    /\ reqs' = [reqs EXCEPT ![r].net = "apply", ![r].desired = OperationalVlans,
                            ![r].create = OperationalVlans \ vnets]
    /\ ReqOnly

\* Takes the lock, reads the operational plan, observes which VNets are missing.
NetPlan(r) ==
    LET g == reqs[r].group IN
    /\ reqs[r].net = "plan"
    /\ LockFree
    /\ g \in DOMAIN groups /\ IsOperational(groups[g])
    /\ reqs' = [reqs EXCEPT ![r].net = "apply", ![r].desired = OperationalVlans,
                            ![r].create = OperationalVlans \ vnets]
    /\ ReqOnly

\* The group left the operational plan, or the lock was not free in time.
NetPlanFails(r) ==
    /\ reqs[r].net = "plan"
    /\ reqs' = [reqs EXCEPT ![r].net = "failed"]
    /\ ReqOnly

\* Creates what was missing; every VNet of the plan is then observed.
NetApply(r) ==
    /\ reqs[r].net = "apply"
    /\ vnets' = vnets \cup reqs[r].create
    /\ reqs' = [reqs EXCEPT ![r].net = IF reqs[r].desired \subseteq vnets'
                                        THEN "policies" ELSE "failed",
                            ![r].desired = {}, ![r].create = {}]
    /\ OnTables /\ UNCHANGED <<vms, jobs, crashes>>

\* A failed apply deletes what it created.
NetApplyFails(r) ==
    /\ reqs[r].net = "apply"
    /\ reqs' = [reqs EXCEPT ![r].net = "failed", ![r].desired = {}, ![r].create = {}]
    /\ ReqOnly

\* access-trunk, access-policy and gateway-policy.
NetPolicies(r) ==
    /\ reqs[r].net = "policies"
    /\ \E outcome \in {"ready", "failed"} : reqs' = [reqs EXCEPT ![r].net = outcome]
    /\ ReqOnly

-----------------------------------------------------------------------------
\* The clone, from here on possibly failing.

\* cloneVM claims the VMID; whoever comes second is refused.
Clone(r) ==
    /\ At(r, "clone")
    /\ reqs[r].vmid \notin DOMAIN vms
    /\ vms' = WithRow(vms, reqs[r].vmid, [bridge |-> NULL, policy |-> NULL,
                                        creator |-> r, wiredBy |-> NULL])
    /\ Goto(r, "waitClone")
    /\ OnTables /\ UNCHANGED <<vnets, jobs, crashes>>

CloneRefused(r) ==
    /\ At(r, "clone")
    /\ Goto(r, "dropRow")
    /\ ReqOnly

\* The clone task is over, and then the network work is ready.
CloneDone(r) ==
    /\ At(r, "waitClone")
    /\ reqs[r].net \in {"off", "ready"}
    /\ Goto(r, "config")
    /\ ReqOnly

\* The clone task failed or timed out, or the network work failed.
CloneFails(r) ==
    /\ At(r, "waitClone")
    /\ Goto(r, "undoVm")
    /\ ReqOnly

\* configVM writes net0 of the VMID, whoever is behind it by now.
Configure(r) ==
    LET m == reqs[r].vmid IN
    /\ At(r, "config")
    /\ m \in DOMAIN vms
    /\ vms' = [vms EXCEPT ![m].bridge = IF Isolated(r) THEN reqs[r].vlan ELSE Shared,
                          ![m].wiredBy = r]
    /\ Goto(r, "start")
    /\ OnTables /\ UNCHANGED <<vnets, jobs, crashes>>

ConfigureOrStartFails(r) ==
    /\ At(r, "config") \/ At(r, "start")
    /\ Goto(r, "undoVm")
    /\ ReqOnly

\* The VM is started, then provisioning_started_at = NULL; a row deleted
\* meanwhile goes unnoticed.
StartAndFinalise(r) ==
    /\ At(r, "start")
    /\ reqs[r].vmid \in DOMAIN vms
    /\ IfMatched(r \in DOMAIN instances, FinaliseInstance(r))
    /\ IF Isolated(r) THEN Goto(r, "lookup") ELSE Finish(r, "ok")
    /\ OnProxmox /\ UNCHANGED <<jobs, crashes>>

-----------------------------------------------------------------------------
\* The VM's own firewall, and promotion.

\* getById: a vanished row goes straight to the compensation.
LookUp(r) ==
    /\ At(r, "lookup")
    /\ Goto(r, IF r \in DOMAIN instances THEN "policy" ELSE "compensate")
    /\ ReqOnly

\* ensureInstanceFirewall writes to the VMID, whoever is behind it.
ApplyPolicy(r) ==
    LET m == reqs[r].vmid IN
    /\ At(r, "policy")
    /\ m \in DOMAIN vms
    /\ vms' = [vms EXCEPT ![m].policy = reqs[r].group]
    /\ Goto(r, "promote")
    /\ OnTables /\ UNCHANGED <<vnets, jobs, crashes>>

ApplyPolicyFails(r) ==
    /\ At(r, "policy")
    /\ Goto(r, "rmVm")
    /\ ReqOnly

\* markNetworkGroupActive; null is only logged.
Promote(r) ==
    LET g == reqs[r].group IN
    /\ At(r, "promote")
    /\ IfMatched(g \in DOMAIN groups /\ groups[g].state \in {"creating", "deleting"},
                 MarkNetworkGroupActive(g))
    /\ Finish(r, "ok")
    /\ OnProxmox /\ UNCHANGED <<jobs, crashes>>

-----------------------------------------------------------------------------
\* Failure paths.

\* createInstance's catch: best effort on the VM, which may stay behind.
UndoVm(r) ==
    /\ At(r, "undoVm")
    /\ vms' \in {vms, WithoutRow(vms, reqs[r].vmid)}
    /\ Goto(r, "dropRow")
    /\ OnTables /\ UNCHANGED <<vnets, jobs, crashes>>

\* The row goes either way.
DropRow(r) ==
    /\ At(r, "dropRow")
    /\ IfMatched(r \in DOMAIN instances, DeleteInstanceRow(r))
    /\ Goto(r, "compensate")
    /\ OnProxmox /\ UNCHANGED <<jobs, crashes>>

\* After a firewall failure: deleteInstance on the handler's own row.
RemoveUnfiltered(r) ==
    /\ At(r, "rmVm")
    /\ r \in DOMAIN instances
    /\ vms' \in {vms, WithoutRow(vms, reqs[r].vmid)}
    /\ Goto(r, "rmRow")
    /\ OnTables /\ UNCHANGED <<vnets, jobs, crashes>>

\* Variant: the failed cleanup is logged and nothing more.
RemoveUnfilteredUnflagged(r) ==
    /\ At(r, "rmVm")
    /\ Goto(r, "compensate")
    /\ ReqOnly

\* The row is gone, or deleteVM fails: the handler quarantines what it finds.
RemoveUnfilteredFails(r) ==
    /\ At(r, "rmVm")
    /\ Goto(r, "quarantine")
    /\ ReqOnly

RemoveUnfilteredRow(r) ==
    /\ At(r, "rmRow")
    /\ IfMatched(r \in DOMAIN instances, DeleteInstanceRow(r))
    /\ Goto(r, "compensate")
    /\ OnProxmox /\ UNCHANGED <<jobs, crashes>>

Quarantine(r) ==
    /\ At(r, "quarantine")
    /\ IfMatched(r \in DOMAIN instances, MarkQuarantined(r))
    /\ Goto(r, "compensate")
    /\ OnProxmox /\ UNCHANGED <<jobs, crashes>>

\* Variant: a failed attempt demotes whatever group it finds.
CompensateUnguarded(r) ==
    LET g == reqs[r].group IN
    /\ At(r, "compensate")
    /\ reqs[r].net \in {"off", "ready", "failed"}
    /\ IfMatched(g \in DOMAIN groups /\ groups[g].vlan # NULL,
                 SetState(g, "error") /\ UNCHANGED <<instances, deletes>>)
    /\ Finish(r, "failed")
    /\ OnProxmox /\ UNCHANGED <<jobs, crashes>>

\* Variant: the failure of the network work is never settled.
CompensateWhenReady(r) ==
    /\ At(r, "compensate")
    /\ reqs[r].net \in {"off", "ready"}
    /\ Finish(r, "failed")
    /\ ReqOnly

\* createInstance throws only when the network work is over; then
\* compensateNetworkAttachment, and 429 or 500 once its statement is over.
Compensate(r) ==
    LET g == reqs[r].group
        unused == g \in DOMAIN groups /\ InstancesIn(g) = {}
    IN
    /\ At(r, "compensate")
    /\ reqs[r].net \in {"off", "ready", "failed"}
    /\ IF Isolated(r)
       THEN IfMatched(unused /\ groups[g].state \in {"planned", "creating", "error"},
                      MarkNetworkGroupError(g))
       ELSE IfMatched(unused /\ groups[g].state = "planned", DeleteUnusedPlannedGroup(r, g))
    /\ Finish(r, "failed")
    /\ OnProxmox /\ UNCHANGED <<jobs, crashes>>

-----------------------------------------------------------------------------
\* Removing an instance: DELETE /instances/:id, the sweeper, user deletion.

BeginRemoval(j, i) ==
    /\ JobAt(j, "idle")
    /\ i \in DOMAIN instances
    /\ jobs' = [jobs EXCEPT ![j] = [pc |-> "vm", inst |-> i, vmid |-> instances[i].vmid,
                                    group |-> instances[i].group, vlan |-> NULL]]
    /\ JobOnly

\* A reservation whose request died.  RESERVATION_TIMEOUT_MINUTES exceeds every
\* wait of a live request, so a live one is not swept.
Stale(i) ==
    /\ i \in DOMAIN instances
    /\ instances[i].provisioning
    /\ ~InFlight(i)

Sweep(j, i) == Stale(i) /\ BeginRemoval(j, i)

\* Variant: a VM that is already absent counts as a failure to delete.
RemoveExistingVm(j) ==
    /\ JobAt(j, "vm")
    /\ jobs[j].vmid \in DOMAIN vms
    /\ vms' \in {vms, WithoutRow(vms, jobs[j].vmid)}
    /\ JobGoto(j, "row")
    /\ OnTables /\ UNCHANGED <<vnets, reqs, crashes>>

\* stop and delete: done, nothing there, or the task failed unnoticed.
RemoveVm(j) ==
    /\ JobAt(j, "vm")
    /\ vms' \in {vms, WithoutRow(vms, jobs[j].vmid)}
    /\ JobGoto(j, "row")
    /\ OnTables /\ UNCHANGED <<vnets, reqs, crashes>>

\* deleteVM was refused: rethrown, the row stays.
RemoveVmFails(j) ==
    /\ JobAt(j, "vm")
    /\ jobs[j].vmid \in DOMAIN vms
    /\ JobDone(j)
    /\ JobOnly

RemoveRow(j) ==
    /\ JobAt(j, "row")
    /\ IfMatched(jobs[j].inst \in DOMAIN instances, DeleteInstanceRow(jobs[j].inst))
    /\ JobGoto(j, "unplan")
    /\ OnProxmox /\ UNCHANGED <<reqs, crashes>>

Unplan(j) ==
    LET g == jobs[j].group IN
    /\ JobAt(j, "unplan")
    /\ IfMatched(g \in DOMAIN groups /\ InstancesIn(g) = {} /\ groups[g].state = "planned",
                 DeleteUnusedPlannedGroup(j, g))
    /\ JobGoto(j, "mark")
    /\ OnProxmox /\ UNCHANGED <<reqs, crashes>>

-----------------------------------------------------------------------------
\* releaseNetworkGroup.

OperatorRelease(j, g) ==
    /\ JobAt(j, "idle")
    /\ g \in DOMAIN groups
    /\ jobs' = [jobs EXCEPT ![j] = [IdleJob EXCEPT !.pc = "mark", !.group = g]]
    /\ JobOnly

\* The row's VLAN, as the teardown knows it from here on, and the transition
\* that takes it out of every plan.
MarkDeleting(j) ==
    LET g == jobs[j].group IN
    /\ JobAt(j, "mark")
    /\ "active" \in Modes
    /\ MarkNetworkGroupDeleting(g)
    /\ jobs' = [jobs EXCEPT ![j] = [IdleJob EXCEPT !.pc = "references", !.group = g,
                                                   !.vlan = groups[g].vlan]]
    /\ OnProxmox /\ UNCHANGED <<reqs, crashes>>

\* Another mode, no group, no allocation, or instances still in it.
MarkDeletingRefused(j) ==
    LET g == jobs[j].group IN
    /\ JobAt(j, "mark")
    /\ \/ Modes # {"active"}
       \/ g \notin DOMAIN groups
       \/ g \in DOMAIN groups /\ groups[g].vlan = NULL
       \/ InstancesIn(g) # {}
    /\ JobDone(j)
    /\ JobOnly

References(v) == {m \in DOMAIN vms : vms[m].bridge = v}

\* Proxmox, not the database, is asked who still names the VNet.
CheckReferences(j) ==
    /\ JobAt(j, "references")
    /\ IF References(jobs[j].vlan) = {} THEN JobGoto(j, "vnet") ELSE JobDone(j)
    /\ JobOnly

\* Deleted and verified absent; the reconciliation lock is not taken.
DeleteVnet(j) ==
    /\ JobAt(j, "vnet")
    /\ vnets' = vnets \ {jobs[j].vlan}
    /\ JobGoto(j, "release")
    /\ OnTables /\ UNCHANGED <<vms, reqs, crashes>>

\* Any failing step leaves the group `deleting`, allocation and all.
TeardownFails(j) ==
    /\ jobs[j].pc \in {"references", "vnet", "release"}
    /\ JobDone(j)
    /\ JobOnly

\* Variant: the release trusts the check made when the teardown began.
ReleaseUnchecked(j) ==
    LET g == jobs[j].group IN
    /\ JobAt(j, "release")
    /\ IfMatched(g \in DOMAIN groups, DropGroup(g) /\ UNCHANGED deletes)
    /\ JobDone(j)
    /\ OnProxmox /\ UNCHANGED <<reqs, crashes>>

\* Gateway, access policy and trunk converge without the group (each under the
\* lock; what they serve is not state here), then deleteNetworkGroupRecord: the
\* VLAN returns to the pool when its DELETE takes the row, or the row stays.
Release(j) ==
    LET g == jobs[j].group IN
    /\ JobAt(j, "release")
    /\ IfMatched(g \in DOMAIN groups /\ groups[g].state = "deleting" /\ InstancesIn(g) = {},
                 DeleteNetworkGroupRecord(j, g))
    /\ JobDone(j)
    /\ OnProxmox /\ UNCHANGED <<reqs, crashes>>

\* PostgreSQL carries a waiting DELETE out, for a dead process as well.
DeleteEnds(c) ==
    /\ TakeRow(c)
    /\ OnProxmox /\ UNCHANGED <<reqs, jobs, crashes>>

-----------------------------------------------------------------------------
\* The drift pass, and the end of the process.

DriftRecover ==
    /\ "active" \in Modes
    /\ RecoverStrandedGroups
    /\ OnProxmox /\ UNCHANGED <<reqs, jobs, crashes>>

\* Variant: only converged groups are repaired.
FirewallDriftedWhenActive(i) ==
    /\ i \in DOMAIN instances
    /\ instances[i].group \in DOMAIN groups
    /\ groups[instances[i].group].state = "active"
    /\ instances[i].vmid \in DOMAIN vms
    /\ vms[instances[i].vmid].policy # instances[i].group

\* Rows the drift pass renders a policy for, and whose VM lacks it.
FirewallDrifted(i) ==
    /\ i \in DOMAIN instances
    /\ instances[i].group \in DOMAIN groups
    /\ groups[instances[i].group].vlan # NULL
    /\ groups[instances[i].group].state \in {"creating", "active", "error"}
    /\ instances[i].vmid \in DOMAIN vms
    /\ vms[instances[i].vmid].policy # instances[i].group

DriftRepair(i) ==
    /\ "active" \in Modes
    /\ FirewallDrifted(i)
    /\ vms' = [vms EXCEPT ![instances[i].vmid].policy = instances[i].group]
    /\ OnTables /\ UNCHANGED <<vnets, reqs, jobs, crashes>>

Crash ==
    /\ crashes < MaxCrashes
    /\ crashes' = crashes + 1
    /\ reqs' = [r \in Request |->
                    IF InFlight(r) THEN [NewRequest EXCEPT !.pc = "dead"] ELSE reqs[r]]
    /\ jobs' = [j \in Job |-> IdleJob]
    /\ OnTables /\ OnProxmox

-----------------------------------------------------------------------------
NetworkWork(r) ==
    \/ NetPlan(r) \/ NetPlanFails(r)
    \/ NetApply(r) \/ NetApplyFails(r)
    \/ NetPolicies(r)

Arrival(r) == FastFail(r) \/ UpsertGroup(r)

Handler(r) ==
    \/ AttachShared(r) \/ AttachIsolated(r) \/ AttachRefused(r)
    \/ ChooseVmId(r) \/ ChooseFails(r)
    \/ ReserveRow(r) \/ ReserveRefused(r)
    \/ Clone(r) \/ CloneRefused(r) \/ CloneDone(r) \/ CloneFails(r)
    \/ Configure(r) \/ StartAndFinalise(r) \/ ConfigureOrStartFails(r)
    \/ LookUp(r) \/ ApplyPolicy(r) \/ ApplyPolicyFails(r) \/ Promote(r)
    \/ UndoVm(r) \/ DropRow(r)
    \/ RemoveUnfiltered(r) \/ RemoveUnfilteredFails(r) \/ RemoveUnfilteredRow(r)
    \/ Quarantine(r) \/ Compensate(r)

Removal(j) == RemoveVm(j) \/ RemoveVmFails(j) \/ RemoveRow(j) \/ Unplan(j)

Teardown(j) ==
    \/ MarkDeleting(j) \/ MarkDeletingRefused(j)
    \/ CheckReferences(j) \/ DeleteVnet(j) \/ TeardownFails(j) \/ Release(j)

Next ==
    \/ \E r \in Request : Arrival(r) \/ Handler(r) \/ NetworkWork(r) \/ DriftRepair(r)
    \/ \E j \in Job : Removal(j) \/ Teardown(j)
    \/ \E j \in Job, r \in Request : BeginRemoval(j, r) \/ OperatorRelease(j, r)
    \/ \E c \in Client : DeleteEnds(c)
    \/ DriftRecover
    \/ Crash

Spec == Init /\ [][Next]_vars

\* The event loop runs every continuation, and every external call is bounded by
\* a timeout: handlers and removals go on.  A reservation's transaction ends, so
\* that a DELETE waits for none for ever.  The sweeper and the drift pass run
\* on timers of their own; no other removal keeps the sweeper from a row.
\* RemoveVm and DriftRepair are what is assumed of Proxmox: it does not refuse to
\* delete the same VM, or to accept the same policy, for ever.  Nothing makes a
\* request, an operator or a crash come.
Fairness ==
    /\ \A r \in Request : WF_vars(Handler(r)) /\ WF_vars(NetworkWork(r))
    /\ \A j \in Job : WF_vars(Removal(j) \/ Teardown(j)) /\ SF_vars(RemoveVm(j))
    /\ \A r \in Request : SF_vars(\E j \in Job : Sweep(j, r)) /\ WF_vars(DriftRepair(r))
    /\ WF_vars(DriftRecover)
    /\ \A c \in Client : WF_vars(DeleteEnds(c))

FairSpec == Spec /\ Fairness

-----------------------------------------------------------------------------
\* Safety.

\* The VLAN a request read when it resolved its attachment is still its group's
\* for as long as its reservation exists, through every await in between, but for
\* a group deleted under the reservation: that happens only before the request's
\* network is planned, and the request fails.
AttachmentIsCurrent ==
    \A r \in Request \cap DOMAIN instances : reqs[r].vlan # NULL =>
        LET g == instances[r].group IN
        \/ g = NULL /\ reqs[r].net \in {"plan", "failed"}
        \/ g = reqs[r].group /\ g \in DOMAIN groups /\ groups[g].vlan = reqs[r].vlan

\* The VMs whose net0 was written by a request that still has its row.
Wired == {m \in DOMAIN vms : vms[m].bridge \in Vlan /\ vms[m].wiredBy \in DOMAIN instances}

\* A VM configured by a request that still has its row sits on the VLAN of the
\* row's group: no teardown returned that VLAN to the pool, crash or not.
AttachedVlanIsHeld ==
    \A m \in Wired :
        LET i == vms[m].wiredBy IN
        /\ instances[i].group \in DOMAIN groups
        /\ groups[instances[i].group].vlan = vms[m].bridge

\* Isolation: VMs that two live rows put on one VLAN are one owner's, on one
\* profile.
NoForeignNeighbour ==
    \A m, n \in Wired :
        vms[m].bridge = vms[n].bridge =>
            LET r == vms[m].wiredBy
                s == vms[n].wiredBy
            IN OwnerOf[r] = OwnerOf[s] /\ ProfileOf[r] = ProfileOf[s]

\* A request that answered an error leaves no row that counts against the quota
\* unless the row is flagged for somebody to look at.
FailureIsAccountedFor ==
    \A r \in Request \cap DOMAIN instances :
        reqs[r].pc = "failed" => instances[r].quarantined

-----------------------------------------------------------------------------
\* Liveness, under FairSpec.

\* Every request is answered, or its process dies: the clone, the network work
\* and the compensation never wait for each other in a circle.
RequestAnswers == \A r \in Request : InFlight(r) ~> ~InFlight(r)

\* A reservation whose process died stops counting against its owner's quota,
\* whichever step the crash interrupted.
AbandonedReservationGoes == \A r \in Request : Stale(r) ~> r \notin DOMAIN instances

\* A VM that a finished or interrupted request left on a lab VLAN without its
\* group's policy gets the policy, or goes: even if a teardown had taken the
\* group out of every plan meanwhile.
Unfiltered(r) ==
    /\ r \in DOMAIN instances /\ ~InFlight(r)
    /\ \E m \in DOMAIN vms :
        /\ m = instances[r].vmid
        /\ vms[m].bridge \in Vlan
        /\ vms[m].policy # instances[r].group

UnfilteredVmIsRepaired == \A r \in Request : Unfiltered(r) ~> ~Unfiltered(r)

-----------------------------------------------------------------------------
\* What comments and docs say, and the code does not do.

\* "whatever this misses the expiry sweeper reclaims" (instances.controller.ts,
\* the catch of createInstance): a VM its failed request could not destroy goes.
LeftoverIsReclaimed ==
    \A m \in VmId :
        (m \in DOMAIN vms /\ reqs[vms[m].creator].pc = "failed") ~> m \notin DOMAIN vms

\* "a crash between the two leaves one that describes nothing" (ibid.,
\* removeExpiredInstances): the row the sweeper picks up, and whose VMID it
\* deletes, does not name the VM another request was answered with.
AbandonedRowDescribesNothing ==
    \A r \in Request :
        Stale(r) /\ instances[r].vmid \in DOMAIN vms =>
            LET s == vms[instances[r].vmid].creator IN s = r \/ reqs[s].pc # "ok"

\* "no VM is ever configured onto or started on a network that is not ready"
\* (ibid., createInstance; control-plane.md says the same).
ConfiguredOnReadyNetwork ==
    [][\A r \in Request : Configure(r) /\ Isolated(r) => reqs[r].vlan \in vnets]_vars

\* "this is never two students reaching each other" (lab-network.md): a VM is
\* never wired by the request of another owner.
WiredByItsOwner ==
    \A m \in DOMAIN vms :
        vms[m].wiredBy # NULL => OwnerOf[vms[m].wiredBy] = OwnerOf[vms[m].creator]

=============================================================================
