# Virtual lab control plane: specifications, checks and proofs

A TLA+ development of the backend that gives students virtual machines on
Proxmox, each on a VLAN of its owner's own, and of the appliances around them:
the tables it keeps, the handlers that create, hand over and remove VMs, what
brings VNets, firewalls, the Gateway and the Access LXC to what the tables say,
remote sessions through Guacamole, and the accounts.

Run TLC in this directory with `tlc -workers 2 -config X.cfg M`, the proofs with
`tlapm M_proofs.tla`. `PROJECT.json` maps every definition to the lines it
stands for, and lists components, runs, mutants, hazards and theorems.

## 1. Inventory

| Part | State it keeps | Operations | Meets the others through |
|---|---|---|---|
| Group ledger (`network/groups.ts`, `schema.sql`) | rows of `network_groups`: owner, profile, state, VLAN tuple | upsert, allocate, resume, to error / active / deleting, delete record, delete unused, recover stranded | the table; guards inside the statements |
| Instances (`controllers/instances.controller.ts`) | rows of `instances`, `run_until` | reservation (advisory lock per owner), finalise, quarantine, renew, delete | foreign key to the group, VMID into Proxmox |
| Create handler (`routes/instances.route.ts`, `network/attachment.ts`) | local: mode, group, VLAN, VMID | the awaits of `POST /instances`, and their undoing | all of the above, Proxmox, network work in parallel with the clone |
| Network work (`network/provisioning-*.ts`, `network/infrastructure-*.ts`) | a plan, a snapshot, the attempt log | VNet apply with compensation, then trunk, access policy, gateway policy | reconciliation advisory lock |
| Removal (`deleteInstance`, `DELETE /instances/:id`, expiry sweeper) | local: the row it read | stop, delete VM, delete row, release the group | Proxmox, Guacamole, ledger, teardown |
| Teardown (`network/teardown.ts`) | local: the group's row, read once | mark deleting, reference check, delete VNet, converge appliances, delete record | ledger, Proxmox, executors |
| Drift reconciler (`network/drift-reconciler.ts`) | none | recover stranded groups, observe, repair | every executor |
| Gateway and access applies (`network/*-apply*.ts`, `infra/gateway/apply_gateway.py`, `infra/access/apply_access.py`) | on the guest: files, ruleset, Squid, VLAN links, backup, rollback script, transaction, timer | stage, observe, commit, roll back | SSH, systemd, networkd, reconciliation lock |
| Access trunk (`network/access-trunk*.ts`, `infra/access/apply_access_trunk_forced_command.py`) | on the hypervisor: `net1`, bridge VLANs, backup, timer | apply, prove, commit, roll back | SSH, `pct`, systemd |
| Attempt log and lock (`network/reconciliation-attempts.ts`) | `network_reconciliation_attempts`, a session lock | create, checkpoint, finish, abandon running | every executor |
| Policy rows (`network/policy.ts`, `controllers/lab-profiles.controller.ts`) | peerings, allowed domains, profiles | add, remove, replace | the plans of both appliances |
| Plans and renderers (`network/*-desired-state.ts`, `*-plan.ts`, `*-render.ts`) | none (pure) | rows to documents, documents to files | executors |
| VM firewall (`network/vm-firewall*.ts`, `network/provisioning-firewall.ts`) | none; in Proxmox: rules, source filter, options | rules of a VM from its profile and peerings, written call by call | Proxmox |
| Guacamole sessions (`routes/instances.route.ts`, `guacamole/api.ts`) | connection cache; in Guacamole: accounts, connections, grants; `guac_password` | session, ensure account, connection, grant, login, web proxy | Guacamole, `users`, `instances` |
| Accounts (`controllers/users.controller.ts`, `routes/auth.route.ts`) | `users`, tokens | login, role, deletion with everything the user owns | foreign keys, teardown |
| Templates, metadata, metrics | rows, gauges | CRUD | foreign keys |
| Web interface, deployment scripts, images | none of the backend's | | HTTP |

**What is hard here.** Nothing holds a lock over a request: a create takes
minutes, over a VLAN and a VMID it read at its start, while other handlers, the
sweeper (every minute, possibly twice at once), the operator and the drift pass
(every ten minutes) work on the same rows. The only protections are guards
inside single statements, one advisory lock per owner and one for reconciliation
that teardown's VNet deletion, the VM firewalls and Guacamole do not take. Every
external call can fail, also after it took effect; the undoing of a failure can
fail; the process can die anywhere. On the appliances the backend may lose the
answer of a call that goes on without it, and the guest acts by itself when a
timer elapses or it reboots. The full list, line by line, is `hazards` in
`PROJECT.json`.

## 2. Modules

```
VlanLease            what is promised about a VLAN
   ^ implements (LeaseSpec)
GroupLedger          the two tables, one action per SQL statement
   ^ implements (LedgerSpec), extends
Provisioning         handlers, network work, removals, teardown, drift, crash
   its steps in detail, each against its own surroundings:
   VnetApply         the VNet step: lock, attempts, plan, SDN, compensation
   AccessTrunk       the trunk step: hypervisor, timer, proof
   AccessApply       the access step: surfaces, reboots, pass after pass
   ApplianceApply    the gateway step: backend, guest processes, timer, Squid
   NetworkPolicy     the three last steps as one each: what they put in force
   VmFirewall        the firewall step, call by call
RemoteSession        the connect button, Guacamole's cache and secrets
Accounts             run_until, sweeper, deletion of accounts
<module>_proofs      theorems on Provisioning (GroupLedger's and VmFirewall's
                     among them), VnetApply, AccessTrunk, AccessApply,
                     ApplianceApply, NetworkPolicy, RemoteSession, Accounts
MC<module>           its instance for TLC
```

Every module splits the code at its awaits: one action runs from one await (a
statement, an API call, an SSH command) to the next, with every state change of
the code between them. A call may fail before or after it took effect where the
code would notice a difference. A value named `Nothing`, `NoRow`, `Idle` and the
like is the absence of a row or of a handler's local state. A comment that
starts with "Variant:" or "Mutant:" introduces a plausible bug: no specification
uses it, it takes the place of the definition after it in a check that some
property notices.

**VlanLease** is the abstract specification: holders lease the lowest free
VLAN and are retired only when unoccupied; a return is begun only of a retired
and unoccupied holder, and carried out only if it is still retired. Who moved in
between is turned out.

**GroupLedger.** A table is a function from ids to rows, an action a statement
(or a transaction under an advisory lock) with its WHERE clause as guard. The
callers may run them in any order. `INSERT ... ON CONFLICT` on an existing key
changes nothing and is no step. The two `DELETE ... NOT EXISTS` take two steps:
`BeginDelete` finds the row in the statement's snapshot, `TakeRow` has waited for
the reservations not committed yet, looks at the row's state again and not for
instances, and sets `network_group_id` to null where one arrived. `deletes[c]` is
what session `c` waits in; every request and removal is a session. No other
statement conflicts with the key-share lock of a reservation. A claim computes the plan inside its transaction,
and the plan projects the rows in `planned` onto the pool too: `PlanFits` is the
condition under which that does not throw. The refinement maps a group to a
holder, its `vlan_tag` to the lease, `deleting` to retired, rows of `instances`
to occupancy, the waiting DELETEs of `deleting` rows to returns begun. Columns no guard reads are left out; `vnet_name` and `subnet_cidr`
follow from the VLAN.

**Provisioning** extends it. `reqs[r]` is a running `POST /instances`: `pc`
names the await it is at, `net` its network work beside the clone. `jobs[j]` is
a removal followed by a release, or an operator's release. A job goes on when its
DELETE has ended (`DeleteEnds`), and its name runs nothing else before; a handler
that answers does not look at the result, so its last DELETE may end after its
answer, and after a crash. `vms` and `vnets` are Proxmox. Where the code does two things in one action, nothing another process
does between them can matter: the group row and its transition to `deleting` (a
claimed VLAN never changes while the row lives); the fast fail, the mode and the
upsert (nothing uses the count again); start and finalise (a start has no state
here). Ids are named after the request that makes them: a request inserts at
most one group and one instance, and identity columns are never reused.

**VnetApply.** A slot is a VLAN with the VNet named after it; `epoch` tells the
groups apart that hold it one after the other, as the ids in a revision do. An
applier reads the revision, takes the session lock (bounded waits), abandons
what the table calls running, reads again, observes, plans, mutates, applies the
SDN configuration, verifies, and compensates what is still as it left it. The
dry-run takes the same lock; teardowns do not. Proxmox has the configuration
being edited (`staged`) and the one on the hosts (`live`).

**AccessTrunk.** `persistent` is `net1`, `live` the bridge; the forced command
serving an apply goes on when its client is gone; the rollback script and the
timer are the host's. The script stops at a failing `pct set` (`ScriptFails`) and
passes over failing bridge commands; on the timer it runs once, and systemd then
keeps the failed unit (`failedUnit`), whose name refuses every later apply at
`Arm` until a rollback or commit resets it. `systemctl stop` may fail unnoticed
(`CancelRollback`), so that a timer may outlive a rollback or a commit. The
backend proves over the observer's channel and commits. `stacked` and
`script.botched` (a run of the script left something undone) are ghosts.

**ApplianceApply** has the guest's files (`disk`) and what runs (`live`) as one
revision each, `backup`, `script`, `txn` and `timer` as the applier leaves them
under `/run`, `ops[k]` the guest process of an apply and `applies[k]` the
backend's side; overlapping guest processes are possible. Squid has the
configuration it loaded and the tunnels it opened: a reload keeps tunnels, a
restart cuts them. `GiveUp` is a lost answer, a client killed at its timeout or
a dead backend. `proven`, `stacked` and `before` are ghosts: nothing guards on
them.

**AccessApply** has the same protocol for the Access LXC with its surfaces apart
(managed file, include, units, links, table in force), Docker's bridges, reboots
that clear `/run`, and passes that come again until desired and observed agree.
Calls follow each other here; overlapping ones are ApplianceApply's.

**NetworkPolicy** has the rows (groups, domains, peerings), the handlers that
move groups, and the passes that put a document in force. An apply is one step
with its failures; the document of the Gateway is read in two statements outside
any transaction, and re-read under the lock.

**VmFirewall** is one VM: `rules` in Proxmox's order, `ipset` the source filter,
`enabled` the options. A writer's `todo` is the list of API calls it computed
from one listing; create, timed pass and requested pass interleave. Its
specification is `FirewallSpec`, so that one module of proofs can extend it
beside Provisioning.

**RemoteSession.** `session[s]` is a request at one of its awaits. The cache has
one shared listing for all who wait (`fetch["shared"]`) and one for the admin
page; `outdated` is the flag the writers set. `secret` is `users.guac_password`.

**Accounts.** Rows carry their age and the hours left, capped; `claim` is the
role in the token, `role` the one in the table. The three handlers that delete
instances share one set of steps, as they share `deleteInstance` and the release
after it.

**How they compose.** Provisioning is the whole of a request with each network
step as ready or failed; the modules under it are those steps opened up, each
with everything that runs beside it, and with the other steps closed. What one
assumes of another is what the other checks: that a ready VNet stays
(VnetApply.ReadyVnetStays), that an apply that succeeded is in force or guarded
(ApplianceApply.UnprovenIsGuarded), that an accepted VM is served and filtered
(NetworkPolicy.AcceptedIsServed, VmFirewall.AcceptedIsFiltered).

## 3. Runs

All twelve pass. They are the configurations `MC<module>.cfg`, with `MCSiblings`
and `MCLifecycle` beside `MCProvisioning`.

| Run | Instance | Shows |
|---|---|---|
| `ledger` | 3 groups, 1 instance, 2 owners, 2 profiles, 2 VLANs, 2 sessions; ids and sessions symmetric | no VLAN is held twice and VlanLease is implemented, whatever the order of statements and however long a DELETE waits |
| `provisioning` | 2 requests of 2 owners, 1 VLAN, 2 VMIDs, 1 removal or teardown at a time, 1 crash | isolation and accountability in every interleaving |
| `siblings` | 2 requests of 1 owner, limit 1, 1 VLAN, 1 VMID, modes legacy and active | the limit, with a stale count, a teardown under the sibling and a switch of modes |
| `lifecycle` | 1 request, 2 removals, 1 crash, fairness | requests are answered, abandoned reservations go, unfiltered VMs are repaired; every step is a statement of the ledger |
| `vnets` | 2 creates, 1 dry-run, 1 teardown at a time, 2 VLANs given out twice, one of them mistagged at the start, 1 crash | attempts are true, a ready VNet stays, failure leaves no trace, success converges |
| `trunk` | 2 applies, 2 VLANs beside the migration VLAN, 2 changes, 1 restart | the migration VLAN stays, the halves agree, what is left half done is put back, or a command of the restore failed |
| `appliance` | 2 applies, 3 revisions (in force, without the domain, without the lab), fairness | unproven policy is guarded and goes; a reported rollback restored; the allowlist is in force |
| `access` | 2 VLANs wanted one at a time, 2 bridges, 2 faults, 1 change, fairness | it boots as it runs, undone is undone, the proof is current, the guest converges |
| `policy` | 3 groups, 2 VLANs, 2 handlers, both kinds of pass, a good and an unrenderable domain, 2 events, fairness | accepted VMs are served, only peers reach each other, the appliances converge |
| `firewall` | 1 peer, create beside a timed or requested pass, 1 event, 1 request, fairness | no VM is handed over unfiltered, only granted sources pass, the firewall converges |
| `sessions` | 2 tabs of 1 user on 1 instance, 1 event, fairness | a secret that opens its account goes on to, answers lead to the own machine, who keeps connecting gets in |
| `accounts` | 1 student, 2 ids of which one's VM cannot be deleted, default 1 h, cap 2 h, 1 event, fairness | nobody holds a VM for ever, rows have owners, deletion of an account succeeds, at once or in the end |

**Why these bounds.** Two owners over one VLAN is the smallest instance in which
a VLAN is reused by somebody else and the pool is exhausted; three groups are
needed for reuse while a third is torn down, and `ledger` and `policy` have
them; two sessions are two DELETEs of one group, or of two, at once; one
instance is enough for the snapshot of one to miss it, and the limit, which wants
more, is `siblings`' and proved. `provisioning` stays at one VLAN because a second one does not finish in
reasonable time; its invariants are proved for every pool. Two VMIDs let one be
freed and given to the second request. Two removals are what a sweep and a
DELETE of one instance are. A crash matters once: the second leaves nothing the
first did not. In `vnets` a VLAN is given out twice, so that a create, an apply
and a teardown of its former group meet the new one. Two applies overlap on a
guest or a host as any two do. `MaxEvents`, `MaxFaults`, `MaxChanges`,
`MaxMoves`, `MaxRequests`, `MaxRestarts`, `MaxCrashes` bound what the
environment does (edits, failing calls, moves), not what the code does; one or
two suffice for an event to fall between any two awaits. `RevisionTries` and
`LockWaits` are the code's own limits made small.

Restrictions of the MC modules, each to stay in TLC's reach: `firewall` has two
writers in flight and starts with an open group; `sessions` has two of three
handlers in flight (two tabs and a removal) and starts with a running machine
whose user may hold no secret yet, so that both tabs may be the user's first. `accounts` has two of four handlers in flight, a request only beside
the deletion of the account. `policy` starts from a full lab.

`CHECK_DEADLOCK FALSE` is set where requests or applies are finite and all may
be over.

**Fairness.** Weak, for each handler, its network work, each removal and
teardown, each guest process and the backend's side of an apply: the event loop
runs every continuation, and every external call ends by its own timeout
(`waitForTaskCompletion` 120 s, lock wait 90 s, SSH 45 to 180 s, guest commands
60 to 90 s). Weak for what is scheduled: `DriftRecover`, `DriftRepair`,
`TimerPass` (ten minutes), the sweeper and `Tick`, the status job, the expiry of
the proxy's entries, `Fire` (a systemd timer), `Settle` (networkd). Strong for
the sweep of a stale row, since the sweeper returns every minute although other
removals may come first; for `RemoveVm` in Provisioning, an assumption about
Proxmox (it does not refuse the same deletion for ever; Accounts has the VM it
does refuse); and for the deletion of a retired account, which an administrator
asks for until it is gone. In `sessions` the user keeps connecting. Nothing else
makes a request arrive, an operator act or a process die.

## 4. What the properties say

*Isolation.* The VLAN of a VM's bridge is held by the group of the row of the
request that wired it (`AttachedVlanIsHeld`), and what a handler read at its start still
holds when it writes the bridge, minutes later, or the request is bound to fail
(`AttachmentIsCurrent`), so VMs of live rows on one VLAN are
one owner's on one profile (`NoForeignNeighbour`); the Gateway forwards between
two groups only if an administrator approved them (`OnlyPeersReach`); a VM's
firewall admits only what its profile and peers grant (`OnlyGrantedSources`), and
is on when it is handed over (`AcceptedIsFiltered`).

*Accountability.* A failed request leaves no row that is not flagged; the limit
holds; what an attempt row says is true; an apply that says nothing was applied
left no trace.

*Recovery.* Whatever is in force on an appliance without having been observed is
under an armed timer with a proven backup; what was undone is undone on every
surface and at the next boot; drift passes end at what the rows say, for the
VM firewalls, the Gateway, and the Access LXC.

*Progress.* Requests are answered, reservations of dead processes go, expired
VMs go however often they are renewed, departed accounts go unless a VM that
cannot be deleted or a group nobody releases holds them back for ever
(`HeldBack`), users get in unless the two halves of their secret have come apart
(`LockedOut`); a secret that opens its account is lost by no tab, failure or
crash (`OpeningSecretStays`).

## 5. Proofs

No theorem bounds anything. The assumptions are the named ASSUMEs:
`LedgerAssumption` (the pool are natural numbers, NULL is no VLAN and no id, the
instances are finite), `ProvisioningAssumption`, `VnetAssumption`,
`TrunkAssumption`, `AccessAssumption`, `ApplianceAssumption`,
`PolicyAssumption`, `FirewallAssumption`, `SessionAssumption` and
`AccountAssumption` (the typing of their constants, the values that stand for
nothing apart from the others, at least one VLAN, appliers that are no dry-runs,
finitely many peers, and of secrets enough that a random one is nobody's: what
`randomBytes` is relied on for). Three theorems have a premise beside the
specification, `TornOnce` of VnetApply, without which `MCTwiceTorn` refutes them.
The exceptions of the others (`~stacked`, `script.botched`, `calm`) stand in the
properties themselves. Every invariant below was run through TLC before it was
proved.

**Provisioning_proofs, the ledger.** `TableInv` joins type correctness,
`VlanExclusive` and `AllocationMatchesState`. It is inductive, one lemma per way
a statement changes a table: `AllocationMatchesState` is needed because a claim
takes the row out of the states that hold nothing. The quota
(`QuotaIsNeverExceeded`) is a separate invariant over cardinalities of finite
sets. `LedgerImplementsLease` maps every statement to a lease step or a stutter:
a claim is `Grant`, marking is `Retire`, recovery and promotion `Revive`; a
DELETE of a `deleting` row begins as `BeginReturn` and ends as `Return`, with
whoever moved in turned out, or as `Lapse` if the row was revived or is gone.

**Provisioning_proofs, provisioning.**

1. `StepsLedger`: every step is a ledger statement or leaves the tables alone,
   which gives the ledger's theorems to the whole system
   (`ProvisioningImplementsLedger`, `ProvisioningKeepsQuota`,
   `ProvisioningImplementsLease`).
2. `IsolationInv`: `AttachedVlanIsHeld` alone is not inductive. That the VLAN a
   handler writes is still its group's rests on its reservation having been made
   for the very group the VLAN was read from (`HandlersKnowTheirVlan`), on group
   ids never coming back (`GroupsComeFromRequests`), and on the handler having
   neither row nor wired VM before it reserves. A DELETE may take the group from
   under the reservation, and what bounds that is the network plan, which is made
   after the reservation: it refuses a group that is gone or `deleting`, and once
   it was made the group is settled (`PlannedGroupsAreSettled`), in no state a
   waiting DELETE asks for and, with an instance in it, not brought into one. A
   bridge is written only after that (`ConfiguredIsReady`). Most actions are
   *quiet*: they move no row's owner, group or VLAN and wire nothing; one lemma
   covers them, and network plan, claim, upsert, reservation and configuration get
   one each. From it follow
   `AttachmentsAreCurrent`, `AttachedVlansAreHeld` and
   `NeighboursShareOwnerAndProfile`, crashes included.
3. `FailureIsHandled`: a row is flagged before compensation starts, and nothing
   unflags it, hence `FailuresAreAccountedFor`.

**VnetApply_proofs.** `LockInv` ties the lock to where each process is: it holds
the lock exactly from the observation to the last undo, and its attempt row says
`running` only then, or after it died. A step of a process is one of four moves
(it stays outside, enters, stays inside, leaves), and one lemma per move shows
that the others' part of the invariant survives. From it follow
`OneAppliesAtATime` and `AttemptsHold`: that an attempt can be called abandoned
by whoever enters rests on nobody alive being inside.

What an apply leaves behind needs `VnetInv`, and the lock with it. The plan of
whoever is inside names what was not as desired, and nothing of that is a VNet
somebody was told is ready (`PlanInv` in `WorkOf`), so that neither a mutation
nor its undoing can touch a ready one. A slot counts in it only while the group
the revision named still holds it: that no revision is from the future
(`EpochInv`) is what keeps an old plan from naming a new group. Teardowns take
no lock; `TornInv` says that they work on groups that are deleting, and a step
of a teardown is harmless to a new holder of the slot because the deletion of
the record comes after that of the VNet. With two teardowns of one group the
slower one's is not, hence the premise `TornOnce`, without which `MCTwiceTorn`
refutes `ReadyVnetStays`. Under it `ReadyStays`, `FailuresLeaveNoTrace` and
`SuccessConverges` hold.

**AccessTrunk_proofs.** `MigrationHolds` needs that what an apply asks for is
settled before its forced command starts (`PlanInv`) and that no snapshot lacks
the migration VLAN (`SnapshotInv`), since every rollback writes a snapshot back,
also the one of an apply long given up, whole or cut short. `HalvesHold` needs to
know what is between the halves while a timer is armed: `InForce` (what an apply
or a failing restore got done lies between the snapshot and the goal, and a
restore run again still ends at the snapshot), and what is without one
(`TimerInv`: they agree if the restore was `Sound`). `WorkInv` says that the
command at work is alone and has its own timer, `RecordInv` and `UnrecordedInv`
whose the record can be that a late rollback or commit finds. `CompensationHolds`
needs all of it and who it is that will be undone: at most one apply holds the
lock, and none waits while another is at work or committed (`TurnInv`), so the
list `net1` comes back to, by itself or by the timer, is the one the waiting apply
found, or a run of the script has failed (`UndoInv`).

**AccessApply_proofs.** What the backend waits for is what the guest is doing
(`PairInv`). `StagedInv` says what an answered stage has put in force, surface
by surface, up to the commit; it needs no exception for stacked stages, since
everything the backend judges it judges live, and gives `ProofsAreCurrent`
together with `CurrentInv` (the bridges it saw were Docker's at some time after
the stage). `BootsAsItRuns` speaks of moments without a transaction; between
them `SafeInv` says that what a restart would change is under a timer whose
script changes it back. The script is not a restore: it copies or removes, unit
by unit, so the invariant must say that it takes away the links of the units it
takes away and that no other link is without a unit (`Undoable`). For
`UndoneHolds` script and backup are those of what this stage found (`Matches`),
nothing is on the guest that is neither of that nor of the plan (`Within`), and
the script run twice, by the rollback and by the timer, is as good as once.

**ApplianceApply_proofs.** `UnprovenIsGuarded` says nothing of the moment before
the timer is armed or after it is cancelled. `GuardInv` does: an apply about to
arm has a backup and no timer beside it, one that writes has a copying script,
one that commits was observed with its own files. `AloneInv` says who may be at
work beside it, which is where `stacked` comes in. For `RollbackHolds` the
backup must be what this apply found (`BackupInv`), although other applies write
it too: the backend waits for one apply at a time, and none but its own process
is at work on the guest once it has its backup (`TurnInv`). `AllowlistIsInForce`
holds between applies because during one `SquidInv` does: Squid runs with the
file's allowlist, or is as the stage found it and about to be reloaded or
restarted as that stage foresaw, or a timer can undo both. A reload keeps
tunnels, and the restart that cuts them is decided by the labs that stay; that a
lab which goes has none left is `WantedInv`: tunnels are of labs the latest plan
wants.

**NetworkPolicy_proofs.** An accepted VM is served because its create applied
both documents, and is still served because every later document is read from
rows that still have its group. Between the two statements of the read and the
apply the rows go on changing, so the invariant has three layers: a group that
somebody counts on is operational (`PlanInv`), whatever the holder of the lock
has read so far serves every group its appliance has to serve (`DocInv`), and so
does what is in force (`LiveInv`). They meet in `Secured`, which says from when
on a create counts: the appliance it has behind it, not yet the one before it.
That a VLAN serves its group *alone* rests on `Allocated`; `PeersAlone` on the
order of the forward chain (`ChainOrder`) and on every edge in a document or in
force being between groups that were approved at some time.

**Provisioning_proofs, the firewall of a VM.** `OnlyGrantedSources` is about
rules that two writers put in and take out by position, each from what it read
before the other's calls. `GrantedInv` follows everything a rule can come from:
the rules themselves, the policies read and the calls planned admit only what
was ever granted, and what was granted only grows. Taking out the wrong rule
cannot add one. For `AcceptedIsFiltered`, `HandedInv` says where the create is:
it is under way until the VM is handed over, its row marked or gone, and it
hands over only what it saw enabled.

**RemoteSession_proofs.** `SessionInv` joins the types and `Known`, which says
what a request may rely on across its awaits: an identifier it has read from a
cache, however old the listing, names a connection of its own instance. That
rests on `Kept`: identifiers keep their names and are not given out again, and a
connection that was deleted stays deleted. That no two live connections have one
name is Guacamole's refusal in `Post`, and a `Put` writes back the name the
identifier already had. `AnswersHold` needs no premise. Between the grant and
the login the account may be deleted and made anew by another request of the
user, the connection deleted, the backend restarted; `GrantInv` says that a
request about to log in has its grant if the account still has *its* secret: an
account loses a grant only with the connection, and one made anew has a secret
that no request holds. `OpeningSecretsStay` is an action property and
needs no invariant but `SessionInv`: with the two halves fitting and nobody of
the user's at renewing either (`Settled`), each step keeps the pair, or is
another user's, or is one a settled user's requests cannot be at. What makes it
hold is that a request reads the row before the account and drops the account
only on having found no secret.

**Accounts_proofs.** `RowsHaveOwners` is not inductive: the row's own key to its
user is set to null with the user. `OwnerInv` adds why that never happens: every
row's owner has a group, and the group's key to the user restricts.
`DeletionSucceeds` is about a deletion that stays calm: nothing else of the
user's is under way (`Alone`). `CalmInv` follows it through its steps: the
attempts were handed on first and nobody makes another, every row there is lies
still ahead, and the group is gone, or a row is left whose removal releases it,
or its release is what the deletion is at (`GroupOf`).

**Model-checked only.** All liveness (fairness and leads-to are outside the
prover's reach); the refinements are proved for safety. Every safety property
of a run is stated by a theorem.

## 6. Known deviations

Where the code does something else than a comment or document of the repository
says, a configuration shows the trace. None of these is among the runs above,
which describe what does hold; TLC finds each property violated.

| Configuration (module) | Property | Said | What happens |
|---|---|---|---|
| `MCUnderReservation` (MCGroupLedger) | `NoInstanceLosesItsGroup` | `groups.ts:473` "the instance check catches a VM attached during it" | the DELETE's `NOT EXISTS` is evaluated in its snapshot; a reservation committed while it waits loses its group by ON DELETE SET NULL, and the VLAN is free while its request goes on (with network mode active it fails at its network plan) |
| `MCLeftover` (MCProvisioning) | `LeftoverIsReclaimed` | `instances.controller.ts:437` "whatever this misses the expiry sweeper reclaims" | the VM of a failed create that cannot be deleted loses its row all the same; the sweeper works from rows, so the VM stays for ever |
| `MCAbandonedRow` (MCProvisioning) | `AbandonedRowDescribesNothing` | `instances.controller.ts:641` "a crash between the two leaves one that describes nothing" | VMIDs are chosen by asking Proxmox only; the VMID of the abandoned row goes to the next create, and the sweeper destroys that VM |
| `MCReadyNetwork` (MCProvisioning) | `ConfiguredOnReadyNetwork` | `instances.controller.ts:281` "no VM is ever configured onto or started on a network that is not ready" | a teardown that passed its guard before the reservation deletes the VNet, outside the lock, after the network work reported it ready |
| `MCWiring` (MCProvisioning) | `WiredByItsOwner` | `docs/content/architecture/lab-network.md:158` "never two students reaching each other" | a VM deleted while being created frees its VMID; the first handler then writes the first student's bridge onto the VM cloned into it |
| `MCStacked` (MCApplianceApply) | `AbandonedApplyIsUndone` | `gateway-apply.ts:199` "not committing is itself the recovery" | a stage that failed between arming and writing `transaction.json` is invisible to the next one, which backs up half-applied files; the first one's timer restores those |
| `MCPermanent` (MCApplianceApply) | `SuccessIsPermanent` | `apply_gateway.py:801` "Makes a staged transaction permanent" | a timer that elapses between the commit's verification and its cancellation restores the old policy, and the apply is recorded as succeeded |
| `MCTwiceTorn` (MCVnetApply) | `ReadyVnetStays` | `provisioning-vnet.ts:124` "Makes an allocated group's SDN VNet exist in Proxmox before a VM attaches to it" | of two releases of one group the slower deletes the VNet after the faster released the VLAN and the next group made it again |
| `MCStaged` (MCVnetApply) | `ReadyVnetIsLive` | `provisioning-vnet.ts:127` "this converges drift from earlier failures" | an apply that dies between creating a VNet and the SDN apply leaves an edited configuration that the next one takes as converged |
| `MCRevocation` (MCNetworkPolicy) | `RevocationHolds` | `network.route.ts:270` "removals cannot [wait]" | the revocation's pass finds nothing to repair while an apply that read the pair is under way, and reports that it ran |
| `MCHalfWritten` (MCVmFirewall) | `HalfWrittenIsInert` | `vm-firewall-apply.ts:151` "a half-written ruleset filters nothing rather than filtering wrongly" | a repair rewrites a firewall that is enabled; half way it admits what neither policy does |
| `MCSecretRotation` (MCRemoteSession) | `StoredSecretOpens` | `instances.route.ts:108` "Both present and consistent" | two first sessions of one user store the secrets in another order than they made the accounts; every later login is refused |
| `MCOrphan` (MCRemoteSession) | `NeitherIsOrphaned` | `instances.controller.ts:545` "remove both so neither is orphaned" | a session that makes the connection beside the deletion of its instance leaves one |
| `MCStuckAccount` (MCAccounts) | `DeletionSucceedsAtLast` | `users.controller.ts:140` "Ordered so the DELETE can actually succeed" | releases run only for groups of existing instances: a student whose group is left without one (in error, or `deleting` after a failed teardown) cannot be deleted, however often it is asked |
| `MCAbandoning` (MCAccessApply) | `AbandoningIsRecovery` | `access-apply.ts:6` "every failure path is safe to abandon: not committing is itself the recovery" | a stage that raised leaves its timer and no transaction; the next one backs up what the first half installed, the timer restores that, and a link whose unit is in no backup fails every later proof |
| `MCRestore` (MCAccessApply) | `RestoreIsARestore` | `apply_access.py:407` "so a rollback to "absent" really is absent" | where the include was missing and the table therefore not in force, the rollback loads the managed file that was lying there |

Two more, without a configuration of their own: `PlanFits` makes every claim
fail while enough rows that a refused attach left in `planned` stand in the
table, although VLANs are free; and `policy.ts` says of peerings and domains
"Both are edited here and nowhere else", while `lab-profiles.controller.ts`
replaces the domains of a profile without a pass (`EditProfile`).

The safety properties of `provisioning` hold despite these: they speak of the
VLAN the *row* of a VM's configuring request is entitled to, and the code never
breaks that. `UnprovenIsGuarded`, `UnprovenGoes`, `BootsAsItRuns` and
`UndoneIsUndone` except what happens after a stage on top of an unfinished one,
which is the defect `MCStacked` shows; `HalvesAgree` and `CompensatedIsOnItsWayOut`
what happens after an apply that began before the last one was over (its timer
armed, its command at work, or the backend still to commit it or roll it back).
They also except a restore one of whose commands failed: `access-trunk-apply.ts`
says of a failing apply that the timer is the recovery, and a timer whose `pct
set` fails has recovered nothing and is gone.

## 7. Not modelled, and why

- *Database.* It is up, and a statement is atomic but for the two DELETEs of
  groups in GroupLedger and Provisioning. Accounts (`DeleteRecord`),
  NetworkPolicy (`DeleteRecord`) and VnetApply (`Release`) take the deletion of a
  group as one step: what they show of a create beside a release does not reach
  into the snapshot race, which Provisioning shows to end in a failing request.
  In particular an instance that lost its group so no longer keeps its owner's
  row, and `RowsHaveOwners` says nothing of it.
- *Create and removal.* Storage capacity, the text of `last_error`, listings.
- *VnetApply.* Fields of a VNet are one value, right or wrong. The appliance
  steps that follow are closed.
- *ApplianceApply.* A reboot of the Gateway, failure in the middle of writing the
  files (the script undoes it as a whole). The script is one step. The timer
  does not elapse while files are being written: it is never shorter than a
  minute. Of overlapping stages `AllowlistIsInForce` says nothing: what Squid
  loaded can then be older than the files although the digests agree.
- *AccessApply.* The sysctl file and the unit of the trunk's parent, the same in
  every policy; the mode is taken as active.
- *AccessTrunk.* The timer does not elapse while the apply that armed it works,
  and the script does not run twice at once: it is one step, with its failures.
- *NetworkPolicy.* The Gateway's runtime settings from `metadata`;
  `allow_same_group`, which VmFirewall has.
- *VmFirewall.* Egress rules; a failing `markQuarantined`; the firewall pass that
  is skipped because an earlier repair of the same sweep met the lock. A VM left
  half written by a crash waits for the next timed pass.
- *RemoteSession.* Tokens of Guacamole itself; the recordings and file-transfer
  parameters of a connection.
- *Accounts.* Tokens do not expire (they are used until the next login or until
  the user retires); `POST /auth/users` and the first login are one step; the
  deletion of the Guacamole account is logged and passed over; the sweep of
  abandoned reservations is Provisioning's; a student has one lab profile.
- *Templates and lab profiles* are row-at-a-time writes guarded by foreign keys;
  what their edits do to running machines is in NetworkPolicy, VmFirewall and
  RemoteSession.
- *Readiness report, observations page, metrics gauges, parsers of command
  output, SAML, cookies, frontend, deployment, images:* pure text or I/O, or
  state of one request.

## 8. Plan

Done: all modules above, their runs, and the proofs of all of them (VlanLease is
what GroupLedger is proved to implement).

Next, in this order:

1. **The snapshot race in the other modules** - the two-step DELETE of
   GroupLedger in Accounts and VnetApply, and the rest of what a failing
   rollback script can leave, as AccessTrunk has it, in ApplianceApply and
   AccessApply.
2. **Pure functions** - VLAN to subnet, gateway, MTU (address plan).
