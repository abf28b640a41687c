------------------------------- MODULE VnetApply -------------------------------
(***************************************************************************)
(* Applying the SDN VNets of the operational groups, under the             *)
(* reconciliation lock, and what runs beside it without the lock.          *)
(*                                                                         *)
(*   appliers   ensureNetworkGroupVnet over InfrastructureApplyRunner: plan *)
(*              the whole desired state, mutate, one SDN apply, verify, or *)
(*              compensate                                                 *)
(*   inspectors the dry-run, which takes the same lock and changes nothing *)
(*   teardowns  deleteVnet of releaseNetworkGroup, outside the lock        *)
(*                                                                         *)
(* A slot is a VLAN with the VNet named after it.  Successive groups may   *)
(* hold one slot: epoch tells them apart, as group ids do in the revision. *)
(* A VNet's configuration is absent, the desired one, or some other one.   *)
(* Proxmox keeps the configuration that is edited (staged) and the one on  *)
(* the hosts (live), replaced by the first when the SDN apply runs.        *)
(***************************************************************************)
EXTENDS Integers, FiniteSets

CONSTANTS
    Slot, Applier, Inspector, Teardown,
    GoalOf,             \* [Applier -> Slot]: the group a create waits for
    NoOne,
    LeftBehind,         \* [Slot -> Config]: what earlier applies or hands left
    RevisionTries,      \* VNET_APPLY_REVISION_ATTEMPTS
    LockWaits,          \* retries before lockWaiter's deadline
    MaxEpoch, MaxCrashes

Process == Applier \cup Inspector

ASSUME VnetAssumption ==
    /\ GoalOf \in [Applier -> Slot]
    /\ LeftBehind \in [Slot -> {"absent", "desired", "other"}]
    /\ Slot # {}
    /\ Applier \cap Inspector = {} /\ NoOne \notin Process
    /\ RevisionTries \in Nat \ {0} /\ LockWaits \in Nat
    /\ MaxEpoch \in Nat \ {0} /\ MaxCrashes \in Nat

VARIABLES
    ledger,     \* [Slot -> the state of the group that holds it]
    epoch,      \* [Slot -> which group that is]
    staged,     \* [Slot -> the VNet's configuration as edited]
    live,       \* [Slot -> the VNet's configuration on the hosts]
    lock,       \* who holds the reconciliation lock
    attempts,   \* [Process -> the row it wrote into the attempt table]
    procs,      \* [Process -> where it is]
    teardowns,  \* [Teardown -> where it is]
    ready,      \* ghost: groups whose VNet a create was told is there
    crashes

vars == <<ledger, epoch, staged, live, lock, attempts, procs, teardowns, ready, crashes>>

-----------------------------------------------------------------------------
Config == {"absent", "desired", "other"}
Snapshot == [Slot -> Config]
Revision == [Slot -> 0..MaxEpoch]
Attempt == [status : {"none", "running", "succeeded", "failed", "abandoned"},
            phase : {"none", "planning", "planned", "applying", "verifying", "compensating",
                     "applied", "apply-failed", "compensated", "compensation-failed", "abandoned"}]
Ended == {"ok", "failed", "dead"}
Step == {"idle", "read", "lock", "observe", "snapshot", "mutate", "apply", "verify",
         "undo", "undoApply"} \cup Ended

ProcState ==
    [pc : Step, group : 0..MaxEpoch, expected : Revision, planned : SUBSET Slot, started : SUBSET Slot,
     undo : SUBSET Slot, found : Snapshot, before : Snapshot,
     changed : BOOLEAN, tries : 1..RevisionTries, waits : 0..LockWaits]

TypeOK ==
    /\ ledger \in [Slot -> {"free", "operational", "deleting"}]
    /\ epoch \in [Slot -> 0..MaxEpoch]
    /\ staged \in Snapshot /\ live \in Snapshot
    /\ lock \in Process \cup {NoOne}
    /\ attempts \in [Process -> Attempt]
    /\ procs \in [Process -> ProcState]
    /\ teardowns \in [Teardown -> [pc : {"idle", "look", "delete", "apply", "check", "release"},
                                   slot : Slot, epoch : 0..MaxEpoch]]
    /\ ready \subseteq Slot
    /\ crashes \in 0..MaxCrashes

\* The revision is a hash over the operational groups.
DesiredRevision == [s \in Slot |-> IF ledger[s] = "operational" THEN epoch[s] ELSE 0]
Targets(revision) == {s \in Slot : revision[s] # 0}

NoAttempt == [status |-> "none", phase |-> "none"]
Absent == [s \in Slot |-> "absent"]

NewProc ==
    [pc |-> "idle", group |-> 0, expected |-> [s \in Slot |-> 0], planned |-> {}, started |-> {}, undo |-> {},
     found |-> Absent, before |-> Absent, changed |-> FALSE,
     tries |-> RevisionTries, waits |-> LockWaits]

Init ==
    /\ ledger = [s \in Slot |-> "free"]
    /\ epoch = [s \in Slot |-> 0]
    /\ staged = LeftBehind /\ live = LeftBehind
    /\ lock = NoOne
    /\ attempts = [p \in Process |-> NoAttempt]
    /\ procs = [p \in Process |-> NewProc]
    /\ teardowns = [t \in Teardown |-> [pc |-> "idle", slot |-> CHOOSE s \in Slot : TRUE, epoch |-> 0]]
    /\ ready = {}
    /\ crashes = 0

At(p, step) == procs[p].pc = step
Goto(p, step) == procs' = [procs EXCEPT ![p].pc = step]
Answer(p, answer) == procs' = [procs EXCEPT ![p] = [NewProc EXCEPT !.pc = answer]]

OnLedger == UNCHANGED <<ledger, epoch>>
OnProxmox == UNCHANGED <<staged, live>>
Aside == UNCHANGED <<teardowns, crashes>>

\* checkpoint and finish match a row that is still running, and raise otherwise.
Running(p) == attempts[p].status = "running"
Checkpoint(p, phase) == Running(p) /\ attempts' = [attempts EXCEPT ![p].phase = phase]
Create(rows, p, phase) == [rows EXCEPT ![p] = [status |-> "running", phase |-> phase]]
Record(p, status, phase) ==
    Running(p) /\ attempts' = [attempts EXCEPT ![p] = [status |-> status, phase |-> phase]]

-----------------------------------------------------------------------------
\* withReconciliationLock: a try-lock on the session, given back whatever the
\* callback does.

Unlock(p) == lock' = IF lock = p THEN NoOne ELSE lock

\* The next holder finds the attempts of processes that died and ends them.
AbandonRunning ==
    [p \in Process |-> IF attempts[p].status = "running"
                       THEN [status |-> "abandoned", phase |-> "abandoned"] ELSE attempts[p]]

\* Mutant: an error raised under the lock leaves without the finally.
GiveUpHolding(p) == Answer(p, "failed") /\ UNCHANGED <<lock, attempts, ready>>

GiveUp(p) == Answer(p, "failed") /\ Unlock(p) /\ UNCHANGED <<attempts, ready>>

EndAttempt(p, answer, status, phase) ==
    Record(p, status, phase) /\ Answer(p, answer) /\ Unlock(p)

Succeed(p) ==
    /\ EndAttempt(p, "ok", "succeeded", "applied")
    /\ ready' = ready \cup {s \in {GoalOf[p]} : DesiredRevision[s] = procs[p].group}

-----------------------------------------------------------------------------
\* ensureNetworkGroupVnet: a create that holds a place in the group asks for its
\* VNet.  The plan is read outside the lock, for its revision.

Reading(p) == (At(p, "idle") /\ ledger[GoalOf[p]] # "free") \/ At(p, "read")

ReadPlan(p) ==
    /\ Reading(p)
    /\ IF ledger[GoalOf[p]] = "operational"
       THEN /\ procs' = [procs EXCEPT ![p].pc = "lock", ![p].expected = DesiredRevision,
                                      ![p].group = IF @ = 0 THEN epoch[GoalOf[p]] ELSE @]
            /\ UNCHANGED <<lock, attempts, ready>>
       ELSE GiveUp(p)
    /\ OnLedger /\ OnProxmox /\ Aside

\* Held by someone else: wait and read the plan again, until the deadline.
WaitForLock(p) ==
    /\ At(p, "lock") /\ lock # NoOne
    /\ IF procs[p].waits > 0
       THEN /\ procs' = [procs EXCEPT ![p].pc = "read", ![p].waits = @ - 1]
            /\ UNCHANGED <<lock, attempts, ready>>
       ELSE GiveUp(p)
    /\ OnLedger /\ OnProxmox /\ Aside

\* Under the lock the revision must be the one expected, or the try is spent.
LoseRevision(p) ==
    /\ At(p, "lock") /\ lock = NoOne
    /\ procs[p].expected # DesiredRevision
    /\ attempts' = AbandonRunning
    /\ IF procs[p].tries > 1
       THEN procs' = [procs EXCEPT ![p].pc = "read", ![p].tries = @ - 1]
       ELSE Answer(p, "failed")
    /\ OnLedger /\ OnProxmox /\ Aside /\ UNCHANGED <<lock, ready>>

\* Mutant: each create serialises on nothing.
TakeLockAnyway(p) ==
    /\ At(p, "lock")
    /\ procs[p].expected = DesiredRevision
    /\ lock' = p
    /\ Goto(p, "observe")
    /\ OnLedger /\ OnProxmox /\ Aside /\ UNCHANGED <<attempts, ready>>

TakeLock(p) ==
    /\ At(p, "lock") /\ lock = NoOne
    /\ procs[p].expected = DesiredRevision
    /\ attempts' = AbandonRunning
    /\ lock' = p
    /\ Goto(p, "observe")
    /\ OnLedger /\ OnProxmox /\ Aside /\ UNCHANGED ready

\* Mutant: a VNet that is there is taken for the right one.
WantedMissing(p) == {s \in Targets(procs[p].expected) : staged[s] = "absent"}

\* observeProxmoxVnets reads what is edited.
Observed == staged

\* planProxmoxVnets: an action per target that is missing or not as desired.
Wanted(p) == {s \in Targets(procs[p].expected) : Observed[s] # "desired"}

ObserveAndPlan(p) ==
    /\ At(p, "observe")
    /\ attempts' = Create(attempts, p, "planned")
    /\ procs' = [procs EXCEPT ![p].pc = "snapshot", ![p].planned = Wanted(p),
                              ![p].found = Observed]
    /\ OnLedger /\ OnProxmox /\ Aside /\ UNCHANGED <<lock, ready>>

\* The observation fails, or the zone is not there: a required check that no
\* action of the plan will fix.
NotReadable(p) ==
    At(p, "observe") /\ GiveUp(p) /\ OnLedger /\ OnProxmox /\ Aside

Planned(p, kind) == {s \in procs[p].planned : (procs[p].found[s] = "absent") = (kind = "create")}

\* snapshotVnets: no create over a VNet that is there, no update of one that is not.
StalePlan(p) ==
    \/ \E s \in Planned(p, "create") : staged[s] # "absent"
    \/ \E s \in Planned(p, "update") : staged[s] = "absent"

TakeSnapshot(p) ==
    /\ At(p, "snapshot")
    /\ IF StalePlan(p)
       THEN EndAttempt(p, "failed", "failed", "apply-failed") /\ UNCHANGED ready
       ELSE IF procs[p].planned = {}
            THEN Succeed(p)
            ELSE /\ procs' = [procs EXCEPT ![p].pc = "mutate", ![p].before = staged]
                 /\ UNCHANGED <<lock, attempts, ready>>
    /\ OnLedger /\ OnProxmox /\ Aside

\* createSdnVnet or updateSdnVnet, checkpointed and counted as started before
\* the call.  The call may fail, before or after it took effect.
Mutated(s, kind) == [staged EXCEPT ![s] = IF (@ = "absent") = (kind = "create") THEN "desired" ELSE @]

\* Mutant: a mutation counts as started once its call has returned.
ToUndoReturned(p, s) == procs[p].started

ToUndo(p, s) == procs[p].started \cup {s}

Mutate(p) ==
    /\ At(p, "mutate")
    /\ Checkpoint(p, "applying")
    /\ \E kind \in {"create", "update"} : \E s \in Planned(p, kind) \ procs[p].started :
        LET started == procs[p].started \cup {s}
            onTheWay == [procs EXCEPT ![p].started = started]
        IN \/ /\ staged' = Mutated(s, kind) /\ staged'[s] = "desired"
              /\ procs' = [onTheWay EXCEPT ![p].pc = IF started = procs[p].planned THEN "apply" ELSE "mutate"]
           \/ /\ staged' \in {staged, Mutated(s, kind)}
              /\ procs' = [procs EXCEPT ![p].pc = "undo", ![p].started = ToUndo(p, s),
                                         ![p].undo = ToUndo(p, s)]
    /\ OnLedger /\ UNCHANGED <<live, lock, ready>> /\ Aside

SdnApply == live' = staged

\* One SDN apply for the batch: everything staged goes to the hosts.
ApplySdn(p) ==
    /\ At(p, "apply")
    /\ \/ SdnApply /\ Goto(p, "verify")
       \/ /\ (SdnApply \/ UNCHANGED live)
          /\ procs' = [procs EXCEPT ![p].pc = "undo", ![p].undo = procs[p].started]
    /\ OnLedger /\ Aside /\ UNCHANGED <<staged, lock, attempts, ready>>

\* The polls of the convergence check; the last one may fail, or not be answered.
Converged(p) == \A s \in procs[p].planned : staged[s] = "desired"

Verify(p) ==
    /\ At(p, "verify")
    /\ \/ /\ Converged(p)
          /\ Succeed(p)
       \/ /\ Checkpoint(p, "verifying")
          /\ procs' = [procs EXCEPT ![p].pc = "undo", ![p].undo = procs[p].started]
          /\ UNCHANGED <<lock, ready>>
    /\ OnLedger /\ OnProxmox /\ Aside

\* compensateVnets, one mutation: put back what is still as this apply left it,
\* skip what is as it was, refuse the rest.
AsBefore(p, s) == staged[s] = procs[p].before[s]

Compensate(p) ==
    /\ At(p, "undo") /\ procs[p].undo # {}
    /\ \E s \in procs[p].undo :
        \/ /\ AsBefore(p, s) \/ staged[s] = "desired"
           /\ staged' = [staged EXCEPT ![s] = procs[p].before[s]]
           /\ procs' = [procs EXCEPT ![p].undo = @ \ {s}, ![p].changed = @ \/ ~AsBefore(p, s),
                            ![p].pc = IF procs[p].undo = {s} THEN "undoApply" ELSE "undo"]
           /\ Checkpoint(p, "compensating")
           /\ UNCHANGED <<lock, ready>>
        \/ /\ staged' \in {staged, [staged EXCEPT ![s] = IF @ = "desired" THEN procs[p].before[s] ELSE @]}
           /\ EndAttempt(p, "failed", "failed", "compensation-failed") /\ UNCHANGED ready
    /\ OnLedger /\ UNCHANGED live /\ Aside

\* An SDN apply if anything was put back, then the check that the state is restored.
Restored(p) == \A s \in procs[p].started : AsBefore(p, s)

FinishCompensation(p) ==
    /\ At(p, "undoApply")
    /\ \/ /\ IF procs[p].changed THEN SdnApply ELSE UNCHANGED live
          /\ Restored(p)
          /\ EndAttempt(p, "failed", "failed", "compensated")
       \/ /\ (procs[p].changed /\ SdnApply) \/ UNCHANGED live
          /\ EndAttempt(p, "failed", "failed", "compensation-failed")
    /\ OnLedger /\ Aside /\ UNCHANGED <<staged, ready>>

ApplierStep(p) ==
    \/ ReadPlan(p) \/ WaitForLock(p) \/ LoseRevision(p) \/ TakeLock(p)
    \/ NotReadable(p) \/ ObserveAndPlan(p) \/ TakeSnapshot(p)
    \/ Mutate(p) \/ ApplySdn(p) \/ Verify(p) \/ Compensate(p) \/ FinishCompensation(p)

-----------------------------------------------------------------------------
\* InfrastructureReconciler.dryRun: one attempt, observations settled whatever
\* fails, nothing written to Proxmox; refused while the lock is held.

DryRunRefused(i) ==
    /\ At(i, "idle") /\ lock # NoOne
    /\ Answer(i, "failed")
    /\ OnLedger /\ OnProxmox /\ Aside /\ UNCHANGED <<lock, attempts, ready>>

BeginDryRun(i) ==
    /\ At(i, "idle") /\ lock = NoOne
    /\ lock' = i /\ Goto(i, "observe")
    /\ attempts' = Create(AbandonRunning, i, "planning")
    /\ OnLedger /\ OnProxmox /\ Aside /\ UNCHANGED ready

\* An observation that fails is one of the checks.
EndDryRun(i) ==
    /\ At(i, "observe")
    /\ EndAttempt(i, "ok", "succeeded", "planned")
    /\ OnLedger /\ OnProxmox /\ Aside /\ UNCHANGED ready

-----------------------------------------------------------------------------
\* A process dies: its session's lock goes, its attempt stays running.
Crash(p) ==
    /\ crashes < MaxCrashes /\ procs[p].pc \notin {"idle"} \cup Ended
    /\ Answer(p, "dead") /\ Unlock(p)
    /\ crashes' = crashes + 1
    /\ OnLedger /\ OnProxmox /\ UNCHANGED <<attempts, teardowns, ready>>

-----------------------------------------------------------------------------
\* The ledger, and the teardown that runs outside the lock.

Claim(s) ==
    /\ ledger[s] = "free" /\ epoch[s] < MaxEpoch
    /\ ledger' = [ledger EXCEPT ![s] = "operational"]
    /\ epoch' = [epoch EXCEPT ![s] = @ + 1]
    /\ OnProxmox /\ Aside /\ UNCHANGED <<lock, attempts, procs, ready>>

TeardownOnly == UNCHANGED <<lock, attempts, procs, crashes>>
TeardownGoto(t, step) == teardowns' = [teardowns EXCEPT ![t].pc = step]

\* markDeleting: no instance holds the group, so no create is relying on it.
MarkDeleting(t, s) ==
    /\ teardowns[t].pc = "idle" /\ ledger[s] \in {"operational", "deleting"}
    /\ \A p \in Applier : GoalOf[p] = s => procs[p].pc \in {"idle"} \cup Ended
    /\ ledger' = [ledger EXCEPT ![s] = "deleting"]
    /\ teardowns' = [teardowns EXCEPT ![t] = [pc |-> "look", slot |-> s, epoch |-> epoch[s]]]
    /\ ready' = ready \ {s}
    /\ UNCHANGED epoch /\ OnProxmox /\ TeardownOnly

LookForVnet(t) ==
    /\ teardowns[t].pc = "look"
    /\ TeardownGoto(t, IF staged[teardowns[t].slot] = "absent" THEN "check" ELSE "delete")
    /\ OnLedger /\ OnProxmox /\ TeardownOnly /\ UNCHANGED ready

Deleted(s) == [staged EXCEPT ![s] = "absent"]

DeleteVnet(t) ==
    /\ teardowns[t].pc = "delete"
    /\ \/ staged' = Deleted(teardowns[t].slot) /\ TeardownGoto(t, "apply")
       \/ UNCHANGED staged /\ TeardownGoto(t, "idle")
    /\ OnLedger /\ TeardownOnly /\ UNCHANGED <<live, ready>>

ApplyDeletion(t) ==
    /\ teardowns[t].pc = "apply"
    /\ \/ SdnApply /\ TeardownGoto(t, "check")
       \/ UNCHANGED live /\ TeardownGoto(t, "idle")
    /\ OnLedger /\ TeardownOnly /\ UNCHANGED <<staged, ready>>

CheckDeletion(t) ==
    /\ teardowns[t].pc = "check"
    /\ TeardownGoto(t, IF staged[teardowns[t].slot] = "absent" THEN "release" ELSE "idle")
    /\ OnLedger /\ OnProxmox /\ TeardownOnly /\ UNCHANGED ready

\* deleteRecord matches the group's own row, in deleting.
Release(t) ==
    LET s == teardowns[t].slot IN
    /\ teardowns[t].pc = "release"
    /\ ledger' = IF ledger[s] = "deleting" /\ epoch[s] = teardowns[t].epoch
                 THEN [ledger EXCEPT ![s] = "free"] ELSE ledger
    /\ TeardownGoto(t, "idle")
    /\ UNCHANGED epoch /\ OnProxmox /\ TeardownOnly /\ UNCHANGED ready

TeardownStep(t) ==
    \/ LookForVnet(t) \/ DeleteVnet(t) \/ ApplyDeletion(t) \/ CheckDeletion(t) \/ Release(t)

-----------------------------------------------------------------------------
Next ==
    \/ \E p \in Applier : ApplierStep(p)
    \/ \E i \in Inspector : DryRunRefused(i) \/ BeginDryRun(i) \/ EndDryRun(i)
    \/ \E p \in Process : Crash(p)
    \/ \E s \in Slot : Claim(s)
    \/ \E t \in Teardown, s \in Slot : MarkDeleting(t, s)
    \/ \E t \in Teardown : TeardownStep(t)

Spec == Init /\ [][Next]_vars

-----------------------------------------------------------------------------
\* Properties.

\* The attempt table names one attempt in progress at most beside those of dead
\* processes, its owner holds the lock, and the row is running for as long as its
\* owner is past the plan: nobody else ends it, and no way out leaves it behind.
AttemptsAreTrue ==
    \A p \in Process :
        /\ Running(p) => lock = p \/ At(p, "dead")
        /\ procs[p].pc \in Step \ ({"idle", "read", "lock", "observe"} \cup Ended) => Running(p)
        /\ procs[p].pc \in Ended => lock # p

\* Once ensureNetworkGroupVnet has answered a create, the group's VNet stays as
\* it should be until the group is given up: no later apply that fails and undoes
\* its work, and no teardown of another group, takes it away.
ReadyVnetStays == \A s \in ready : staged[s] = "desired"

\* An attempt that says nothing was applied, or that everything was put back,
\* leaves the VNet of every group of its revision as it found it, the call that
\* failed after taking effect included.
FailureLeavesNoTrace ==
    [][\A p \in Applier :
        (Running(p) /\ attempts'[p].phase \in {"apply-failed", "compensated"}) =>
            \A s \in Targets(procs[p].expected) :
                DesiredRevision[s] = procs[p].expected[s] => staged'[s] = procs[p].found[s]]_vars

\* An attempt that succeeded has converged every group of the revision it names
\* that is still there, those it did not have to touch included.
SuccessMeansConverged ==
    [][\A p \in Applier :
        (Running(p) /\ attempts'[p].phase = "applied") =>
            \A s \in Targets(procs[p].expected) :
                DesiredRevision[s] = procs[p].expected[s] => staged'[s] = "desired"]_vars

\* What a create was told is there is on the hosts too, not only edited.
ReadyVnetIsLive == \A s \in ready : live[s] = "desired"

=============================================================================
