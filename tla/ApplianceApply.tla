---------------------------- MODULE ApplianceApply ----------------------------
(***************************************************************************)
(* Applying a policy to an appliance (the Gateway VM, the Access LXC) with *)
(* a dead-man's switch: the guest stages the files under a rollback timer, *)
(* the backend observes through another principal, and only then commits.  *)
(*                                                                         *)
(*   backend   applyGatewayPolicy, one apply at a time under the           *)
(*             reconciliation lock                                         *)
(*   guest     one process per call of the applier; it goes on when the    *)
(*             SSH client in front of it was killed                        *)
(*   systemd   the timer that runs the rollback script                     *)
(*                                                                         *)
(* The managed files are one value, the revision they render; so is the    *)
(* ruleset in force.  The Gateway's Squid is apart: whether it is reloaded *)
(* or restarted decides which tunnels stay.  The script is one step.  A    *)
(* call that raises leaves no answer but an error.  The access applier     *)
(* differs only in what it installs and verifies.                          *)
(***************************************************************************)
EXTENDS FiniteSets

CONSTANTS
    Apply,      \* applies, each tried once
    Revision,   \* revisions a plan can have
    Base,       \* the one in force at first
    Absent,     \* no managed files at all
    Lab,        \* groups, by the VLAN that names their lines
    Domain,
    Serves,     \* [Revision -> the labs it has lines for]
    Web,        \* [Revision -> the lab and domain pairs Squid splices]
    NULL

ASSUME ApplianceAssumption ==
    /\ Base \in Revision
    /\ Serves \in [Revision -> SUBSET Lab]
    /\ Web \in [Revision -> SUBSET (Lab \X Domain)]
    /\ \A r \in Revision : \A t \in Web[r] : t[1] \in Serves[r]
    /\ Absent \notin Revision
    /\ NULL \notin Revision \cup {Absent} \cup Apply \cup {"copy", "remove"}

VARIABLES
    disk, live,     \* revision of the files, and of what runs
    backup,         \* BACKUP_DIR
    script,         \* how ROLLBACK_SCRIPT undoes: by copying or by removing
    txn,            \* TRANSACTION_FILE: whose stage it records
    timer,          \* the rollback timer is active
    squid,          \* revision of the configuration Squid runs with
    tunnels,        \* connections it has spliced
    wanted,         \* the latest revision planned
    ops,            \* the guest process serving each apply
    applies,        \* the backend's side
    proven,         \* ghost: revisions an observation found in force
    stacked         \* ghost: a stage began on top of an unfinished one

proxy == <<squid, tunnels>>
guest == <<disk, live, backup, script, txn, timer, proxy>>
vars == <<disk, live, backup, script, txn, timer, squid, tunnels, wanted, ops, applies,
          proven, stacked>>

-----------------------------------------------------------------------------
Installed == Revision \cup {Absent}

OpStep == {"stage", "arm", "install", "reload", "record",
           "commit", "cancel", "clean", "rollback", "disarm"}

\* What the backend makes of the guest's answer: converged under an armed timer,
\* or committed without one, or neither.
Answer == {"ok", "bad", "error"}

\* converged: what verify reported; reload, restart: what becomes of Squid;
\* before: ghost, what the stage found in force.
Op == [step : OpStep \cup Answer \cup {"none"}, converged : BOOLEAN,
       reload : BOOLEAN, restart : BOOLEAN, before : Installed \cup {NULL}]

Phase == {"stage", "observe", "digests", "commit", "rollback"}

\* matched: the ruleset just observed is the plan's.
ApplyState == [pc : Phase \cup {"idle", "succeeded", "failed", "undone"},
               rev : Revision \cup {NULL}, matched : BOOLEAN]

TypeOK ==
    /\ disk \in Installed /\ live \in Installed
    /\ backup \in Installed \cup {NULL}
    /\ script \in {NULL, "copy", "remove"}
    /\ txn \in Apply \cup {NULL}
    /\ timer \in BOOLEAN
    /\ squid \in Installed /\ tunnels \subseteq Lab \X Domain /\ wanted \in Revision
    /\ ops \in [Apply -> Op]
    /\ applies \in [Apply -> ApplyState]
    /\ proven \subseteq Revision
    /\ stacked \in BOOLEAN

Init ==
    /\ disk = Base /\ live = Base
    /\ backup = NULL /\ script = NULL
    /\ txn = NULL
    /\ timer = FALSE
    /\ squid = Base /\ tunnels = {} /\ wanted = Base
    /\ ops = [k \in Apply |-> [step |-> "none", converged |-> FALSE, reload |-> FALSE,
                               restart |-> FALSE, before |-> NULL]]
    /\ applies = [k \in Apply |-> [pc |-> "idle", rev |-> NULL, matched |-> FALSE]]
    /\ proven = {Base}
    /\ stacked = FALSE

-----------------------------------------------------------------------------
At(k, pc) == applies[k].pc = pc
Goto(k, pc) == applies' = [applies EXCEPT ![k].pc = pc]

OpAt(k, step) == ops[k].step = step
OpGoto(k, step) == ops' = [ops EXCEPT ![k].step = step]

Call(k, pc, step) == Goto(k, pc) /\ OpGoto(k, step)

OpRunning(k) == ops[k].step \in OpStep

LockFree == \A k \in Apply : applies[k].pc \notin Phase

GuestOnly == UNCHANGED <<applies, proven, wanted>>
BackendOnly == UNCHANGED <<guest, proven, wanted, stacked>>

-----------------------------------------------------------------------------
\* Squid.

Served(c) == IF c = Absent THEN {} ELSE Serves[c]
Spliced(c) == IF c = Absent THEN {} ELSE Web[c]
Domains(c, l) == {t[2] : t \in {u \in Spliced(c) : u[1] = l}}

\* squid.conf apart from the line that names the revision; a file that is not
\* there differs from every other.
Changed(old, new) ==
    old = Absent \/ <<Served(old), Spliced(old)>> # <<Served(new), Spliced(new)>>

\* Mutant: only a group that is gone has tunnels to lose.
RestartForTheGone(old, new) == \E l \in Served(old) : l \notin Served(new)

\* Some line goes that names a group which stays: the domains of a group are one
\* line, so a domain more is enough, but not the first.
NeedsSquidRestart(old, new) ==
    \E l \in Served(old) \cap Served(new) : Domains(old, l) \notin {{}, Domains(new, l)}

\* A restart closes every tunnel, a reload none.
SquidLoads(k) ==
    /\ squid' = IF ops[k].reload THEN disk ELSE squid
    /\ tunnels' = IF ops[k].restart THEN {} ELSE tunnels

\* A VM of a lab that is still wanted asks for a domain Squid allows it.
OpenTunnel ==
    /\ \E t \in Spliced(squid) :
        t[1] \in Serves[wanted] /\ tunnels' = tunnels \cup {t}
    /\ UNCHANGED <<disk, live, backup, script, txn, timer, squid, ops, stacked>> /\ GuestOnly

-----------------------------------------------------------------------------
\* Guest: stage.

\* The revision the ruleset in the kernel names, not the file's.
LiveRevision == live
Verified(revision) == LiveRevision = revision

\* The forced command cannot push the applier or reach the guest: nothing ran.
ForwardFails(k) ==
    /\ ops[k].step \in {"stage", "rollback"}
    /\ OpGoto(k, "error")
    /\ UNCHANGED <<guest, stacked>> /\ GuestOnly

\* A live timer with a transaction refuses; otherwise BACKUP_DIR starts over
\* with the files now in force.
StageBackup(k) ==
    /\ OpAt(k, "stage")
    /\ ~(txn # NULL /\ timer)
    /\ backup' = IF disk = Absent THEN NULL ELSE disk
    /\ ops' = [ops EXCEPT ![k].step = "arm", ![k].before = disk,
                          ![k].reload = Changed(disk, applies[k].rev),
                          ![k].restart = NeedsSquidRestart(disk, applies[k].rev)]
    /\ stacked' = (stacked \/ timer \/ \E h \in Apply \ {k} : OpRunning(h))
    /\ UNCHANGED <<disk, live, script, txn, timer, proxy>> /\ GuestOnly

StageRefused(k) ==
    /\ OpAt(k, "stage")
    /\ txn # NULL /\ timer
    /\ OpGoto(k, "error")
    /\ UNCHANGED <<guest, stacked>> /\ GuestOnly

\* A validator refuses the candidate files.
StageInvalid(k) ==
    /\ OpAt(k, "arm")
    /\ OpGoto(k, "error")
    /\ UNCHANGED <<guest, stacked>> /\ GuestOnly

\* The script is written, then systemd-run claims the unit name.
StageArm(k) ==
    /\ OpAt(k, "arm")
    /\ script' = IF backup = NULL THEN "remove" ELSE "copy"
    /\ timer' = TRUE
    /\ OpGoto(k, IF timer THEN "error" ELSE "install")
    /\ UNCHANGED <<disk, live, backup, txn, proxy, stacked>> /\ GuestOnly

StageInstall(k) ==
    /\ OpAt(k, "install")
    /\ disk' = applies[k].rev
    /\ OpGoto(k, "reload")
    /\ UNCHANGED <<live, backup, script, txn, timer, proxy, stacked>> /\ GuestOnly

\* reload_services, with whatever is on disk by now, and verify: services and the
\* revision the kernel names.
StageReload(k) ==
    /\ OpAt(k, "reload")
    /\ SquidLoads(k)
    /\ live' = disk
    /\ \E healthy \in BOOLEAN :
        ops' = [ops EXCEPT ![k].step = "record",
                           ![k].converged = healthy /\ LiveRevision' = applies[k].rev]
    /\ UNCHANGED <<disk, backup, script, txn, timer, stacked>> /\ GuestOnly

\* A command fails: before Squid's, at it or after it.
StageReloadRaises(k) ==
    /\ OpAt(k, "reload")
    /\ \/ UNCHANGED <<proxy, live>>
       \/ SquidLoads(k) /\ live' \in {live, disk}
    /\ OpGoto(k, "error")
    /\ UNCHANGED <<disk, backup, script, txn, timer, stacked>> /\ GuestOnly

\* transaction.json is written last, and the answer says how it went.
StageRecord(k) ==
    /\ OpAt(k, "record")
    /\ txn' = k
    /\ OpGoto(k, IF ops[k].converged /\ timer THEN "ok" ELSE "bad")
    /\ UNCHANGED <<disk, live, backup, script, timer, proxy, stacked>> /\ GuestOnly

-----------------------------------------------------------------------------
\* Guest: undoing.

\* Mutant: the restored files are not reloaded.
RestoreFilesOnly ==
    IF script = "copy" /\ backup = NULL
    THEN UNCHANGED <<disk, live, txn, proxy>>
    ELSE /\ disk' = IF script = "copy" THEN backup ELSE Absent
         /\ txn' = NULL
         /\ UNCHANGED <<live, proxy>>

\* ROLLBACK_SCRIPT: `set -e` stops at a copy whose source is gone.  Squid is
\* restarted, whatever changed.
Restore ==
    IF script = "copy" /\ backup = NULL
    THEN UNCHANGED <<disk, live, txn, proxy>>
    ELSE /\ disk' = IF script = "copy" THEN backup ELSE Absent
         /\ live' = disk'
         /\ squid' = disk' /\ tunnels' = {}
         /\ txn' = NULL

\* Mutant: the timer looks for a transaction to undo.
FireWhenRecorded ==
    /\ timer /\ txn # NULL
    /\ Restore
    /\ timer' = FALSE
    /\ UNCHANGED <<backup, script, ops, stacked>> /\ GuestOnly

\* The timer elapses.  MIN_ROLLBACK_SECONDS is a minute: not while the files
\* are still being written, but at any point of what follows.
Fire ==
    /\ timer
    /\ \A k \in Apply : ~OpAt(k, "install")
    /\ Restore
    /\ timer' = FALSE
    /\ UNCHANGED <<backup, script, ops, stacked>> /\ GuestOnly

RollbackRefused(k) ==
    /\ OpAt(k, "rollback")
    /\ txn # k \/ (script = "copy" /\ backup = NULL)
    /\ OpGoto(k, "error")
    /\ UNCHANGED <<guest, stacked>> /\ GuestOnly

Rollback(k) ==
    /\ OpAt(k, "rollback")
    /\ txn = k
    /\ ~(script = "copy" /\ backup = NULL)
    /\ Restore
    /\ OpGoto(k, "disarm")
    /\ UNCHANGED <<backup, script, timer, stacked>> /\ GuestOnly

\* cancel_rollback runs unchecked: the timer may survive it.
RollbackDisarm(k) ==
    /\ OpAt(k, "disarm")
    /\ timer' \in {FALSE, timer}
    /\ OpGoto(k, "ok")
    /\ UNCHANGED <<disk, live, backup, script, txn, proxy, stacked>> /\ GuestOnly

-----------------------------------------------------------------------------
\* Guest: commit.

\* The transaction is this one and verify agrees again.
CommitVerify(k) ==
    /\ OpAt(k, "commit")
    /\ txn = k /\ Verified(applies[k].rev)
    /\ OpGoto(k, "cancel")
    /\ UNCHANGED <<guest, stacked>> /\ GuestOnly

\* Another transaction or none, or a service failed meanwhile.
CommitRefused(k) ==
    /\ OpAt(k, "commit")
    /\ OpGoto(k, "error")
    /\ UNCHANGED <<guest, stacked>> /\ GuestOnly

CommitCancel(k) ==
    /\ OpAt(k, "cancel")
    /\ timer' \in {FALSE, timer}
    /\ OpGoto(k, "clean")
    /\ UNCHANGED <<disk, live, backup, script, txn, proxy, stacked>> /\ GuestOnly

CommitClean(k) ==
    /\ OpAt(k, "clean")
    /\ backup' = NULL /\ txn' = NULL
    /\ OpGoto(k, IF timer THEN "bad" ELSE "ok")
    /\ UNCHANGED <<disk, live, script, timer, proxy, stacked>> /\ GuestOnly

-----------------------------------------------------------------------------
\* Backend.

\* The runner has the lock, a plan and a guest whose blocking checks pass.  A lab
\* the plan leaves out has lost its last VM, and with it its tunnels.
Begin(k) ==
    /\ At(k, "idle") /\ LockFree
    /\ \E r \in Revision :
        /\ applies' = [applies EXCEPT ![k].pc = "stage", ![k].rev = r]
        /\ wanted' = r
        /\ tunnels' = {t \in tunnels : t[1] \in Serves[r]}
    /\ OpGoto(k, "stage")
    /\ UNCHANGED <<disk, live, backup, script, txn, timer, squid, proven, stacked>>

\* The plan is another by now, or a check fails that no apply repairs: the guest
\* is not called.
Refused(k) ==
    /\ At(k, "idle") /\ LockFree
    /\ Goto(k, "failed")
    /\ UNCHANGED ops /\ BackendOnly

\* Mutant: the applier's own report is proof enough.
StagedUnobserved(k) ==
    /\ At(k, "stage") /\ OpAt(k, "ok")
    /\ Call(k, "commit", "commit")
    /\ BackendOnly

\* The guest says it converged, under an armed timer.
Staged(k) ==
    /\ At(k, "stage") /\ OpAt(k, "ok")
    /\ Call(k, "observe", "none")
    /\ BackendOnly

\* It did not converge, or no timer is armed: abandon.
StagedBadly(k) ==
    /\ At(k, "stage") /\ OpAt(k, "bad")
    /\ Call(k, "rollback", "rollback")
    /\ BackendOnly

\* The observer runs beside the timer: the ruleset, then the files' digests.
ObserveRuleset(k) ==
    /\ At(k, "observe")
    /\ applies' = [applies EXCEPT ![k].pc = "digests",
                                  ![k].matched = Verified(applies[k].rev)]
    /\ UNCHANGED ops /\ BackendOnly

\* Both are the plan's.
ObserveFiles(k) ==
    /\ At(k, "digests")
    /\ applies[k].matched /\ disk = applies[k].rev
    /\ proven' = proven \cup {applies[k].rev}
    /\ Call(k, "commit", "commit")
    /\ UNCHANGED <<guest, wanted, stacked>>

\* One of the two is not.
DriftRemains(k) ==
    /\ At(k, "digests")
    /\ ~(applies[k].matched /\ disk = applies[k].rev)
    /\ Call(k, "rollback", "rollback")
    /\ BackendOnly

\* An address, a link, a route, a listener or a sysctl is not as planned.
OtherDrift(k) ==
    /\ At(k, "digests")
    /\ Call(k, "rollback", "rollback")
    /\ BackendOnly

\* The VM does not run, a reading fails, or the observer refuses.
Unobservable(k) ==
    /\ applies[k].pc \in {"observe", "digests"}
    /\ Call(k, "rollback", "rollback")
    /\ BackendOnly

Committed(k) ==
    /\ At(k, "commit") /\ OpAt(k, "ok")
    /\ Call(k, "succeeded", "none")
    /\ BackendOnly

\* abandon: error.rolledBack
Undone(k) ==
    /\ At(k, "rollback") /\ OpAt(k, "ok")
    /\ Call(k, "undone", "none")
    /\ BackendOnly

\* stage or commit raised, commit left the timer armed, or abandon could not
\* roll back: nothing more is done.
Failed(k) ==
    /\ \/ applies[k].pc \in {"stage", "commit", "rollback"} /\ OpAt(k, "error")
       \/ At(k, "commit") /\ OpAt(k, "bad")
    /\ Call(k, "failed", "none")
    /\ BackendOnly

\* The answer is lost or late, or the backend dies: the lock is free, and the
\* guest goes on.
GiveUp(k) ==
    /\ applies[k].pc \in Phase
    /\ Goto(k, "failed")
    /\ UNCHANGED ops /\ BackendOnly

-----------------------------------------------------------------------------
Stage(k) ==
    \/ ForwardFails(k) \/ StageBackup(k) \/ StageRefused(k) \/ StageInvalid(k)
    \/ StageArm(k) \/ StageInstall(k) \/ StageReload(k) \/ StageReloadRaises(k) \/ StageRecord(k)

Undo(k) == Rollback(k) \/ RollbackRefused(k) \/ RollbackDisarm(k)

Commit(k) == CommitVerify(k) \/ CommitRefused(k) \/ CommitCancel(k) \/ CommitClean(k)

GuestProcess(k) == Stage(k) \/ Undo(k) \/ Commit(k)

Backend(k) ==
    \/ Staged(k) \/ StagedBadly(k) \/ ObserveRuleset(k) \/ ObserveFiles(k)
    \/ DriftRemains(k) \/ OtherDrift(k) \/ Unobservable(k)
    \/ Committed(k) \/ Undone(k) \/ Failed(k) \/ GiveUp(k)

Next ==
    \/ \E k \in Apply : Begin(k) \/ Refused(k) \/ Backend(k) \/ GuestProcess(k)
    \/ Fire
    \/ OpenTunnel

Spec == Init /\ [][Next]_vars

\* Every command on the guest has a timeout, every call of the backend too, and
\* an armed timer elapses.
Fairness ==
    /\ \A k \in Apply : WF_vars(GuestProcess(k)) /\ WF_vars(Backend(k))
    /\ WF_vars(Fire)

FairSpec == Spec /\ Fairness

-----------------------------------------------------------------------------
\* Properties.

Unproven == ~({disk, live} \subseteq proven)

\* What no observation has found in force stays only under the dead-man's
\* switch: the timer is armed and the backup it restores is proven, whatever
\* answers are lost and wherever the backend dies.  Stages on top of unfinished
\* ones are excepted (AbandonedApplyIsUndone shows why).
UnprovenIsGuarded ==
    Unproven /\ ~stacked =>
        /\ timer /\ script = "copy"
        /\ backup \in proven

\* An apply reported as rolled back left the guest as its stage found it.
RollbackRestores ==
    [][\A k \in Apply : Undone(k) /\ ~stacked =>
            disk = ops[k].before /\ live = ops[k].before]_vars

\* While no timer is armed, Squid has the allowlist of the file on disk and no
\* tunnel is open that the file does not allow, whichever of reloads, restarts,
\* failures and restores came before: a revocation is not only written, it cuts.
AllowlistIsInForce ==
    ~timer /\ ~stacked =>
        Spliced(squid) = Spliced(disk) /\ tunnels \subseteq Spliced(disk)

\* Nothing unproven stays: it is committed, or the timer takes it away.
UnprovenGoes == Unproven /\ ~stacked ~> ~Unproven \/ stacked

-----------------------------------------------------------------------------
\* What comments say, and the code does not do.

\* "every failure path below is safe to abandon: not committing is itself the
\* recovery" (gateway-apply.ts): once the timer is gone and no call is running,
\* what is in force is proven.
AbandonedApplyIsUndone ==
    ~timer /\ LockFree /\ (\A k \in Apply : ~OpRunning(k)) => ~Unproven

\* "Makes a staged transaction permanent" (apply_gateway.py, operation_commit):
\* an apply that reports success leaves its revision in force.
SuccessIsPermanent ==
    [][\A k \in Apply : Committed(k) => disk = applies[k].rev /\ live = applies[k].rev]_vars

=============================================================================
