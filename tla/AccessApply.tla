------------------------------ MODULE AccessApply ------------------------------
(***************************************************************************)
(* The Access LXC under a policy apply, surface by surface: the nftables   *)
(* file and the include that loads it at boot, the VLAN units and the      *)
(* links networkd makes of them, and the ruleset in force.  ApplianceApply *)
(* has the protocol with files and ruleset as one value; here are what a   *)
(* rollback must undo, what a reboot keeps, what the backend can see, and  *)
(* the passes that come again until the guest is as the database wants it. *)
(*                                                                         *)
(*   pass    AccessApplyRunner and applyAccessPolicy, under the            *)
(*           reconciliation lock; again from the drift reconciler          *)
(*   op      the guest process serving a call; it outlives a caller that   *)
(*           gave up.  The next call waits for it here (ApplianceApply has *)
(*           overlapping ones)                                             *)
(*   world   systemd's timer, networkd, Docker, reboots                    *)
(*                                                                         *)
(* Everything the apply keeps for itself lies on tmpfs.  The sysctl file   *)
(* and the unit of the trunk's parent are left out: every policy has the   *)
(* same.                                                                   *)
(***************************************************************************)
EXTENDS Integers, FiniteSets

CONSTANTS
    Vlan,           \* VLANs of the pool
    WantedSets,     \* sets of VLANs the database can want
    Bridge,         \* what Docker's bridge networks can be
    Absent, NULL,
    MaxFaults,      \* bound on failures, lost answers and reboots
    MaxChanges      \* bound on changes of what is wanted and of Docker's networks

ASSUME AccessAssumption ==
    /\ WantedSets \subseteq SUBSET Vlan
    /\ MaxFaults \in Nat /\ MaxChanges \in Nat

VARIABLES
    wanted, bridges,        \* the operational groups' VLANs; Docker's networks
    conf, file, units,      \* on disk: the include, the ruleset file, VLAN units
    table, links, settled,  \* live: the ruleset, VLAN links; they have addresses
    backup, script, txn, timer,
    op, pass,
    had,                    \* ghost: Docker's networks since the stage answered
    stacked,                \* ghost: since the last commit, a stage under a live timer
    faults, changes

disk == <<conf, file, units>>
live == <<table, links, settled>>
run == <<backup, script, txn, timer>>
world == <<wanted, bridges, changes>>
vars == <<wanted, bridges, conf, file, units, table, links, settled, backup, script,
          txn, timer, op, pass, had, stacked, faults, changes>>

-----------------------------------------------------------------------------
\* The revision hashes the VLAN interfaces and the bridges observed on the guest.
Policy == [vlans : SUBSET Vlan, bridges : Bridge]

Image == [conf : BOOLEAN, file : Policy \cup {Absent}, units : SUBSET Vlan,
          table : Policy \cup {Absent}, links : SUBSET Vlan]

OpStep == {"stage", "arm", "install", "networkd", "wait", "load", "record",
           "commit", "cancel", "clean", "rollback", "disarm"}

\* before: ghost, the guest as the stage found it.
Op == [step : OpStep \cup {"none", "ok", "bad", "error"}, policy : Policy \cup {NULL},
       converged : BOOLEAN, before : Image \cup {NULL}]

\* fine: the addresses just observed are the plan's; saw: the bridges observed.
Pass == [pc : {"idle", "look", "stage", "addresses", "bridges", "ruleset", "commit",
               "rollback"},
         vlans : SUBSET Vlan, saw : Bridge \cup {NULL}, fine : BOOLEAN]

NoBackup == [file |-> Absent, units |-> {}]

\* removes: units with no backup, deleted with their links; include: the
\* transaction's own doing.
Script == [copies : BOOLEAN, units : SUBSET Vlan, removes : SUBSET Vlan,
           include : BOOLEAN]

TypeOK ==
    /\ wanted \in WantedSets /\ bridges \in Bridge
    /\ conf \in BOOLEAN /\ file \in Policy \cup {Absent} /\ units \subseteq Vlan
    /\ table \in Policy \cup {Absent} /\ links \subseteq Vlan /\ settled \in BOOLEAN
    /\ backup \in [file : Policy \cup {Absent}, units : SUBSET Vlan]
    /\ script \in Script \cup {NULL}
    /\ txn \in Policy \cup {NULL} /\ timer \in BOOLEAN
    /\ op \in Op /\ pass \in Pass
    /\ had \subseteq Bridge /\ stacked \in BOOLEAN
    /\ faults \in 0..MaxFaults /\ changes \in 0..MaxChanges

\* A guest never managed, one that converged, or the one an early apply left,
\* with the file but not the include, after its next restart.
Init ==
    /\ wanted \in WantedSets /\ bridges \in Bridge
    /\ units \in WantedSets /\ links = units /\ settled = TRUE
    /\ LET policy == [vlans |-> units, bridges |-> bridges]
       IN  \/ units = {} /\ conf = FALSE /\ file = Absent /\ table = Absent
           \/ conf = TRUE /\ file = policy /\ table = policy
           \/ conf = FALSE /\ file = policy /\ table = Absent
    /\ backup = NoBackup /\ script = NULL /\ txn = NULL /\ timer = FALSE
    /\ op = [step |-> "none", policy |-> NULL, converged |-> FALSE, before |-> NULL]
    /\ pass = [pc |-> "idle", vlans |-> {}, saw |-> NULL, fine |-> FALSE]
    /\ had = {} /\ stacked = FALSE /\ faults = 0 /\ changes = 0

-----------------------------------------------------------------------------
OpAt(step) == op.step = step
OpGoto(step) == op' = [op EXCEPT !.step = step]
OpRunning == op.step \in OpStep

At(pc) == pass.pc = pc
Goto(pc) == pass' = [pass EXCEPT !.pc = pc]
Call(pc, step) == Goto(pc) /\ OpGoto(step)

Fault == faults < MaxFaults /\ faults' = faults + 1
NoFault == UNCHANGED faults

GuestOnly == UNCHANGED <<pass, had>> /\ UNCHANGED world
BackendOnly == UNCHANGED <<stacked>> /\ UNCHANGED world /\ UNCHANGED disk
               /\ UNCHANGED live /\ UNCHANGED run

\* The VLANs whose interface shows an address; a link without a unit keeps its own.
Addressed == IF settled THEN links ELSE links \ units

\* Units on disk that the request does not name.
Pruned == backup.units \ op.policy.vlans

\* networkctl reload makes links and never unmakes one: those of the pruned units
\* are deleted by hand.
ReloadedLinks == (links \cup units) \ Pruned

EnsureInclude == conf' = TRUE

\* The revision the ruleset in the kernel names.
LiveRevision == table

Verified(policy) == LiveRevision = policy

\* A transaction waits for its commit or rollback.
Open == txn # NULL /\ timer

\* The files of a stage request.
Rendered(policy) == [file |-> policy, units |-> policy.vlans]

\* What the observation just made would have the guest be.
Derived == [vlans |-> pass.vlans, bridges |-> pass.saw]

Snapshot == [conf |-> conf, file |-> file, units |-> units, table |-> table,
             links |-> links]

-----------------------------------------------------------------------------
\* Guest: stage.

StageRefused ==
    /\ OpAt("stage") /\ Open
    /\ OpGoto("error")
    /\ UNCHANGED <<stacked, faults>> /\ UNCHANGED <<disk, live, run>> /\ GuestOnly

\* Every managed file is overwritten or pruned, so every one is backed up.
StageBackup ==
    /\ OpAt("stage") /\ ~Open
    /\ backup' = [file |-> file, units |-> units]
    /\ op' = [op EXCEPT !.step = "arm", !.before = Snapshot]
    /\ stacked' = (stacked \/ timer)
    /\ UNCHANGED <<script, txn, timer, faults>> /\ UNCHANGED <<disk, live>> /\ GuestOnly

\* `nft -c` refuses the candidate, or the stage directory cannot be written.
StageInvalid ==
    /\ OpAt("arm") /\ Fault
    /\ OpGoto("error")
    /\ UNCHANGED stacked /\ UNCHANGED <<disk, live, run>> /\ GuestOnly

ArmedScript ==
    [copies |-> backup.file # Absent, units |-> backup.units,
     removes |-> op.policy.vlans \ backup.units, include |-> ~conf]

\* Variant: a rollback leaves the include it finds.
ArmKeepingInclude ==
    /\ OpAt("arm")
    /\ script' = [ArmedScript EXCEPT !.include = FALSE]
    /\ timer' = TRUE
    /\ OpGoto(IF timer THEN "error" ELSE "install")
    /\ UNCHANGED <<backup, txn, stacked, faults>> /\ UNCHANGED <<disk, live>> /\ GuestOnly

\* The script is written before systemd-run claims the unit's name.
StageArm ==
    /\ OpAt("arm")
    /\ script' = ArmedScript
    /\ timer' = TRUE
    /\ OpGoto(IF timer THEN "error" ELSE "install")
    /\ UNCHANGED <<backup, txn, stacked, faults>> /\ UNCHANGED <<disk, live>> /\ GuestOnly

StageInstall ==
    /\ OpAt("install")
    /\ file' = Rendered(op.policy).file /\ units' = Rendered(op.policy).units
    /\ OpGoto("networkd")
    /\ UNCHANGED <<conf, stacked, faults>> /\ UNCHANGED <<live, run>> /\ GuestOnly

StageNetworkd ==
    /\ OpAt("networkd")
    /\ EnsureInclude
    /\ links' = ReloadedLinks
    /\ settled' = FALSE
    /\ OpGoto("wait")
    /\ UNCHANGED <<file, units, table, stacked, faults>> /\ UNCHANGED run /\ GuestOnly

\* Variant: it does not wait for the addresses to come back.
StageDoesNotWait ==
    /\ OpAt("wait")
    /\ OpGoto("load")
    /\ UNCHANGED <<stacked, faults>> /\ UNCHANGED <<disk, live, run>> /\ GuestOnly

\* The planned VLANs have their addresses.
StageWait ==
    /\ OpAt("wait") /\ op.policy.vlans \subseteq Addressed
    /\ OpGoto("load")
    /\ UNCHANGED <<stacked, faults>> /\ UNCHANGED <<disk, live, run>> /\ GuestOnly

\* Twenty seconds are over.
StageWaitEnds ==
    /\ OpAt("wait") /\ ~settled /\ Fault
    /\ OpGoto("load")
    /\ UNCHANGED stacked /\ UNCHANGED <<disk, live, run>> /\ GuestOnly

\* The timer fired meanwhile: these addresses will not come.
StageWaitIsVain ==
    /\ OpAt("wait") /\ settled /\ ~(op.policy.vlans \subseteq links)
    /\ OpGoto("load")
    /\ UNCHANGED <<stacked, faults>> /\ UNCHANGED <<disk, live, run>> /\ GuestOnly

\* The file alone is loaded, or with none the table deleted; then verify.
StageLoad ==
    /\ OpAt("load")
    /\ table' = file
    /\ op' = [op EXCEPT !.step = "record", !.converged = LiveRevision' = op.policy]
    /\ UNCHANGED <<links, settled, stacked, faults>> /\ UNCHANGED <<disk, run>> /\ GuestOnly

\* A command exits with an error: no transaction is recorded.
StageRaises ==
    /\ op.step \in {"install", "networkd", "load"} /\ Fault
    /\ OpGoto("error")
    /\ UNCHANGED stacked /\ UNCHANGED <<disk, live, run>> /\ GuestOnly

StageRecord ==
    /\ OpAt("record")
    /\ txn' = op.policy
    /\ OpGoto(IF op.converged /\ timer THEN "ok" ELSE "bad")
    /\ UNCHANGED <<backup, script, timer, stacked, faults>> /\ UNCHANGED <<disk, live>>
    /\ GuestOnly

-----------------------------------------------------------------------------
\* Guest: undoing, by the script alone.

Restorable == (script.copies => backup.file # Absent) /\ script.units \subseteq backup.units

\* Variant: the units go, the links they made stay.
RestoreWithoutLinks ==
    /\ file' = IF script.copies THEN backup.file ELSE Absent
    /\ units' = (units \cup script.units) \ script.removes
    /\ links' = links \cup units'
    /\ settled' = FALSE
    /\ conf' = (conf /\ ~script.include)
    /\ table' = file'
    /\ txn' = NULL

\* Files are copied back or removed, with the link a removed unit made; the
\* include goes if the transaction brought it; networkd and the table are
\* reloaded from what is then on disk.
Restore ==
    /\ file' = IF script.copies THEN backup.file ELSE Absent
    /\ units' = (units \cup script.units) \ script.removes
    /\ links' = (links \ script.removes) \cup units'
    /\ settled' = FALSE
    /\ conf' = (conf /\ ~script.include)
    /\ table' = file'
    /\ txn' = NULL

\* `set -e`: stops at the first copy whose source is gone.
RestoreStops ==
    /\ \/ script.copies /\ backup.file = Absent /\ UNCHANGED <<units, links>>
       \/ /\ script.copies => backup.file # Absent
          /\ \E gone \in SUBSET script.removes :
                units' = units \ gone /\ links' = links \ gone
    /\ UNCHANGED <<conf, file, table, settled, txn>>

\* A call or a pass of the open transaction is under way.
UnderWay ==
    \/ op.step \in OpStep \ {"stage", "arm"}
    \/ OpAt("ok") /\ ~At("idle")
    \/ pass.pc \in {"addresses", "bridges", "ruleset", "commit", "rollback"}

\* The window is five minutes and a command's timeout one: not before the files
\* are written and networkd is reloaded, and not before the pass is done unless
\* something held it up.
Fire ==
    /\ timer /\ op.step \notin {"install", "networkd"}
    /\ IF UnderWay THEN Fault ELSE NoFault
    /\ IF Restorable THEN Restore ELSE RestoreStops
    /\ timer' = FALSE
    /\ UNCHANGED <<backup, script, op, stacked>> /\ GuestOnly

RollbackRefused ==
    /\ OpAt("rollback") /\ txn = NULL
    /\ OpGoto("error")
    /\ UNCHANGED <<stacked, faults>> /\ UNCHANGED <<disk, live, run>> /\ GuestOnly

Rollback ==
    /\ OpAt("rollback") /\ txn # NULL
    /\ Restore
    /\ OpGoto("disarm")
    /\ UNCHANGED <<backup, script, timer, stacked, faults>> /\ GuestOnly

\* cancel_rollback is unchecked.
Disarm ==
    \/ timer' = FALSE /\ NoFault
    \/ timer /\ Fault /\ UNCHANGED timer

RollbackDisarm ==
    /\ OpAt("disarm") /\ Disarm
    /\ OpGoto("ok")
    /\ UNCHANGED <<backup, script, txn, stacked>> /\ UNCHANGED <<disk, live>> /\ GuestOnly

-----------------------------------------------------------------------------
\* Guest: commit.

CommitVerify ==
    /\ OpAt("commit") /\ txn # NULL /\ Verified(txn)
    /\ OpGoto("cancel")
    /\ UNCHANGED <<stacked, faults>> /\ UNCHANGED <<disk, live, run>> /\ GuestOnly

\* No transaction, another ruleset, or Guacamole's ports are silent.
CommitRefused ==
    /\ OpAt("commit")
    /\ IF txn = NULL \/ ~Verified(txn) THEN NoFault ELSE Fault
    /\ OpGoto("error")
    /\ UNCHANGED stacked /\ UNCHANGED <<disk, live, run>> /\ GuestOnly

CommitCancel ==
    /\ OpAt("cancel") /\ Disarm
    /\ OpGoto("clean")
    /\ UNCHANGED <<backup, script, txn, stacked>> /\ UNCHANGED <<disk, live>> /\ GuestOnly

CommitClean ==
    /\ OpAt("clean")
    /\ backup' = NoBackup /\ txn' = NULL
    /\ stacked' = FALSE
    /\ OpGoto(IF timer THEN "bad" ELSE "ok")
    /\ UNCHANGED <<script, timer, faults>> /\ UNCHANGED <<disk, live>> /\ GuestOnly

-----------------------------------------------------------------------------
\* Backend.

\* The lock, and the infrastructure plan.
Begin ==
    /\ At("idle")
    /\ pass' = [pc |-> "look", vlans |-> wanted, saw |-> NULL, fine |-> FALSE]
    /\ UNCHANGED <<op, had, faults>> /\ BackendOnly

\* The observation says which bridges to render for; only what an apply cannot
\* fix stops it.
Look ==
    /\ At("look") /\ ~OpRunning
    /\ Goto("stage")
    /\ op' = [op EXCEPT !.step = "stage", !.converged = FALSE,
                        !.policy = [vlans |-> pass.vlans, bridges |-> bridges]]
    /\ UNCHANGED <<had, faults>> /\ BackendOnly

\* The revision asked for is an older one, or a check fails that no apply repairs.
Blocked ==
    /\ At("look") /\ Fault
    /\ Goto("idle")
    /\ UNCHANGED <<op, had>> /\ BackendOnly

\* The guest does not run or cannot be observed.
LookFails ==
    /\ At("look") /\ Fault
    /\ Goto("idle")
    /\ UNCHANGED <<op, had>> /\ BackendOnly

Staged ==
    /\ At("stage") /\ OpAt("ok")
    /\ Call("addresses", "none")
    /\ had' = {bridges}
    /\ UNCHANGED faults /\ BackendOnly

\* Not converged, or without an armed timer.
StagedBadly ==
    /\ At("stage") /\ OpAt("bad")
    /\ Call("rollback", "rollback")
    /\ UNCHANGED <<had, faults>> /\ BackendOnly

\* The observer runs one command after the other, beside everything else.
ProveAddresses ==
    /\ At("addresses")
    /\ pass' = [pass EXCEPT !.pc = "bridges", !.fine = (Addressed = pass.vlans)]
    /\ UNCHANGED <<op, had, faults>> /\ BackendOnly

ProveBridges ==
    /\ At("bridges")
    /\ pass' = [pass EXCEPT !.pc = "ruleset", !.saw = bridges]
    /\ UNCHANGED <<op, had, faults>> /\ BackendOnly

\* Variant: judged by the policy that was staged.
ProveAsStaged ==
    /\ At("ruleset")
    /\ IF pass.fine /\ table = op.policy
       THEN Call("commit", "commit")
       ELSE Call("rollback", "rollback")
    /\ UNCHANGED <<had, faults>> /\ BackendOnly

\* The revision is derived again, from the bridges just observed.
ProveRuleset ==
    /\ At("ruleset")
    /\ IF pass.fine /\ table = Derived
       THEN Call("commit", "commit")
       ELSE Call("rollback", "rollback")
    /\ UNCHANGED <<had, faults>> /\ BackendOnly

Proving == pass.pc \in {"addresses", "bridges", "ruleset"}

\* A check fails that no apply repairs.
ProveFails ==
    /\ Proving /\ Fault
    /\ Call("rollback", "rollback")
    /\ UNCHANGED had /\ BackendOnly

\* The sockets are read first: Guacamole does not listen.
Silent ==
    /\ At("addresses") /\ Fault
    /\ Call("rollback", "rollback")
    /\ UNCHANGED had /\ BackendOnly

\* The observation itself fails.
Unobserved ==
    /\ Proving /\ Fault
    /\ Call("rollback", "rollback")
    /\ UNCHANGED had /\ BackendOnly

Committed ==
    /\ At("commit") /\ OpAt("ok")
    /\ Call("idle", "none")
    /\ UNCHANGED <<had, faults>> /\ BackendOnly

Undone ==
    /\ At("rollback") /\ OpAt("ok")
    /\ Call("idle", "none")
    /\ UNCHANGED <<had, faults>> /\ BackendOnly

Failed ==
    /\ \/ pass.pc \in {"stage", "commit", "rollback"} /\ OpAt("error")
       \/ At("commit") /\ OpAt("bad")
    /\ Call("idle", "none")
    /\ UNCHANGED <<had, faults>> /\ BackendOnly

\* The answer does not come in time, or the backend dies.
GiveUp ==
    /\ ~At("idle") /\ Fault
    /\ Goto("idle")
    /\ UNCHANGED <<op, had>> /\ BackendOnly

-----------------------------------------------------------------------------
\* World.

Change == changes < MaxChanges /\ changes' = changes + 1

WantOther ==
    /\ Change
    /\ wanted' \in WantedSets \ {wanted}
    /\ UNCHANGED <<bridges, op, pass, had, stacked, faults>> /\ UNCHANGED <<disk, live, run>>

DockerChanges ==
    /\ Change
    /\ bridges' \in Bridge \ {bridges}
    /\ had' = had \cup {bridges'}
    /\ UNCHANGED <<wanted, op, pass, stacked, faults>> /\ UNCHANGED <<disk, live, run>>

\* networkd has configured the links.
Settle ==
    /\ ~settled /\ settled' = TRUE
    /\ UNCHANGED <<table, links, op, stacked, faults>> /\ UNCHANGED <<disk, run>> /\ GuestOnly

BootTable == IF conf THEN file ELSE Absent

Reboot ==
    /\ Fault
    /\ table' = BootTable /\ links' = units /\ settled' = FALSE
    /\ backup' = NoBackup /\ script' = NULL /\ txn' = NULL /\ timer' = FALSE
    /\ OpGoto(IF OpRunning THEN "error" ELSE op.step)
    /\ UNCHANGED stacked /\ UNCHANGED disk /\ GuestOnly

-----------------------------------------------------------------------------
Stage ==
    \/ StageRefused \/ StageBackup \/ StageInvalid \/ StageArm \/ StageInstall
    \/ StageNetworkd \/ StageWait \/ StageWaitEnds \/ StageWaitIsVain \/ StageLoad
    \/ StageRaises \/ StageRecord

Guest ==
    \/ Stage
    \/ RollbackRefused \/ Rollback \/ RollbackDisarm
    \/ CommitVerify \/ CommitRefused \/ CommitCancel \/ CommitClean

Runner ==
    \/ Begin \/ Look \/ Staged \/ StagedBadly
    \/ ProveAddresses \/ ProveBridges \/ ProveRuleset
    \/ Committed \/ Undone \/ Failed

Trouble ==
    Blocked \/ LookFails \/ ProveFails \/ Silent \/ Unobserved \/ GiveUp \/ Reboot

Next == Guest \/ Runner \/ Trouble \/ Fire \/ Settle \/ WantOther \/ DockerChanges

Spec == Init /\ [][Next]_vars

\* Every command has a timeout, the timer elapses, networkd gets there, and the
\* drift reconciler's timer starts pass after pass.
Fairness ==
    /\ WF_vars(Guest) /\ WF_vars(Runner)
    /\ WF_vars(Fire) /\ WF_vars(Settle)

FairSpec == Spec /\ Fairness

-----------------------------------------------------------------------------
\* Properties.

AtRest == ~timer /\ ~OpRunning

\* With no transaction open, a restart changes nothing: every VLAN link is one
\* that a unit on disk describes, none outlives the unit that made it (a prune
\* works by files and could never reach it), and with the include in place the
\* ruleset in force is the one on disk, after commits, rollbacks, timers and
\* reboots in the middle of any of them.
BootsAsItRuns ==
    AtRest /\ ~stacked => links = units /\ (conf => table = file)

\* An apply reported as rolled back has left the guest as its stage found it, on
\* every surface and at the next boot.  (RestoreIsARestore has the exception.)
UndoneIsUndone ==
    [][Undone /\ ~stacked =>
        /\ conf = op.before.conf /\ file = op.before.file
        /\ units = op.before.units /\ links = op.before.links
        /\ conf => table = op.before.table]_vars

\* An apply that succeeds leaves a ruleset for bridges Docker had after it was
\* staged: a change between plan and proof is not committed over.
ProofIsCurrent ==
    [][Committed => op.policy.bridges \in had]_vars

Converged == table = [vlans |-> wanted, bridges |-> bridges] /\ links = wanted

\* Whatever failed, was abandoned, came late or rebooted on the way, the guest
\* ends up with the ruleset and exactly the links of the VLANs that are wanted,
\* unless a stage began while a timer was still to undo an earlier one
\* (AbandoningIsRecovery shows why).
GuestConverges == []~stacked => <>[]Converged

-----------------------------------------------------------------------------
\* What comments say, and the code does not do.

\* "every failure path is safe to abandon: not committing is itself the recovery"
\* (access-apply.ts).  A stage that raised leaves its timer and no transaction:
\* the next one backs up what the first half installed, the timer restores that,
\* and a link whose unit is in no backup fails every later proof.
AbandoningIsRecovery == <>[]Converged

\* "Flush ours first so a rollback to "absent" really is absent" (apply_access.py,
\* arm_rollback): also the ruleset in force is the one the stage found.
RestoreIsARestore == [][Undone /\ ~stacked => table = op.before.table]_vars

=============================================================================
