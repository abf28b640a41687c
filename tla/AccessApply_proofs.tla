-------------------------- MODULE AccessApply_proofs --------------------------
(***************************************************************************)
(* For every pool of VLANs, every bridge, fault and change of what is      *)
(* wanted, unless a stage began under a live timer:                        *)
(*   - with no transaction open, a restart of the guest changes nothing;   *)
(*   - an apply reported as rolled back left every surface as it was;      *)
(* and without that exception:                                             *)
(*   - what is committed was rendered for bridges Docker had meanwhile.    *)
(***************************************************************************)
EXTENDS AccessApply, TLAPS

\* The guest writes, or has written, what it staged.
Staging == {"install", "networkd", "wait", "load", "record"}

\* Something may still be undone.
Scripted == timer \/ txn # NULL \/ op.step \in Staging

TypeInv ==
    /\ TypeOK
    /\ Scripted => script \in Script
    /\ (OpRunning \/ At("stage") \/ Proving) => op.policy \in Policy

\* What the backend waits for is what the guest is doing.
PairInv ==
    /\ At("stage") => op.step \in {"stage", "arm", "ok", "bad", "error"} \cup Staging
    /\ Proving => OpAt("none")
    /\ At("commit") => op.step \in {"commit", "cancel", "clean", "ok", "bad", "error"}
    /\ At("rollback") => op.step \in {"rollback", "disarm", "ok", "error"}
    /\ pass.pc \in {"stage", "addresses"} => op.policy.vlans = pass.vlans

-----------------------------------------------------------------------------
\* The types.

LEMMA OpMoves ==
    ASSUME TypeOK, NEW s, OpGoto(s)
    PROVE  /\ op'.step = s /\ op'.policy = op.policy
           /\ op'.converged = op.converged /\ op'.before = op.before
           /\ s \in OpStep \cup {"none", "ok", "bad", "error"} => op' \in Op
BY DEF TypeOK, Op, OpGoto

LEMMA PassMoves ==
    ASSUME TypeOK, NEW pc, Goto(pc)
    PROVE  /\ pass'.pc = pc /\ pass'.vlans = pass.vlans
           /\ pass'.saw = pass.saw /\ pass'.fine = pass.fine
           /\ pc \in {"idle", "look", "stage", "addresses", "bridges", "ruleset", "commit",
                      "rollback"} => pass' \in Pass
BY DEF TypeOK, Pass, Goto

\* The step a handler takes is one of the guest's.
LEMMA BackupMoves ==
    ASSUME TypeOK, StageBackup
    PROVE  op' \in Op /\ op'.step = "arm" /\ op'.policy = op.policy /\ op'.before = Snapshot
<1>1. Snapshot \in Image
  BY DEF TypeOK, Snapshot, Image
<1> QED
  BY <1>1 DEF TypeOK, StageBackup, Op, OpStep

LEMMA LoadMoves ==
    ASSUME TypeOK, StageLoad
    PROVE  /\ op' \in Op /\ op'.step = "record" /\ op'.policy = op.policy
           /\ op'.before = op.before /\ op'.converged = (table' = op.policy)
BY DEF TypeOK, StageLoad, LiveRevision, Op, OpStep

LEMMA LookMoves ==
    ASSUME TypeOK, Look
    PROVE  /\ op' \in Op /\ op'.step = "stage" /\ op'.policy \in Policy
           /\ op'.policy.vlans = pass.vlans /\ pass' \in Pass /\ pass'.pc = "stage"
           /\ pass'.vlans = pass.vlans
<1>1. [vlans |-> pass.vlans, bridges |-> bridges] \in Policy
  BY DEF TypeOK, Pass, Policy
<1>2. op' \in Op /\ op'.step = "stage" /\ op'.policy = [vlans |-> pass.vlans, bridges |-> bridges]
  BY <1>1 DEF TypeOK, Look, Op, OpStep
<1> QED
  BY <1>1, <1>2, PassMoves DEF Look

LEMMA TypeInit == Init => TypeInv
<1> SUFFICES ASSUME Init PROVE TypeInv
  OBVIOUS
<1>1. units \in SUBSET Vlan
  BY AccessAssumption DEF Init, AccessAssumption
<1>2. [vlans |-> units, bridges |-> bridges] \in Policy
  BY <1>1 DEF Init, Policy
<1>3. op \in Op /\ pass \in Pass
  BY DEF Init, Op, Pass
<1>4. faults \in 0..MaxFaults /\ changes \in 0..MaxChanges
  BY AccessAssumption DEF Init, AccessAssumption
<1>5. conf \in BOOLEAN /\ file \in Policy \cup {Absent} /\ table \in Policy \cup {Absent}
  BY <1>2 DEF Init
<1>6. backup \in [file : Policy \cup {Absent}, units : SUBSET Vlan]
  BY DEF Init, NoBackup
<1> QED
  BY <1>1, <1>3, <1>4, <1>5, <1>6 DEF Init, TypeInv, TypeOK, OpRunning, OpStep, At, Proving, Scripted, Staging

\* The script of any transaction, and what running one leaves.
LEMMA ScriptTyped ==
    ASSUME TypeInv, OpAt("arm")
    PROVE  ArmedScript \in Script
<1>1. op.policy \in Policy
  BY DEF TypeInv, OpAt, OpRunning, OpStep
<1> QED
  BY <1>1 DEF TypeInv, TypeOK, ArmedScript, Script, Policy

DiskTyped == conf \in BOOLEAN /\ file \in Policy \cup {Absent} /\ units \subseteq Vlan
LiveTyped == table \in Policy \cup {Absent} /\ links \subseteq Vlan /\ settled \in BOOLEAN
RunTyped ==
    /\ backup \in [file : Policy \cup {Absent}, units : SUBSET Vlan]
    /\ script \in Script \cup {NULL}
    /\ txn \in Policy \cup {NULL} /\ timer \in BOOLEAN

LEMMA RestoreTyped ==
    ASSUME TypeInv, script \in Script, Restore \/ RestoreStops
    PROVE  DiskTyped' /\ LiveTyped' /\ txn' \in {txn, NULL}
<1>1. CASE Restore
  BY <1>1 DEF TypeInv, TypeOK, Restore, Script, DiskTyped, LiveTyped
<1>2. CASE RestoreStops
  BY <1>2 DEF TypeInv, TypeOK, RestoreStops, DiskTyped, LiveTyped
<1> QED
  BY <1>1, <1>2

LEMMA FaultTyped == ASSUME TypeOK, Fault \/ NoFault PROVE faults' \in 0..MaxFaults
BY AccessAssumption DEF TypeOK, Fault, NoFault, AccessAssumption

LEMMA GuestTyped ==
    ASSUME TypeInv, PairInv, Guest
    PROVE  TypeInv'
<1>0. TypeOK /\ DiskTyped /\ LiveTyped /\ RunTyped
  BY DEF TypeInv, TypeOK, DiskTyped, LiveTyped, RunTyped
<1>1. GuestOnly /\ faults' \in 0..MaxFaults /\ stacked' \in BOOLEAN
  BY <1>0, FaultTyped
     DEF Guest, Stage, StageRefused, StageBackup, StageInvalid, StageArm, StageInstall, StageNetworkd,
         StageWait, StageWaitEnds, StageWaitIsVain, StageLoad, StageRaises, StageRecord,
         RollbackRefused, Rollback, RollbackDisarm, CommitVerify, CommitRefused, CommitCancel,
         CommitClean, Disarm, Fault, NoFault, TypeOK
<1>2. /\ op' \in Op /\ op'.policy = op.policy
      /\ op.step \in OpStep
  BY <1>0, BackupMoves, LoadMoves, OpMoves
     DEF Guest, Stage, StageRefused, StageInvalid, StageArm, StageInstall, StageNetworkd, StageBackup,
         StageWait, StageWaitEnds, StageWaitIsVain, StageLoad, StageRaises, StageRecord,
         RollbackRefused, Rollback, RollbackDisarm, CommitVerify, CommitRefused, CommitCancel,
         CommitClean, OpAt, OpStep
<1>3. op'.policy \in Policy
  BY <1>2 DEF TypeInv, OpRunning
<1>4. DiskTyped' /\ LiveTyped' /\ RunTyped'
  <2>1. CASE StageArm
    <3>1. ArmedScript \in Script
      BY <2>1, ScriptTyped DEF StageArm
    <3> QED
      BY <1>0, <2>1, <3>1 DEF StageArm, disk, live, DiskTyped, LiveTyped, RunTyped
  <2>2. CASE StageInstall
    BY <1>0, <1>2, <1>3, <2>2 DEF StageInstall, Rendered, live, run, DiskTyped, LiveTyped, RunTyped, Policy
  <2>3. CASE StageNetworkd \/ StageLoad
    <3>1. DiskTyped' /\ LiveTyped' /\ UNCHANGED run
      BY <1>0, <2>3 DEF StageNetworkd, EnsureInclude, ReloadedLinks, StageLoad, disk, DiskTyped, LiveTyped
    <3> QED
      BY <1>0, <3>1 DEF run, RunTyped
  <2>4. CASE StageRecord
    BY <1>0, <1>2, <1>3, <2>4 DEF StageRecord, disk, live, DiskTyped, LiveTyped, RunTyped
  <2>5. CASE Rollback
    <3>1. script \in Script
      BY <2>5 DEF Rollback, TypeInv, Scripted
    <3> QED
      BY <1>0, <2>5, <3>1, RestoreTyped DEF Rollback, RunTyped
  <2>6. CASE StageBackup \/ CommitClean
    BY <1>0, <2>6 DEF StageBackup, CommitClean, NoBackup, disk, live, DiskTyped, LiveTyped, RunTyped
  <2>7. CASE RollbackDisarm \/ CommitCancel
    BY <1>0, <2>7 DEF RollbackDisarm, CommitCancel, Disarm, disk, live, DiskTyped, LiveTyped, RunTyped
  <2>8. CASE UNCHANGED <<disk, live, run>>
    BY <1>0, <2>8 DEF disk, live, run, DiskTyped, LiveTyped, RunTyped
  <2> QED
    BY <2>1, <2>2, <2>3, <2>4, <2>5, <2>6, <2>7, <2>8
       DEF Guest, Stage, StageRefused, StageInvalid, StageWait, StageWaitEnds, StageWaitIsVain,
           StageRaises, RollbackRefused, CommitVerify, CommitRefused
<1>5. Scripted' => script' \in Script
  <2>1. CASE StageArm
    BY <2>1, ScriptTyped DEF StageArm
  <2>2. CASE ~StageArm
    <3>1. op'.step \in Staging => op.step \in Staging
      BY <1>0, <2>2, BackupMoves, OpMoves
         DEF Guest, Stage, StageRefused, StageInvalid, StageInstall, StageNetworkd, StageBackup,
             StageWait, StageWaitEnds, StageWaitIsVain, StageLoad, StageRaises, StageRecord,
             RollbackRefused, Rollback, RollbackDisarm, CommitVerify, CommitRefused, CommitCancel,
             CommitClean, OpAt, Staging
    <3>2. UNCHANGED script /\ (timer' => timer) /\ (txn' # NULL => txn # NULL \/ op.step \in Staging)
      BY <2>2
         DEF Guest, Stage, StageRefused, StageInvalid, StageInstall, StageNetworkd, StageBackup,
             StageWait, StageWaitEnds, StageWaitIsVain, StageLoad, StageRaises, StageRecord,
             RollbackRefused, Rollback, RollbackDisarm, CommitVerify, CommitRefused, CommitCancel,
             CommitClean, OpAt, Staging, Restore, Disarm, run
    <3> QED
      BY <3>1, <3>2 DEF TypeInv, Scripted
  <2> QED
    BY <2>1, <2>2
<1> QED
  BY <1>0, <1>1, <1>2, <1>3, <1>4, <1>5
     DEF GuestOnly, world, TypeInv, TypeOK, DiskTyped, LiveTyped, RunTyped

\* The steps of the backend.
BackendSteps == Runner \/ Blocked \/ LookFails \/ ProveFails \/ Silent \/ Unobserved \/ GiveUp

LEMMA BackendTyped ==
    ASSUME TypeInv, PairInv, BackendSteps
    PROVE  TypeInv' /\ BackendOnly
<1>0. TypeOK
  BY DEF TypeInv
<1>1. /\ BackendOnly /\ faults' \in 0..MaxFaults
      /\ \/ had' = had \/ had' = {bridges}
  BY <1>0, FaultTyped
     DEF BackendSteps, Runner, Begin, Look, Staged, StagedBadly, ProveAddresses, ProveBridges,
         ProveRuleset, Committed, Undone, Failed, Blocked, LookFails, ProveFails, Silent, Unobserved,
         GiveUp, TypeOK, Call
<1>2. UNCHANGED <<wanted, bridges, changes, conf, file, units, table, links, settled, backup, script,
                  txn, timer, stacked>>
  BY <1>1 DEF BackendOnly, world, disk, live, run
<1>3. /\ pass' \in Pass /\ op' \in Op
      /\ op'.step \notin Staging \/ op'.step = op.step
      /\ (OpRunning \/ At("stage") \/ Proving)' => op'.policy \in Policy
  <2>1. CASE Begin
    <3>1. pass' \in Pass /\ pass'.pc = "look" /\ UNCHANGED op
      BY <1>0, <2>1, AccessAssumption DEF Begin, TypeOK, Pass, AccessAssumption
    <3> QED
      BY <1>0, <3>1 DEF TypeInv, TypeOK, OpRunning, At, Proving
  <2>2. CASE Look
    BY <1>0, <2>2, LookMoves DEF Staging
  <2>3. CASE ProveAddresses
    <3>1. pass' \in Pass /\ pass'.pc = "bridges" /\ UNCHANGED op
      BY <1>0, <2>3 DEF ProveAddresses, TypeOK, Pass
    <3> QED
      BY <1>0, <2>3, <3>1 DEF TypeInv, TypeOK, OpRunning, At, Proving, ProveAddresses
  <2>4. CASE ProveBridges
    <3>1. pass' \in Pass /\ pass'.pc = "ruleset" /\ UNCHANGED op
      BY <1>0, <2>4 DEF ProveBridges, TypeOK, Pass
    <3> QED
      BY <1>0, <2>4, <3>1 DEF TypeInv, TypeOK, OpRunning, At, Proving, ProveBridges
  <2>5. CASE Staged \/ StagedBadly \/ ProveRuleset \/ ProveFails \/ Silent \/ Unobserved
    <3>1. /\ \E step \in {"none", "commit", "rollback"} : OpGoto(step)
          /\ \E pc \in {"addresses", "commit", "rollback"} : Goto(pc)
          /\ At("stage") \/ Proving
      BY <2>5 DEF Staged, StagedBadly, ProveRuleset, ProveFails, Silent, Unobserved, Call, Proving, At
    <3>2. op'.policy \in Policy
      BY <1>0, <3>1, OpMoves DEF TypeInv
    <3>3. op' \in Op /\ pass' \in Pass /\ op'.step \notin Staging
      BY <1>0, <3>1, OpMoves, PassMoves DEF OpStep, Staging
    <3> QED
      BY <3>2, <3>3
  <2>6. CASE Committed \/ Undone \/ Failed
    <3>1. OpGoto("none") /\ Goto("idle")
      BY <2>6 DEF Committed, Undone, Failed, Call
    <3>2. op' \in Op /\ op'.step = "none" /\ pass' \in Pass /\ pass'.pc = "idle"
      BY <1>0, <3>1, OpMoves, PassMoves
    <3> QED
      BY <3>2 DEF Staging, OpRunning, OpStep, At, Proving
  <2>7. CASE Blocked \/ LookFails \/ GiveUp
    <3>1. UNCHANGED op /\ Goto("idle")
      BY <2>7 DEF Blocked, LookFails, GiveUp
    <3>2. pass' \in Pass /\ pass'.pc = "idle"
      BY <1>0, <3>1, PassMoves
    <3> QED
      BY <1>0, <3>1, <3>2 DEF TypeInv, TypeOK, OpRunning, At, Proving
  <2> QED
    BY <2>1, <2>2, <2>3, <2>4, <2>5, <2>6, <2>7 DEF BackendSteps, Runner
<1> QED
  BY <1>0, <1>1, <1>2, <1>3 DEF TypeInv, TypeOK, Scripted

WorldSteps == Fire \/ Settle \/ WantOther \/ DockerChanges \/ Reboot

LEMMA RebootMoves ==
    ASSUME TypeOK, Reboot
    PROVE  /\ op' \in Op /\ op'.step = (IF OpRunning THEN "error" ELSE op.step)
           /\ op'.policy = op.policy /\ op'.converged = op.converged /\ op'.before = op.before
           /\ ~OpRunning'
BY OpMoves DEF Reboot, OpRunning, OpStep, TypeOK, Op

LEMMA WorldTyped ==
    ASSUME TypeInv, PairInv, WorldSteps
    PROVE  TypeInv'
<1>0. TypeOK /\ DiskTyped /\ LiveTyped /\ RunTyped /\ (Scripted => script \in Script)
  BY DEF TypeInv, TypeOK, DiskTyped, LiveTyped, RunTyped
<1>1. CASE Fire
  <2>1. script \in Script
    BY <1>0, <1>1 DEF Fire, Scripted
  <2>2. DiskTyped' /\ LiveTyped' /\ txn' \in {txn, NULL} /\ timer' = FALSE
        /\ UNCHANGED <<backup, script, op, stacked, pass, had, wanted, bridges, changes>>
    BY <1>1, <2>1, RestoreTyped DEF Fire, GuestOnly, world
  <2>3. faults' \in 0..MaxFaults
    BY <1>0, <1>1, FaultTyped DEF Fire
  <2> QED
    BY <1>0, <2>1, <2>2, <2>3 DEF TypeInv, TypeOK, DiskTyped, LiveTyped, OpRunning, At, Proving
<1>2. CASE Settle
  BY <1>0, <1>2 DEF Settle, GuestOnly, world, disk, run, TypeInv, TypeOK, OpRunning, At, Proving, Scripted
<1>3. CASE WantOther \/ DockerChanges
  <2>1. /\ UNCHANGED <<conf, file, units, table, links, settled, backup, script, txn, timer, op, pass,
                       stacked, faults>>
        /\ wanted' \in WantedSets /\ bridges' \in Bridge /\ had' \subseteq Bridge
        /\ changes' \in 0..MaxChanges
    BY <1>0, <1>3, AccessAssumption
       DEF WantOther, DockerChanges, Change, disk, live, run, TypeOK, AccessAssumption
  <2> QED
    BY <1>0, <2>1 DEF TypeInv, TypeOK, OpRunning, At, Proving, Scripted
<1>4. CASE Reboot
  <2>1. /\ UNCHANGED <<conf, file, units, pass, had, wanted, bridges, changes, stacked>>
        /\ timer' = FALSE /\ txn' = NULL /\ script' = NULL
        /\ LiveTyped' /\ RunTyped'
    BY <1>0, <1>4 DEF Reboot, GuestOnly, world, disk, BootTable, NoBackup, LiveTyped, RunTyped, DiskTyped
  <2>2. faults' \in 0..MaxFaults
    BY <1>0, <1>4, FaultTyped DEF Reboot
  <2>3. op'.step \notin Staging /\ ((At("stage") \/ Proving)' => op'.policy \in Policy)
    BY <1>0, <1>4, <2>1, RebootMoves DEF TypeInv, At, Proving, Staging, OpRunning, OpStep
  <2> QED
    BY <1>0, <1>4, <2>1, <2>2, <2>3, RebootMoves
       DEF TypeInv, TypeOK, DiskTyped, LiveTyped, RunTyped, Scripted
<1> QED
  BY <1>1, <1>2, <1>3, <1>4 DEF WorldSteps

\* Every step is one of the three.
LEMMA StepsOf == Next => Guest \/ BackendSteps \/ WorldSteps
BY DEF Next, Trouble, BackendSteps, WorldSteps

-----------------------------------------------------------------------------
\* The backend and the guest.

Undoing == RollbackRefused \/ Rollback \/ RollbackDisarm
Committing == CommitVerify \/ CommitRefused \/ CommitCancel \/ CommitClean

\* Where each handler of the guest leads.
LEMMA GuestPaths ==
    ASSUME TypeOK, Guest
    PROVE  /\ UNCHANGED <<pass, had, bridges>> /\ op'.policy = op.policy
           /\ ~StageBackup => op'.before = op.before
           /\ ~StageLoad => op'.converged = op.converged
           /\ Stage => /\ op.step \in {"stage", "arm"} \cup Staging
                       /\ op'.step \in {"arm", "ok", "bad", "error"} \cup Staging
           /\ Undoing => /\ op.step \in {"rollback", "disarm"}
                         /\ op'.step \in {"disarm", "ok", "error"}
           /\ Committing => /\ op.step \in {"commit", "cancel", "clean"}
                            /\ op'.step \in {"cancel", "clean", "ok", "bad", "error"}
           /\ Stage \/ Undoing \/ Committing
<1>1. CASE Stage
  <2>1. GuestOnly
    BY <1>1 DEF Stage, StageRefused, StageBackup, StageInvalid, StageArm, StageInstall, StageNetworkd,
       StageWait, StageWaitEnds, StageWaitIsVain, StageLoad, StageRaises, StageRecord
  <2>2. op.step \in {"stage", "arm"} \cup Staging
    BY <1>1 DEF Stage, StageRefused, StageBackup, StageInvalid, StageArm, StageInstall, StageNetworkd,
       StageWait, StageWaitEnds, StageWaitIsVain, StageLoad, StageRaises, StageRecord, OpAt, Staging
  <2>3. \/ StageBackup \/ StageLoad
        \/ ~StageBackup /\ ~StageLoad /\ \E s \in {"ok", "bad", "error"} \cup Staging : OpGoto(s)
    BY <1>1 DEF Stage, StageRefused, StageInvalid, StageArm, StageInstall, StageNetworkd,
       StageWait, StageWaitEnds, StageWaitIsVain, StageRaises, StageRecord, Staging
  <2>4. /\ op'.step \in {"arm", "ok", "bad", "error"} \cup Staging /\ op'.policy = op.policy
        /\ ~StageBackup => op'.before = op.before
        /\ ~StageLoad => op'.converged = op.converged
    <3>1. CASE StageBackup
      BY <3>1, BackupMoves DEF StageBackup, TypeOK, Op
    <3>2. CASE StageLoad
      BY <3>2, LoadMoves DEF Staging
    <3> QED
      BY <2>3, <3>1, <3>2, OpMoves
  <2> QED
    BY <1>1, <2>1, <2>2, <2>4
       DEF GuestOnly, world, Undoing, Committing, RollbackRefused, Rollback, RollbackDisarm,
           CommitVerify, CommitRefused, CommitCancel, CommitClean, OpAt, Staging
<1>2. CASE Undoing
  <2>1. op.step \in {"rollback", "disarm"} /\ GuestOnly /\ \E s \in {"disarm", "ok", "error"} : OpGoto(s)
    BY <1>2 DEF Undoing, RollbackRefused, Rollback, RollbackDisarm, OpAt
  <2>2. ~Stage /\ ~Committing /\ ~StageBackup /\ ~StageLoad
    BY <2>1 DEF Committing, CommitVerify, CommitRefused, CommitCancel, CommitClean, OpAt,
       Stage, StageRefused, StageBackup, StageInvalid, StageArm, StageInstall, StageNetworkd,
       StageWait, StageWaitEnds, StageWaitIsVain, StageLoad, StageRaises, StageRecord
  <2> QED
    BY <1>2, <2>1, <2>2, OpMoves DEF GuestOnly, world
<1>3. CASE Committing
  <2>1. /\ op.step \in {"commit", "cancel", "clean"} /\ GuestOnly
        /\ \E s \in {"cancel", "clean", "ok", "bad", "error"} : OpGoto(s)
    BY <1>3 DEF Committing, CommitVerify, CommitRefused, CommitCancel, CommitClean, OpAt
  <2>2. ~Stage /\ ~Undoing /\ ~StageBackup /\ ~StageLoad
    BY <2>1 DEF Undoing, RollbackRefused, Rollback, RollbackDisarm, OpAt,
       Stage, StageRefused, StageBackup, StageInvalid, StageArm, StageInstall, StageNetworkd,
       StageWait, StageWaitEnds, StageWaitIsVain, StageLoad, StageRaises, StageRecord
  <2> QED
    BY <1>3, <2>1, <2>2, OpMoves DEF GuestOnly, world
<1> QED
  BY <1>1, <1>2, <1>3 DEF Guest, Undoing, Committing

\* Where each step of the backend leads.
LEMMA BackendPaths ==
    ASSUME TypeOK, BackendSteps
    PROVE  \/ Begin /\ op' = op /\ pass'.pc = "look"
           \/ Look /\ op'.step = "stage" /\ pass'.pc = "stage"
           \/ /\ Staged /\ At("stage") /\ OpAt("ok")
              /\ op'.step = "none" /\ pass'.pc = "addresses" /\ pass'.vlans = pass.vlans
              /\ op'.policy = op.policy /\ op'.before = op.before
           \/ /\ ProveAddresses /\ At("addresses") /\ op' = op /\ pass'.pc = "bridges"
              /\ pass'.fine = (Addressed = pass.vlans)
           \/ /\ ProveBridges /\ At("bridges") /\ op' = op /\ pass'.pc = "ruleset"
              /\ pass'.fine = pass.fine /\ pass'.saw = bridges
           \/ /\ ProveRuleset /\ At("ruleset") /\ pass.fine /\ table = Derived
              /\ op'.step = "commit" /\ pass'.pc = "commit"
              /\ op'.policy = op.policy /\ op'.before = op.before
           \/ /\ (At("stage") /\ OpAt("bad")) \/ Proving
              /\ op'.step = "rollback" /\ pass'.pc = "rollback"
              /\ op'.policy = op.policy /\ op'.before = op.before
           \/ op'.step = "none" /\ pass'.pc = "idle"
           \/ op' = op /\ pass'.pc = "idle"
<1>1. CASE Begin
  BY <1>1 DEF Begin
<1>2. CASE Look
  BY <1>2, LookMoves
<1>3. CASE Staged
  BY <1>3, OpMoves, PassMoves DEF Staged, Call
<1>4. CASE ProveAddresses
  BY <1>4 DEF ProveAddresses, TypeOK, Pass
<1>5. CASE ProveBridges
  BY <1>5 DEF ProveBridges, TypeOK, Pass
<1>6. CASE ProveRuleset \/ StagedBadly \/ ProveFails \/ Silent \/ Unobserved
  <2>1. \/ /\ ProveRuleset /\ At("ruleset") /\ pass.fine /\ table = Derived
           /\ OpGoto("commit") /\ Goto("commit")
        \/ ((At("stage") /\ OpAt("bad")) \/ Proving) /\ OpGoto("rollback") /\ Goto("rollback")
    BY <1>6 DEF ProveRuleset, StagedBadly, ProveFails, Silent, Unobserved, Call, Proving, At
  <2> QED
    BY <2>1, OpMoves, PassMoves
<1>7. CASE Committed \/ Undone \/ Failed
  BY <1>7, OpMoves, PassMoves DEF Committed, Undone, Failed, Call
<1>8. CASE Blocked \/ LookFails \/ GiveUp
  BY <1>8, PassMoves DEF Blocked, LookFails, GiveUp
<1> QED
  BY <1>1, <1>2, <1>3, <1>4, <1>5, <1>6, <1>7, <1>8 DEF BackendSteps, Runner

\* The world's steps touch neither side, except that a reboot ends what ran.
LEMMA WorldPaths ==
    ASSUME TypeOK, WorldSteps
    PROVE  /\ UNCHANGED <<pass, stacked>> /\ op'.policy = op.policy /\ op'.before = op.before
           /\ op'.converged = op.converged
           /\ ~Reboot => op' = op
           /\ Reboot => op'.step = (IF OpRunning THEN "error" ELSE op.step)
BY RebootMoves DEF WorldSteps, Fire, Settle, WantOther, DockerChanges, Reboot, GuestOnly

LEMMA PairNext ==
    ASSUME TypeInv, PairInv, Next
    PROVE  PairInv'
<1>0. TypeOK
  BY DEF TypeInv
<1>1. CASE Guest
  BY <1>0, <1>1, GuestPaths DEF PairInv, At, OpAt, Proving, Staging
<1>2. CASE BackendSteps
  BY <1>0, <1>2, BackendPaths, LookMoves DEF PairInv, At, OpAt, Proving, Staging
<1>3. CASE WorldSteps
  <2>1. op'.step = op.step \/ (op.step \in OpStep /\ op'.step = "error")
    BY <1>0, <1>3, WorldPaths DEF OpRunning
  <2> QED
    BY <1>0, <1>3, <2>1, WorldPaths DEF PairInv, At, OpAt, Proving, Staging, OpStep
<1> QED
  BY <1>1, <1>2, <1>3, StepsOf

LEMMA TypesHold == Spec => [](TypeInv /\ PairInv)
<1>1. Init => TypeInv /\ PairInv
  BY TypeInit DEF Init, PairInv, At, OpAt, Proving
<1>2. TypeInv /\ PairInv /\ [Next]_vars => (TypeInv /\ PairInv)'
  <2> SUFFICES ASSUME TypeInv, PairInv, [Next]_vars PROVE TypeInv' /\ PairInv'
    OBVIOUS
  <2>1. CASE Next
    BY <2>1, GuestTyped, BackendTyped, WorldTyped, PairNext, StepsOf
  <2>2. CASE UNCHANGED vars
    BY <2>2 DEF vars, TypeInv, TypeOK, PairInv, At, OpAt, Proving, OpRunning, Scripted
  <2> QED
    BY <2>1, <2>2
<1> QED
  BY <1>1, <1>2, PTL DEF Spec

\* The state keeps its types.
THEOREM AccessTypesHold == Spec => []TypeOK
BY TypesHold, PTL DEF TypeInv

-----------------------------------------------------------------------------
\* What is committed is what boots.

\* A restart would change neither links nor ruleset.
Aligned == links = units /\ (conf => table = file)

\* The timer a stage armed has not fired; its answer is still good; the backend
\* judges a transaction that is still open.
OwnTimer == timer /\ op.step \in Staging
Answered == txn # NULL /\ ((At("stage") /\ OpAt("ok")) \/ At("addresses"))
Judged == txn # NULL /\ Proving

\* A transaction that is still open when its stage has answered is all in force,
\* on disk and live; one whose addresses were those of the plan has no link more,
\* so nothing that is not aligned is committed, whatever was stacked before.
StagedInv ==
    /\ op.step \in {"install", "networkd"} => timer
    /\ (OwnTimer \/ Answered) => Restorable
    /\ ((OwnTimer /\ ~OpAt("install")) \/ Answered) => units = op.policy.vlans
    /\ ((OwnTimer /\ OpAt("record")) \/ Answered) => table = file
    /\ ((OwnTimer /\ OpAt("record") /\ op.converged) \/ Answered \/ Judged) => table = op.policy
    /\ txn # NULL /\ pass.fine /\ pass.pc \in {"bridges", "ruleset"} => Aligned
    /\ OpAt("commit") /\ txn # NULL => Aligned
    /\ op.step \in {"cancel", "clean"} => Aligned

\* The script keeps what is aligned so, wherever it stops.
LEMMA RestoreKeepsAligned ==
    ASSUME Aligned, Restore \/ RestoreStops
    PROVE  Aligned'
<1>1. CASE Restore
  <2>1. units' = (units \cup script.units) \ script.removes
    BY <1>1 DEF Restore
  <2>2. links' = (links \ script.removes) \cup units'
    BY <1>1 DEF Restore
  <2>3. links' = units'
    BY <2>1, <2>2 DEF Aligned
  <2> QED
    BY <1>1, <2>3 DEF Restore, Aligned
<1>2. CASE RestoreStops
  BY <1>2 DEF RestoreStops, Aligned
<1> QED
  BY <1>1, <1>2

LEMMA StagedByStage ==
    ASSUME TypeInv, PairInv, StagedInv, Stage
    PROVE  StagedInv'
<1>0. /\ TypeOK /\ Guest /\ ~At("addresses") /\ ~Proving /\ UNCHANGED pass /\ op'.policy = op.policy
      /\ op'.step \notin {"commit", "cancel", "clean"}
  BY GuestPaths DEF TypeInv, PairInv, Guest, At, OpAt, Proving, Staging
<1>1. /\ ~Judged' /\ (Answered' <=> txn' # NULL /\ At("stage") /\ op'.step = "ok")
      /\ ~(pass'.pc \in {"bridges", "ruleset"})
  BY <1>0 DEF Judged, Answered, Proving, At, OpAt
<1>2. CASE op'.step \notin Staging \cup {"ok"}
  BY <1>0, <1>1, <1>2 DEF StagedInv, OwnTimer, Staging, OpAt
<1>3. CASE StageArm
  <2>1. timer' = TRUE /\ (op'.step = "error" \/ op'.step = "install")
    BY <1>0, <1>3, OpMoves DEF StageArm
  <2>2. Restorable'
    BY <1>3 DEF StageArm, ArmedScript, Restorable, disk
  <2> QED
    BY <1>0, <1>1, <1>2, <2>1, <2>2 DEF StagedInv, OwnTimer, OpAt, Staging
<1>4. CASE StageInstall
  <2>1. /\ op'.step = "networkd" /\ timer /\ UNCHANGED <<backup, script, timer, txn>>
        /\ units' = op.policy.vlans /\ Restorable
    BY <1>0, <1>4, OpMoves DEF StageInstall, run, OpAt, StagedInv, OwnTimer, Staging, Rendered
  <2> QED
    BY <1>0, <1>1, <2>1 DEF StagedInv, OwnTimer, OpAt, Restorable
<1>5. CASE StageNetworkd
  <2>1. op'.step = "wait" /\ op.step = "networkd" /\ UNCHANGED <<units, backup, script, timer, txn>>
    BY <1>0, <1>5, OpMoves DEF StageNetworkd, run, OpAt
  <2> QED
    BY <1>0, <1>1, <2>1 DEF StagedInv, OwnTimer, OpAt, Restorable, Staging
<1>6. CASE StageLoad
  <2>1. /\ op'.step = "record" /\ op'.converged = (table' = op.policy) /\ op.step = "load"
        /\ table' = file /\ UNCHANGED <<units, file, backup, script, timer, txn>>
    BY <1>0, <1>6, LoadMoves DEF StageLoad, run, disk, OpAt
  <2> QED
    BY <1>0, <1>1, <2>1 DEF StagedInv, OwnTimer, OpAt, Restorable, Staging
<1>7. CASE StageRecord
  <2>1. /\ op.step = "record" /\ UNCHANGED <<units, file, table, backup, script, timer>>
        /\ op'.step = (IF op.converged /\ timer THEN "ok" ELSE "bad")
    BY <1>0, <1>7, OpMoves DEF StageRecord, disk, live, OpAt
  <2> QED
    BY <1>0, <1>1, <1>2, <2>1 DEF StagedInv, OwnTimer, OpAt, Restorable, Staging
<1>8. CASE StageWait \/ StageWaitEnds \/ StageWaitIsVain
  <2>1. op'.step = "load" /\ op.step = "wait" /\ UNCHANGED <<units, backup, script, timer, txn>>
    BY <1>0, <1>8, OpMoves DEF StageWait, StageWaitEnds, StageWaitIsVain, disk, run, OpAt
  <2> QED
    BY <1>0, <1>1, <2>1 DEF StagedInv, OwnTimer, OpAt, Restorable, Staging
<1>9. StageRefused \/ StageBackup \/ StageInvalid \/ StageRaises => op'.step \notin Staging \cup {"ok"}
  BY <1>0, BackupMoves, OpMoves DEF StageRefused, StageInvalid, StageRaises, Staging
<1> QED
  BY <1>2, <1>3, <1>4, <1>5, <1>6, <1>7, <1>8, <1>9 DEF Stage

LEMMA StagedNext ==
    ASSUME TypeInv, PairInv, StagedInv, Next
    PROVE  StagedInv'
<1>0. TypeOK
  BY DEF TypeInv
<1>1. CASE Undoing
  <2>1. /\ Guest /\ UNCHANGED pass /\ op'.step \in {"disarm", "ok", "error"}
        /\ op.step \in {"rollback", "disarm"}
    BY <1>0, <1>1, GuestPaths DEF Guest, Undoing
  <2> QED
    BY <2>1 DEF PairInv, StagedInv, OwnTimer, Answered, Judged, At, OpAt, Staging, Proving
<1>2. CASE Committing
  <2>1. /\ Guest /\ UNCHANGED pass /\ op'.step \in {"cancel", "clean", "ok", "bad", "error"}
        /\ op.step \in {"commit", "cancel", "clean"}
    BY <1>0, <1>2, GuestPaths DEF Guest, Committing
  <2>2. UNCHANGED <<conf, file, units, table, links>>
    BY <1>2 DEF Committing, CommitVerify, CommitRefused, CommitCancel, CommitClean, disk, live
  <2>3. op'.step \in {"cancel", "clean"} => Aligned
    BY <1>0, <1>2, OpMoves
       DEF Committing, CommitVerify, CommitRefused, CommitCancel, CommitClean, StagedInv, OpAt
  <2> QED
    BY <2>1, <2>2, <2>3
       DEF PairInv, StagedInv, OwnTimer, Answered, Judged, At, OpAt, Staging, Proving, Aligned
<1>3. CASE BackendSteps
  <2>1. UNCHANGED <<conf, file, units, table, links, settled, backup, script, txn, timer>>
    BY <1>3, BackendTyped DEF BackendOnly, disk, live, run
  <2>2. (Restorable' <=> Restorable) /\ (Aligned' <=> Aligned)
    BY <2>1 DEF Restorable, Aligned
  <2>3. CASE Staged
    BY <1>0, <1>3, <2>1, <2>2, <2>3, OpMoves, PassMoves
       DEF Staged, Call, StagedInv, OwnTimer, Answered, Judged, At, OpAt, Staging, Proving
  <2>4. CASE ProveAddresses
    <3>1. /\ At("addresses") /\ op' = op /\ pass'.pc = "bridges" /\ op.step = "none"
          /\ pass'.fine = (Addressed = pass.vlans) /\ op.policy.vlans = pass.vlans
      BY <1>0, <2>4 DEF ProveAddresses, TypeOK, Pass, PairInv, At, OpAt, Proving
    <3>2. ASSUME txn # NULL, Addressed = pass.vlans PROVE Aligned
      <4>1. units = pass.vlans /\ table = file
        BY <3>1, <3>2 DEF StagedInv, Answered
      <4>2. Addressed = links \/ Addressed = links \ units
        BY DEF Addressed
      <4>3. links = units
        BY <3>2, <4>1, <4>2
      <4> QED
        BY <4>1, <4>3 DEF Aligned
    <3> QED
      BY <2>1, <2>2, <3>1, <3>2
         DEF StagedInv, OwnTimer, Answered, Judged, At, OpAt, Staging, Proving
  <2>5. CASE ~Staged /\ ~ProveAddresses
    BY <1>0, <1>3, <2>1, <2>2, <2>5, BackendPaths
       DEF StagedInv, OwnTimer, Answered, Judged, At, OpAt, Staging, Proving, PairInv
  <2> QED
    BY <2>3, <2>4, <2>5
<1>4. CASE Fire
  <2>1. /\ UNCHANGED <<op, pass, backup, script>> /\ timer' = FALSE
        /\ op.step \notin {"install", "networkd"}
    BY <1>4 DEF Fire, GuestOnly
  <2>2. Aligned => Aligned'
    BY <1>4, RestoreKeepsAligned DEF Fire
  <2>3. txn' # NULL => txn # NULL /\ ~Restorable /\ UNCHANGED table
    BY <1>4 DEF Fire, Restore, RestoreStops
  <2> QED
    BY <2>1, <2>2, <2>3 DEF StagedInv, OwnTimer, Answered, Judged, At, OpAt, Staging, Proving
<1>5. CASE Reboot
  <2>1. /\ timer' = FALSE /\ txn' = NULL
        /\ op'.step \notin {"install", "networkd", "cancel", "clean"}
    BY <1>0, <1>5, RebootMoves DEF Reboot, OpRunning, OpStep
  <2> QED
    BY <2>1 DEF StagedInv, OwnTimer, Answered, Judged
<1>6. CASE Settle \/ WantOther \/ DockerChanges
  <2>1. UNCHANGED <<op, pass, conf, file, units, table, links, backup, script, txn, timer>>
    BY <1>6 DEF Settle, WantOther, DockerChanges, GuestOnly, disk, live, run
  <2> QED
    BY <2>1
       DEF StagedInv, OwnTimer, Answered, Judged, At, OpAt, Proving, Aligned, Restorable
<1> QED
  BY <1>1, <1>2, <1>3, <1>4, <1>5, <1>6, StagedByStage, StepsOf
     DEF WorldSteps, Guest, Undoing, Committing

-----------------------------------------------------------------------------
\* What is committed was rendered for bridges Docker had meanwhile.

CurrentInv ==
    /\ pass.pc \in {"addresses", "bridges"} => bridges \in had
    /\ At("ruleset") => pass.saw \in had
    /\ At("commit") /\ OpAt("commit") /\ txn # NULL => op.policy.bridges \in had
    /\ At("commit") /\ op.step \in {"cancel", "clean", "ok"} => op.policy.bridges \in had

LEMMA CurrentNext ==
    ASSUME TypeInv, PairInv, StagedInv, CurrentInv, Next
    PROVE  CurrentInv'
<1>0. TypeOK
  BY DEF TypeInv
<1>1. CASE Guest
  <2>1. UNCHANGED <<pass, had, bridges>> /\ op'.policy = op.policy
    BY <1>0, <1>1, GuestPaths
  <2>2. CASE ~Committing
    BY <1>0, <1>1, <2>1, <2>2, GuestPaths DEF CurrentInv, PairInv, At, OpAt, Staging
  <2>3. CASE Committing
    <3>1. /\ op'.step # "commit"
          /\ op'.step \in {"cancel", "clean", "ok"} =>
                op.step \in {"cancel", "clean"} \/ (op.step = "commit" /\ txn # NULL)
      BY <1>0, <2>3, OpMoves
         DEF Committing, CommitVerify, CommitRefused, CommitCancel, CommitClean, OpAt
    <3> QED
      BY <2>1, <3>1 DEF CurrentInv, At, OpAt
  <2> QED
    BY <2>2, <2>3
<1>2. CASE BackendSteps
  <2>1. UNCHANGED <<bridges, txn, table>>
    BY <1>2, BackendTyped DEF BackendOnly, world, live, run
  <2>2. CASE Staged
    BY <1>0, <1>2, <2>1, <2>2, OpMoves, PassMoves DEF Staged, Call, CurrentInv, At, OpAt
  <2>3. CASE ~Staged
    <3>1. UNCHANGED had
      BY <1>2, <2>3
         DEF BackendSteps, Runner, Begin, Look, StagedBadly, ProveAddresses, ProveBridges, ProveRuleset,
             Committed, Undone, Failed, Blocked, LookFails, ProveFails, Silent, Unobserved, GiveUp
    <3>2. ASSUME At("ruleset"), table = Derived, txn # NULL PROVE op.policy.bridges = pass.saw
      BY <3>2 DEF StagedInv, Judged, Proving, At, Derived
    <3> QED
      BY <1>0, <1>2, <2>1, <2>3, <3>1, <3>2, BackendPaths DEF CurrentInv, At, OpAt
  <2> QED
    BY <2>2, <2>3
<1>3. CASE WorldSteps
  <2>1. had \subseteq had' /\ (bridges \in had => bridges' \in had') /\ (txn' # NULL => txn # NULL)
    BY <1>3 DEF WorldSteps, Fire, Settle, WantOther, DockerChanges, Reboot, GuestOnly, world, run,
       Restore, RestoreStops
  <2>2. UNCHANGED pass /\ op'.policy = op.policy /\ (op'.step = op.step \/ op'.step = "error")
    BY <1>0, <1>3, WorldPaths
  <2> QED
    BY <2>1, <2>2 DEF CurrentInv, At, OpAt
<1> QED
  BY <1>1, <1>2, <1>3, StepsOf

StagedIsCurrent == TypeInv /\ PairInv /\ StagedInv /\ CurrentInv

LEMMA CurrentHolds == Init => StagedIsCurrent
<1> SUFFICES ASSUME Init PROVE StagedIsCurrent
  OBVIOUS
<1>1. TypeInv /\ PairInv
  BY TypeInit DEF Init, PairInv, At, OpAt, Proving
<1>2. StagedInv /\ CurrentInv
  BY DEF Init, StagedInv, CurrentInv, OwnTimer, Answered, Judged, At, OpAt, Staging
<1> QED
  BY <1>1, <1>2 DEF StagedIsCurrent

LEMMA CurrentSteps == StagedIsCurrent /\ [Next]_vars => StagedIsCurrent'
<1> SUFFICES ASSUME TypeInv, PairInv, StagedInv, CurrentInv, [Next]_vars PROVE StagedIsCurrent'
  BY DEF StagedIsCurrent
<1>1. CASE Next
  BY <1>1, GuestTyped, BackendTyped, WorldTyped, PairNext, StagedNext, CurrentNext, StepsOf
     DEF StagedIsCurrent
<1>2. CASE UNCHANGED vars
  BY <1>2 DEF vars, StagedIsCurrent, TypeInv, TypeOK, PairInv, StagedInv, CurrentInv, OwnTimer,
     Answered, Judged, At, OpAt, Proving, OpRunning, Scripted, Aligned, Restorable
<1> QED
  BY <1>1, <1>2

\* An apply that succeeds leaves a ruleset for bridges Docker had after it was
\* staged: whatever fired, failed or was abandoned, and whatever was stacked.
THEOREM ProofsAreCurrent == Spec => ProofIsCurrent
<1>1. StagedIsCurrent /\ [Next]_vars => [Committed => op.policy.bridges \in had]_vars
  BY DEF StagedIsCurrent, CurrentInv, Committed, OpAt
<1> QED
  BY <1>1, CurrentHolds, CurrentSteps, PTL DEF Spec, ProofIsCurrent

-----------------------------------------------------------------------------
\* A restart changes nothing.

\* The script takes away the links of the units it takes away, and no other is
\* without a unit.
Undoable == Restorable /\ links \ script.removes \subseteq units \cup script.units

SafeInv ==
    /\ Aligned \/ (timer /\ Undoable)
    /\ OpAt("arm") => ~timer /\ backup = [file |-> file, units |-> units]
    /\ OpAt("install") => Undoable /\ script.units = links
    /\ OpAt("networkd") => Undoable
    /\ OpAt("disarm") => Aligned

LEMMA RestoreAligns ==
    ASSUME Aligned \/ Undoable, Restore
    PROVE  Aligned'
<1>1. CASE Aligned
  BY <1>1, RestoreKeepsAligned
<1>2. CASE Undoable
  <2>1. links' = (links \ script.removes) \cup units' /\ units' = (units \cup script.units) \ script.removes
    BY DEF Restore
  <2>2. links \ script.removes \subseteq units'
    BY <1>2, <2>1 DEF Undoable
  <2> QED
    BY <2>1, <2>2 DEF Restore, Aligned
<1> QED
  BY <1>1, <1>2

LEMMA SafeByStage ==
    ASSUME TypeInv, PairInv, StagedInv, SafeInv, ~stacked', Stage
    PROVE  SafeInv'
<1>0. TypeOK /\ op'.policy = op.policy /\ op'.step # "disarm"
  BY GuestPaths DEF TypeInv, Guest, Staging
<1>1. CASE StageBackup
  <2>1. ~timer /\ backup' = [file |-> file, units |-> units] /\ UNCHANGED <<disk, live, timer>>
    BY <1>1 DEF StageBackup
  <2> QED
    BY <1>0, <1>1, <2>1, BackupMoves DEF SafeInv, OpAt, Aligned, disk, live
<1>2. CASE StageArm
  <2>1. ~timer /\ Aligned /\ backup = [file |-> file, units |-> units]
    BY <1>2 DEF StageArm, SafeInv
  <2>2. timer' /\ UNCHANGED <<conf, file, units, table, links, backup>> /\ script' = ArmedScript
    BY <1>2 DEF StageArm, disk, live
  <2>3. Undoable' /\ script'.units = links'
    BY <2>1, <2>2 DEF Undoable, Restorable, ArmedScript, Aligned
  <2>4. op'.step \in {"error", "install"}
    BY <1>0, <1>2, OpMoves DEF StageArm
  <2> QED
    BY <2>2, <2>3, <2>4 DEF SafeInv, OpAt
<1>3. CASE StageInstall
  <2>1. timer' /\ op'.step = "networkd" /\ UNCHANGED <<links, backup, script>>
    BY <1>0, <1>3, OpMoves DEF StageInstall, live, run, StagedInv, OpAt
  <2>2. Undoable'
    BY <1>3, <2>1 DEF StageInstall, SafeInv, Undoable, Restorable
  <2> QED
    BY <2>1, <2>2 DEF SafeInv, OpAt
<1>4. CASE StageNetworkd
  <2>1. timer' /\ op'.step = "wait" /\ UNCHANGED <<units, backup, script>> /\ links' \subseteq links \cup units
    BY <1>0, <1>4, OpMoves DEF StageNetworkd, run, StagedInv, OpAt, ReloadedLinks
  <2>2. Undoable'
    BY <1>4, <2>1 DEF StageNetworkd, SafeInv, Undoable, Restorable
  <2> QED
    BY <2>1, <2>2 DEF SafeInv, OpAt
<1>5. CASE StageLoad
  <2>1. /\ op'.step = "record" /\ UNCHANGED <<conf, file, units, links, backup, script, timer>>
        /\ table' = file
    BY <1>0, <1>5, LoadMoves DEF StageLoad, disk, run
  <2> QED
    BY <2>1 DEF SafeInv, OpAt, Aligned, Undoable, Restorable
<1>6. CASE ~StageBackup /\ ~StageArm /\ ~StageInstall /\ ~StageNetworkd /\ ~StageLoad
  <2>1. /\ UNCHANGED <<conf, file, units, table, links, backup, script, timer>>
        /\ op'.step \in {"load", "ok", "bad", "error"}
    BY <1>0, <1>6, OpMoves
       DEF Stage, StageRefused, StageInvalid, StageWait, StageWaitEnds, StageWaitIsVain, StageRaises,
           StageRecord, disk, live, run
  <2> QED
    BY <2>1 DEF SafeInv, OpAt, Aligned, Undoable, Restorable
<1> QED
  BY <1>1, <1>2, <1>3, <1>4, <1>5, <1>6

LEMMA SafeNext ==
    ASSUME TypeInv, PairInv, StagedInv, stacked \/ SafeInv, Next
    PROVE  (stacked \/ SafeInv)'
<1>0. TypeOK
  BY DEF TypeInv
<1>1. SUFFICES ASSUME ~stacked' PROVE SafeInv'
  OBVIOUS
<1>2. CASE CommitClean
  <2>1. Aligned /\ UNCHANGED <<conf, file, units, table, links>> /\ op'.step \in {"bad", "ok"}
    BY <1>0, <1>2, OpMoves DEF CommitClean, StagedInv, OpAt, disk, live
  <2> QED
    BY <2>1 DEF SafeInv, OpAt, Aligned
<1>3. CASE ~CommitClean
  <2>0. ~stacked
    BY <1>1, <1>3, StepsOf, BackendTyped, WorldPaths, <1>0
       DEF Guest, Stage, StageRefused, StageBackup, StageInvalid, StageArm, StageInstall,
           StageNetworkd, StageWait, StageWaitEnds, StageWaitIsVain, StageLoad, StageRaises,
           StageRecord, RollbackRefused, Rollback, RollbackDisarm, CommitVerify, CommitRefused,
           CommitCancel, BackendOnly
  <2>1. SafeInv
    BY <2>0
  <2>2. CASE Undoing
    <3>1. CASE Rollback
      <4>1. Aligned'
        BY <2>1, <3>1, RestoreAligns DEF Rollback, SafeInv
      <4>2. op'.step = "disarm"
        BY <1>0, <3>1, OpMoves DEF Rollback
      <4> QED
        BY <4>1, <4>2 DEF SafeInv, OpAt
    <3>2. CASE RollbackRefused \/ RollbackDisarm
      <4>1. /\ UNCHANGED <<conf, file, units, table, links, backup, script>>
            /\ op'.step \in {"error", "ok"}
            /\ timer' # timer => OpAt("disarm")
        BY <1>0, <3>2, OpMoves DEF RollbackRefused, RollbackDisarm, disk, live, run
      <4> QED
        BY <1>0, <2>1, <4>1, <3>2 DEF SafeInv, OpAt, Aligned, Undoable, Restorable, RollbackDisarm, Disarm,
           RollbackRefused, run
    <3> QED
      BY <2>2, <3>1, <3>2 DEF Undoing
  <2>3. CASE Committing
    <3>1. /\ UNCHANGED <<conf, file, units, table, links, backup, script>>
          /\ op'.step \in {"cancel", "clean", "error"}
          /\ UNCHANGED timer \/ OpAt("cancel")
      BY <1>0, <1>3, <2>3, OpMoves DEF Committing, CommitVerify, CommitRefused, CommitCancel, disk, live, run
    <3>2. OpAt("cancel") => Aligned
      BY DEF StagedInv, OpAt
    <3> QED
      BY <2>1, <3>1, <3>2 DEF SafeInv, OpAt, Aligned, Undoable, Restorable
  <2>4. CASE BackendSteps
    <3>1. UNCHANGED <<conf, file, units, table, links, backup, script, timer>>
      BY <2>4, BackendTyped DEF BackendOnly, disk, live, run
    <3>2. op' = op \/ op'.step \in {"stage", "none", "commit", "rollback"}
      BY <1>0, <2>4, BackendPaths
    <3> QED
      BY <2>1, <3>1, <3>2 DEF SafeInv, OpAt, Aligned, Undoable, Restorable
  <2>5. CASE Fire
    <3>1. /\ UNCHANGED op /\ timer /\ op.step \notin {"install", "networkd"}
      BY <2>5 DEF Fire
    <3>2. Aligned'
      BY <2>1, <2>5, RestoreAligns, RestoreKeepsAligned DEF Fire, SafeInv, Undoable
    <3> QED
      BY <2>1, <3>1, <3>2 DEF SafeInv, OpAt
  <2>6. CASE Reboot
    <3>1. op'.step \notin OpStep
      BY <1>0, <2>6, RebootMoves DEF OpRunning
    <3>2. Aligned'
      BY <2>6 DEF Reboot, Aligned, BootTable, disk
    <3> QED
      BY <3>1, <3>2 DEF SafeInv, OpAt, OpStep
  <2>7. CASE Settle \/ WantOther \/ DockerChanges
    <3>1. UNCHANGED <<op, conf, file, units, table, links, backup, script, timer>>
      BY <2>7 DEF Settle, WantOther, DockerChanges, GuestOnly, disk, live, run
    <3> QED
      BY <2>1, <3>1 DEF SafeInv, OpAt, Aligned, Undoable, Restorable
  <2> QED
    BY <1>1, <2>1, <2>2, <2>3, <2>4, <2>5, <2>6, <2>7, SafeByStage, StepsOf
       DEF Guest, Undoing, Committing, WorldSteps
<1> QED
  BY <1>2, <1>3

SafeHolds == StagedIsCurrent /\ (stacked \/ SafeInv)

LEMMA SafeSteps == SafeHolds /\ [Next]_vars => SafeHolds'
<1> SUFFICES ASSUME StagedIsCurrent, stacked \/ SafeInv, [Next]_vars PROVE SafeHolds'
  BY DEF SafeHolds
<1>1. StagedIsCurrent'
  BY CurrentSteps
<1>2. (stacked \/ SafeInv)'
  <2>1. CASE Next
    BY <2>1, SafeNext DEF StagedIsCurrent
  <2>2. CASE UNCHANGED vars
    BY <2>2 DEF vars, SafeInv, OpAt, Aligned, Undoable, Restorable
  <2> QED
    BY <2>1, <2>2
<1> QED
  BY <1>1, <1>2 DEF SafeHolds

LEMMA SafeInit == Init => SafeHolds
<1> SUFFICES ASSUME Init PROVE SafeHolds
  OBVIOUS
<1>1. Aligned
  BY DEF Init, Aligned
<1> QED
  BY <1>1, CurrentHolds DEF SafeHolds, SafeInv, Init, OpAt

\* With no transaction open a restart changes nothing: every VLAN link is of a
\* unit, and the ruleset in force is the one on disk, after commits, rollbacks,
\* timers and reboots in the middle of any of them.
THEOREM BootsHold == Spec => []BootsAsItRuns
<1>1. SafeHolds => BootsAsItRuns
  BY DEF SafeHolds, SafeInv, BootsAsItRuns, AtRest, Aligned
<1> QED
  BY <1>1, SafeInit, SafeSteps, PTL DEF Spec

-----------------------------------------------------------------------------
\* What is reported as rolled back is.

\* Script and backup are of what the stage found, which a restart would not have
\* changed; nothing is on the guest that is neither of that nor of the plan.
Matches ==
    /\ backup = [file |-> op.before.file, units |-> op.before.units]
    /\ script = [copies |-> op.before.file # Absent, units |-> op.before.units,
                 removes |-> op.policy.vlans \ op.before.units, include |-> ~op.before.conf]

Within ==
    /\ units \subseteq op.before.units \cup op.policy.vlans
    /\ links \subseteq op.before.units \cup op.policy.vlans
    /\ op.before.conf => conf

Sound ==
    /\ op.before.conf \in BOOLEAN
    /\ op.before.links = op.before.units
    /\ op.before.conf => op.before.table = op.before.file

\* The guest is as the stage found it.
Undid ==
    /\ conf = op.before.conf /\ file = op.before.file
    /\ units = op.before.units /\ links = op.before.links
    /\ conf => table = op.before.table

\* A rollback may come; one has come.
Revocable ==
    \/ op.step \in Staging
    \/ txn # NULL /\ \/ At("stage") /\ op.step \in {"ok", "bad"}
                     \/ Proving
                     \/ OpAt("rollback")

Revoked == OpAt("disarm") \/ (At("rollback") /\ OpAt("ok"))

UndoInv ==
    /\ OpAt("arm") => op.before = Snapshot
    /\ Revocable => Matches /\ Within /\ Sound
    /\ Revoked => Undid /\ Sound /\ (timer => Matches)

\* The script undoes what the transaction did, and once more what is undone.
LEMMA RestoreUndoes ==
    ASSUME TypeOK, Matches, Sound, Within \/ Undid, Restore,
           op'.before = op.before, op'.policy = op.policy
    PROVE  Undid' /\ Within'
<1> DEFINE old == op.before
<1>1. units \subseteq old.units \cup op.policy.vlans /\ links \subseteq old.units \cup op.policy.vlans
  BY DEF Within, Undid, Sound
<1>2. units' = (units \cup old.units) \ (op.policy.vlans \ old.units)
  BY DEF Restore, Matches
<1>3. links' = (links \ (op.policy.vlans \ old.units)) \cup units'
  BY DEF Restore, Matches
<1>4. units' = old.units /\ links' = old.units
  BY <1>1, <1>2, <1>3
<1>5. file' = old.file /\ table' = old.file
  BY DEF Restore, Matches
<1>6. conf' = old.conf
  BY DEF Restore, Matches, Within, Undid, Sound, TypeOK
<1> QED
  BY <1>4, <1>5, <1>6 DEF Undid, Within, Sound

LEMMA MatchesRestorable == Matches => Restorable
<1> SUFFICES ASSUME Matches PROVE Restorable
  OBVIOUS
<1>1. script.units = backup.units
  BY DEF Matches
<1>2. script.copies = (backup.file # Absent)
  BY Zenon DEF Matches
<1> QED
  BY <1>1, <1>2 DEF Restorable

\* What a step that leaves the transaction alone keeps.
LEMMA SameTransaction ==
    ASSUME op'.before = op.before, op'.policy = op.policy
    PROVE  /\ UNCHANGED <<backup, script>> => (Matches' <=> Matches)
           /\ UNCHANGED <<conf, units, links>> => (Within' <=> Within)
           /\ Sound' <=> Sound
           /\ UNCHANGED <<conf, file, units, table, links>> => (Undid' <=> Undid)
BY DEF Matches, Within, Sound, Undid

LEMMA UndoByStage ==
    ASSUME TypeInv, PairInv, SafeInv, UndoInv, ~stacked', Stage
    PROVE  UndoInv'
<1>0. /\ TypeOK /\ op'.policy = op.policy /\ ~Revoked' /\ ~Proving' /\ UNCHANGED pass
      /\ ~StageBackup => op'.before = op.before
      /\ op'.step # "rollback"
  BY GuestPaths DEF TypeInv, Guest, Staging, PairInv, Revoked, At, OpAt, Proving
<1>1. CASE StageBackup
  <2>1. op'.step = "arm" /\ op'.before = Snapshot /\ UNCHANGED <<disk, live>>
    BY <1>0, <1>1, BackupMoves DEF StageBackup
  <2>2. Snapshot' = Snapshot
    BY <2>1 DEF Snapshot, disk, live
  <2> QED
    BY <1>0, <2>1, <2>2 DEF UndoInv, Revocable, OpAt, Staging
<1>2. CASE StageArm
  <2>1. ~timer /\ Aligned /\ backup = [file |-> file, units |-> units] /\ op.before = Snapshot
    BY <1>2 DEF StageArm, SafeInv, UndoInv
  <2>2. /\ UNCHANGED <<conf, file, units, table, links, backup>> /\ script' = ArmedScript
        /\ op'.before = op.before /\ op'.step \in {"install", "error"}
    BY <1>0, <1>2, OpMoves DEF StageArm, disk, live, StageBackup, OpAt
  <2>3. /\ op'.before.conf = conf /\ op'.before.file = file /\ op'.before.units = units
        /\ op'.before.links = units /\ (conf => op'.before.table = file) /\ links = units
    BY <2>1, <2>2 DEF Snapshot, Aligned
  <2>4. Matches'
    BY <1>0, <2>1, <2>2, <2>3 DEF Matches, ArmedScript
  <2>5. Within' /\ Sound'
    BY <1>0, <2>2, <2>3 DEF Within, Sound, TypeOK
  <2> QED
    BY <1>0, <2>2, <2>4, <2>5 DEF UndoInv, OpAt
<1>3. ASSUME op.step \in Staging, UNCHANGED <<backup, script>>, Within', op'.before = op.before,
             op'.step # "arm"
      PROVE  UndoInv'
  <2>1. Matches' /\ Sound'
    BY <1>0, <1>3, SameTransaction DEF UndoInv, Revocable
  <2> QED
    BY <1>0, <1>3, <2>1 DEF UndoInv, OpAt
<1>4. CASE StageInstall
  <2>1. /\ op.step \in Staging /\ UNCHANGED <<conf, links, backup, script>>
        /\ units' = op.policy.vlans /\ op'.step = "networkd" /\ op'.before = op.before
    BY <1>0, <1>4, OpMoves DEF StageInstall, live, run, OpAt, Staging, Rendered
  <2>2. Within'
    BY <1>0, <2>1 DEF UndoInv, Revocable, Within
  <2> QED
    BY <1>3, <2>1, <2>2
<1>5. CASE StageNetworkd
  <2>1. /\ op.step \in Staging /\ UNCHANGED <<units, backup, script>> /\ conf' = TRUE
        /\ links' \subseteq links \cup units /\ op'.step = "wait" /\ op'.before = op.before
    BY <1>0, <1>5, OpMoves DEF StageNetworkd, run, OpAt, Staging, ReloadedLinks, EnsureInclude
  <2>2. Within'
    BY <1>0, <2>1 DEF UndoInv, Revocable, Within
  <2> QED
    BY <1>3, <2>1, <2>2
<1>6. CASE ~StageBackup /\ ~StageArm /\ ~StageInstall /\ ~StageNetworkd
  <2>1. /\ UNCHANGED <<conf, units, links, backup, script>> /\ op'.before = op.before
        /\ op'.step # "arm"
        /\ op'.step \in Staging \cup {"ok", "bad"} => op.step \in Staging
    BY <1>0, <1>6, LoadMoves, OpMoves
       DEF Stage, StageRefused, StageInvalid, StageWait, StageWaitEnds, StageWaitIsVain, StageRaises,
           StageLoad, StageRecord, disk, live, run, OpAt, Staging
  <2>2. CASE op.step \in Staging
    BY <1>0, <1>3, <2>1, <2>2, SameTransaction DEF UndoInv, Revocable
  <2>3. CASE op.step \notin Staging
    BY <1>0, <2>1, <2>3 DEF UndoInv, Revocable, OpAt
  <2> QED
    BY <2>2, <2>3
<1> QED
  BY <1>1, <1>2, <1>4, <1>5, <1>6

LEMMA UndoNext ==
    ASSUME TypeInv, PairInv, stacked \/ (SafeInv /\ UndoInv), Next
    PROVE  (stacked \/ UndoInv)'
<1>0. TypeOK
  BY DEF TypeInv
<1>1. SUFFICES ASSUME ~stacked' PROVE UndoInv'
  OBVIOUS
<1>2. CASE Committing
  <2>1. /\ UNCHANGED pass /\ op.step \in {"commit", "cancel", "clean"}
        /\ op'.step \in {"cancel", "clean", "ok", "bad", "error"}
    BY <1>0, <1>2, GuestPaths DEF Guest, Committing
  <2> QED
    BY <2>1 DEF PairInv, UndoInv, Revocable, Revoked, At, OpAt, Staging, Proving
<1>3. CASE ~Committing
  <2>0. ~stacked
    BY <1>0, <1>1, <1>3, StepsOf, BackendTyped, WorldPaths
       DEF Guest, Stage, StageRefused, StageBackup, StageInvalid, StageArm, StageInstall,
           StageNetworkd, StageWait, StageWaitEnds, StageWaitIsVain, StageLoad, StageRaises,
           StageRecord, RollbackRefused, Rollback, RollbackDisarm, Committing, BackendOnly
  <2>1. SafeInv /\ UndoInv
    BY <2>0
  <2>2. CASE Undoing
    <3>1. /\ UNCHANGED pass /\ op'.policy = op.policy /\ op'.before = op.before
          /\ op.step \in {"rollback", "disarm"} /\ op'.step \in {"disarm", "ok", "error"}
      BY <1>0, <2>2, GuestPaths DEF Guest, Undoing, StageBackup, OpAt
    <3>2. ~Revocable' /\ op'.step # "arm"
      BY <3>1 DEF Revocable, PairInv, At, OpAt, Staging, Proving
    <3>3. CASE Rollback
      <4>1. Matches /\ Within /\ Sound
        BY <2>1, <3>3 DEF Rollback, UndoInv, Revocable
      <4>2. Undid'
        BY <1>0, <3>1, <3>3, <4>1, RestoreUndoes DEF Rollback
      <4> QED
        BY <3>1, <3>2, <3>3, <4>1, <4>2, SameTransaction DEF Rollback, UndoInv, OpAt
    <3>4. CASE RollbackRefused \/ RollbackDisarm
      <4>1. /\ UNCHANGED <<conf, file, units, table, links, backup, script>> /\ (timer' => timer)
            /\ op'.step = "ok" => op.step = "disarm"
        BY <1>0, <3>4, OpMoves DEF RollbackRefused, RollbackDisarm, Disarm, disk, live, run, OpAt
      <4>2. op'.step # "disarm"
        BY <1>0, <3>4, OpMoves DEF RollbackRefused, RollbackDisarm
      <4> QED
        BY <2>1, <3>1, <3>2, <4>1, <4>2, SameTransaction DEF UndoInv, Revoked, OpAt
    <3> QED
      BY <2>2, <3>3, <3>4 DEF Undoing
  <2>3. CASE BackendSteps
    <3>1. UNCHANGED <<conf, file, units, table, links, backup, script, txn, timer>>
      BY <2>3, BackendTyped DEF BackendOnly, disk, live, run
    <3>2. CASE op'.step = "stage" \/ (op'.step = "none" /\ pass'.pc = "idle")
      BY <3>2, PairNext DEF PairInv, UndoInv, Revocable, Revoked, OpAt, At, Proving, Staging
    <3>3. CASE op' = op
      <4>1. Snapshot' = Snapshot
        BY <3>1 DEF Snapshot
      <4>2. Revocable' => Revocable
        BY <1>0, <2>3, <3>1, <3>3, BackendPaths DEF Revocable, OpAt, At, Proving, Staging
      <4>3. Revoked' => Revoked
        BY <1>0, <2>3, <3>3, BackendPaths DEF Revoked, OpAt, At
      <4> QED
        BY <2>1, <3>1, <3>3, <4>1, <4>2, <4>3, SameTransaction DEF UndoInv, OpAt
    <3>4. CASE /\ ~(op'.step = "stage" \/ (op'.step = "none" /\ pass'.pc = "idle"))
               /\ op' # op
      <4>1. /\ op'.policy = op.policy /\ op'.before = op.before
            /\ op'.step \in {"none", "commit", "rollback"}
            /\ (At("stage") /\ op.step \in {"ok", "bad"}) \/ Proving
        BY <1>0, <2>3, <3>4, BackendPaths DEF OpAt, At, Proving
      <4>2. Revocable' => Revocable
        BY <3>1, <4>1 DEF Revocable, Staging
      <4> QED
        BY <2>1, <3>1, <4>1, <4>2, SameTransaction DEF UndoInv, Revoked, OpAt
    <3> QED
      BY <3>2, <3>3, <3>4
  <2>4. CASE Fire
    <3>1. UNCHANGED <<op, pass, backup, script>> /\ timer' = FALSE /\ ~OpAt("arm") /\ timer
      BY <2>1, <2>4 DEF Fire, SafeInv, GuestOnly
    <3>2. Revocable' => Revocable
      BY <2>4, <3>1 DEF Fire, Restore, RestoreStops, Revocable, OpAt, At, Proving
    <3>3. Revoked' => Revoked
      BY <3>1 DEF Revoked, OpAt, At
    <3>4. ASSUME Matches, Sound, Within \/ Undid PROVE Undid' /\ Within' /\ Matches' /\ Sound'
      <4>1. Restore
        BY <2>4, <3>4, MatchesRestorable DEF Fire
      <4> QED
        BY <1>0, <3>1, <3>4, <4>1, RestoreUndoes, SameTransaction
    <3> QED
      BY <2>1, <3>1, <3>2, <3>3, <3>4 DEF UndoInv, OpAt
  <2>5. CASE Reboot
    <3>1. /\ UNCHANGED <<conf, file, units, pass>> /\ timer' = FALSE /\ txn' = NULL
          /\ op'.before = op.before /\ op'.policy = op.policy
          /\ op'.step \notin OpStep /\ (op'.step = op.step \/ op'.step = "error")
          /\ links' = units /\ (conf => table' = file)
      BY <1>0, <2>5, RebootMoves DEF Reboot, GuestOnly, disk, BootTable, OpRunning
    <3>2. ~Revocable' /\ ~OpAt("arm")'
      BY <3>1 DEF Revocable, Staging, OpStep, OpAt
    <3>3. Revoked' => Revoked
      BY <3>1 DEF Revoked, OpAt, At, OpStep
    <3>4. Undid /\ Sound => Undid'
      BY <3>1 DEF Undid, Sound
    <3> QED
      BY <2>1, <3>1, <3>2, <3>3, <3>4, SameTransaction DEF UndoInv
  <2>6. CASE Settle \/ WantOther \/ DockerChanges
    <3>1. UNCHANGED <<op, pass, conf, file, units, table, links, backup, script, txn, timer>>
      BY <2>6 DEF Settle, WantOther, DockerChanges, GuestOnly, disk, live, run
    <3>2. /\ Revocable' = Revocable /\ Revoked' = Revoked /\ Snapshot' = Snapshot
      BY <3>1 DEF Revocable, Revoked, OpAt, At, Proving, Snapshot
    <3> QED
      BY <2>1, <3>1, <3>2, SameTransaction DEF UndoInv, OpAt
  <2> QED
    BY <1>1, <1>3, <2>1, <2>2, <2>3, <2>4, <2>5, <2>6, UndoByStage, StepsOf
       DEF Guest, Undoing, Committing, WorldSteps
<1> QED
  BY <1>2, <1>3

\* An apply that is reported as rolled back has left the guest as its stage found
\* it, on every surface and at the next boot, whatever fired or rebooted between.
THEOREM UndoneHolds == Spec => UndoneIsUndone
<1> DEFINE UInv == SafeHolds /\ (stacked \/ UndoInv)
<1> DEFINE A == Undone /\ ~stacked =>
        /\ conf = op.before.conf /\ file = op.before.file
        /\ units = op.before.units /\ links = op.before.links
        /\ conf => table = op.before.table
<1>1. Init => UInv
  <2> SUFFICES ASSUME Init PROVE UInv
    OBVIOUS
  <2>1. UndoInv
    BY DEF Init, UndoInv, Revocable, Revoked, OpAt, Staging
  <2> QED
    BY <2>1, SafeInit
<1>2. UInv /\ [Next]_vars => UInv'
  <2> SUFFICES ASSUME SafeHolds, stacked \/ UndoInv, [Next]_vars PROVE UInv'
    OBVIOUS
  <2>1. SafeHolds'
    BY SafeSteps
  <2>2. CASE Next
    BY <2>1, <2>2, UndoNext DEF SafeHolds, StagedIsCurrent
  <2>3. CASE UNCHANGED vars
    BY <2>1, <2>3 DEF vars, UndoInv, Revocable, Revoked, OpAt, At, Proving, Snapshot, Matches, Within,
       Sound, Undid
  <2> QED
    BY <2>2, <2>3
<1>3. UInv /\ [Next]_vars => [A]_vars
  BY DEF UndoInv, Revoked, Undone, Undid, OpAt
<1> QED
  BY <1>1, <1>2, <1>3, PTL DEF Spec, UndoneIsUndone

=============================================================================
