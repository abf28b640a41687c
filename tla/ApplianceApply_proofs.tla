------------------------- MODULE ApplianceApply_proofs -------------------------
(***************************************************************************)
(* For every number of applies, revisions, labs and domains, unless a      *)
(* stage began on top of an unfinished one:                                *)
(*   - what no observation has found in force is under an armed timer that *)
(*     restores what one has;                                              *)
(*   - an apply that is reported as rolled back left the guest as it was;  *)
(*   - with no timer armed Squid has the allowlist of the file on disk,    *)
(*     and no tunnel is open that the file does not allow.                 *)
(***************************************************************************)
EXTENDS ApplianceApply, TLAPS

\* Past its backup, and not done.
Writing == {"arm", "install", "reload", "record"}

\* The backup is proven, and the timer's script copies it back.
GuardInv ==
    /\ Unproven => timer /\ backup # NULL
    /\ backup \in proven \cup {NULL}
    /\ script # "remove"
    /\ timer \/ txn # NULL => script = "copy"
    /\ \A k \in Apply :
        /\ OpAt(k, "arm") => ~timer /\ backup # NULL
        /\ OpAt(k, "install") => timer /\ backup # NULL
        /\ ops[k].step \in {"install", "reload", "record"} => script = "copy"
        /\ OpAt(k, "commit") => disk \in proven /\ applies[k].rev \in proven
        /\ ops[k].step \in {"cancel", "clean", "disarm"} => ~Unproven

\* While one apply stages, the backend is not past the stage of another, and
\* while it writes, no other is at work on the guest.
AloneInv ==
    \A k, h \in Apply :
        /\ k # h /\ ops[k].step \in {"stage"} \cup Writing /\ applies[h].pc \in Phase =>
            At(h, "stage") /\ ops[h].step \in {"stage", "error"}
        /\ k # h /\ ops[k].step \in Writing => ops[h].step \notin OpStep \ {"stage"}

\* The backend waits for an apply that has taken its backup.
Tried(k) == applies[k].pc \in Phase /\ ~(At(k, "stage") /\ ops[k].step \in {"stage", "error"})

\* The backend waits for one apply, and no other is at work on the guest by then.
TurnInv ==
    \A k, h \in Apply : k # h =>
        /\ ~(applies[k].pc \in Phase /\ applies[h].pc \in Phase)
        /\ ~(OpRunning(k) /\ Tried(h))

\* The backup is of what the apply found, and what was undone is that.
BackupInv ==
    \A k \in Apply :
        /\ At(k, "rollback") => ops[k].step \in {"rollback", "disarm"} \cup Answer
        /\ Tried(k) => backup \in {ops[k].before, NULL}
        /\ At(k, "rollback") /\ ops[k].step \in {"disarm", "ok"} =>
            disk = ops[k].before /\ live = ops[k].before

SafetyInv == stacked \/ (GuardInv /\ AloneInv /\ TurnInv /\ BackupInv)

-----------------------------------------------------------------------------
\* The types.

OpsTyped == ops \in [Apply -> Op]
AppliesTyped == applies \in [Apply -> ApplyState]
GuestTyped ==
    /\ disk \in Installed /\ live \in Installed
    /\ backup \in Installed \cup {NULL}
    /\ script \in {NULL, "copy", "remove"}
    /\ txn \in Apply \cup {NULL}
    /\ timer \in BOOLEAN
    /\ squid \in Installed /\ tunnels \subseteq Lab \X Domain

\* How the helpers move one apply.
LEMMA OpMoves ==
    ASSUME OpsTyped, NEW k \in Apply, NEW step \in OpStep \cup Answer \cup {"none"}, OpGoto(k, step)
    PROVE  /\ OpsTyped'
           /\ ops'[k].step = step /\ ops'[k].before = ops[k].before
           /\ \A h \in Apply \ {k} : ops'[h] = ops[h]
BY DEF OpsTyped, OpGoto, Op

LEMMA BackendMoves ==
    ASSUME AppliesTyped, NEW k \in Apply,
           NEW pc \in Phase \cup {"idle", "succeeded", "failed", "undone"}, Goto(k, pc)
    PROVE  /\ AppliesTyped'
           /\ applies'[k].pc = pc /\ applies'[k].rev = applies[k].rev
           /\ \A h \in Apply \ {k} : applies'[h] = applies[h]
BY DEF AppliesTyped, Goto, ApplyState

\* The two steps that set more of an operation than its step.
LEMMA BackupMoves ==
    ASSUME TypeOK, NEW k \in Apply, StageBackup(k)
    PROVE  /\ OpsTyped' /\ ops'[k].step = "arm" /\ ops'[k].before = disk
           /\ \A h \in Apply \ {k} : ops'[h] = ops[h]
<1> DEFINE reload == Changed(disk, applies[k].rev)
           restart == NeedsSquidRestart(disk, applies[k].rev)
           new == [ops[k] EXCEPT !.step = "arm", !.before = disk, !.reload = reload, !.restart = restart]
<1>1. reload \in BOOLEAN /\ restart \in BOOLEAN
  BY DEF Changed, NeedsSquidRestart
<1>2. ops' = [ops EXCEPT ![k] = new]
  BY DEF StageBackup, TypeOK
<1> HIDE DEF reload, restart
<1>3. new \in Op /\ new.step = "arm" /\ new.before = disk
  BY <1>1 DEF Op, TypeOK, OpStep
<1> HIDE DEF new
<1> QED
  BY <1>2, <1>3 DEF OpsTyped, TypeOK

LEMMA ReloadMoves ==
    ASSUME TypeOK, NEW k \in Apply, StageReload(k)
    PROVE  /\ OpsTyped' /\ ops'[k].step = "record" /\ ops'[k].before = ops[k].before
           /\ \A h \in Apply \ {k} : ops'[h] = ops[h]
<1>1. PICK healthy \in BOOLEAN :
        ops' = [ops EXCEPT ![k].step = "record", ![k].converged = healthy /\ LiveRevision' = applies[k].rev]
  BY DEF StageReload
<1> DEFINE converged == healthy /\ LiveRevision' = applies[k].rev
           new == [ops[k] EXCEPT !.step = "record", !.converged = converged]
<1>2. converged \in BOOLEAN /\ ops' = [ops EXCEPT ![k] = new]
  BY <1>1 DEF TypeOK
<1> HIDE DEF converged
<1>3. new \in Op /\ new.step = "record" /\ new.before = ops[k].before
  BY <1>2 DEF Op, TypeOK, OpStep
<1> HIDE DEF new
<1> QED
  BY <1>2, <1>3 DEF OpsTyped, TypeOK

\* What a guest process leaves alone.
LEMMA GuestPaths ==
    ASSUME TypeOK, NEW k \in Apply, GuestProcess(k)
    PROVE  /\ OpsTyped'
           /\ \A h \in Apply \ {k} : ops'[h] = ops[h]
           /\ UNCHANGED <<applies, proven, wanted>>
           /\ ops[k].step # "none"
           /\ ~StageBackup(k) => ops'[k].before = ops[k].before /\ stacked' = stacked
<1>0. OpsTyped
  BY DEF TypeOK, OpsTyped
<1>1. UNCHANGED <<applies, proven, wanted>> /\ (StageBackup(k) \/ stacked' = stacked)
  BY DEF GuestProcess, Stage, Undo, Commit, GuestOnly, StageBackup, ForwardFails, StageRefused,
         StageInvalid, StageArm, StageInstall, StageReload, StageReloadRaises, StageRecord, Rollback,
         RollbackRefused, RollbackDisarm, CommitVerify, CommitRefused, CommitCancel, CommitClean
<1>2. StageBackup(k) \/ StageReload(k) \/ \E step \in OpStep \cup Answer : OpGoto(k, step)
  BY DEF GuestProcess, Stage, Undo, Commit, ForwardFails, StageRefused, StageInvalid, StageArm,
         StageInstall, StageReloadRaises, StageRecord, Rollback, RollbackRefused, RollbackDisarm,
         CommitVerify, CommitRefused, CommitCancel, CommitClean, OpStep, Answer
<1>3. ops[k].step # "none"
  BY DEF GuestProcess, Stage, Undo, Commit, OpAt, StageBackup, ForwardFails, StageRefused,
         StageInvalid, StageArm, StageInstall, StageReload, StageReloadRaises, StageRecord, Rollback,
         RollbackRefused, RollbackDisarm, CommitVerify, CommitRefused, CommitCancel, CommitClean
<1> QED
  BY <1>0, <1>1, <1>2, <1>3, BackupMoves, ReloadMoves, OpMoves

\* An apply that was begun has a revision.
RevInv ==
    \A k \in Apply :
        /\ ops[k].step # "none" => applies[k].rev \in Revision
        /\ applies[k].pc # "idle" /\ applies[k].rev = NULL => At(k, "failed")

LEMMA RestoreTyped ==
    ASSUME GuestTyped, Restore
    PROVE  /\ disk' \in Installed /\ live' \in Installed /\ squid' \in Installed
           /\ txn' \in Apply \cup {NULL} /\ tunnels' \subseteq Lab \X Domain
BY DEF GuestTyped, Restore, Installed, proxy

LEMMA GuestTypes ==
    ASSUME TypeOK, RevInv,
           \/ Fire \/ OpenTunnel
           \/ \E k \in Apply : GuestProcess(k)
    PROVE  TypeOK' /\ RevInv'
<1>0. GuestTyped /\ OpsTyped /\ AppliesTyped /\ wanted \in Revision
  BY DEF TypeOK, GuestTyped, OpsTyped, AppliesTyped
<1>1. CASE Fire
  BY <1>0, <1>1, RestoreTyped DEF Fire, GuestOnly, TypeOK, RevInv, At
<1>2. CASE OpenTunnel
  <2>1. Spliced(squid) \subseteq Lab \X Domain
    BY <1>0, ApplianceAssumption DEF Spliced, Installed, ApplianceAssumption, GuestTyped
  <2>2. tunnels' \subseteq Lab \X Domain
    BY <1>0, <1>2, <2>1 DEF OpenTunnel, GuestTyped
  <2> QED
    BY <1>2, <2>2 DEF OpenTunnel, GuestOnly, TypeOK, RevInv, At
<1>3. ASSUME NEW k \in Apply, GuestProcess(k) PROVE TypeOK' /\ RevInv'
  <2>1. /\ OpsTyped' /\ UNCHANGED <<applies, proven, wanted>> /\ ops[k].step # "none"
        /\ \A h \in Apply \ {k} : ops'[h] = ops[h]
    BY <1>3, GuestPaths
  <2>2. RevInv'
    BY <2>1 DEF RevInv, At
  <2>3. stacked' \in BOOLEAN
    BY <1>3, GuestPaths DEF TypeOK, StageBackup
  <2>4. applies[k].rev \in Revision
    BY <2>1 DEF RevInv
  <2>5. CASE Stage(k)
    <3>1. \/ UNCHANGED guest
          \/ StageBackup(k) \/ StageArm(k) \/ StageInstall(k) \/ StageRecord(k)
          \/ UNCHANGED <<disk, backup, script, txn, timer>> /\ live' \in {live, disk}
             /\ (SquidLoads(k) \/ UNCHANGED proxy)
      BY <2>5 DEF Stage, ForwardFails, StageRefused, StageInvalid, StageReload, StageReloadRaises
    <3>2. disk' \in Installed /\ live' \in Installed /\ squid' \in Installed
      BY <1>0, <2>4, <3>1 DEF GuestTyped, guest, proxy, StageBackup, StageArm, StageInstall, StageRecord,
                              SquidLoads, Installed
    <3>3. backup' \in Installed \cup {NULL} /\ script' \in {NULL, "copy", "remove"}
      BY <1>0, <3>1 DEF GuestTyped, guest, StageBackup, StageArm, StageInstall, StageRecord
    <3>4. txn' \in Apply \cup {NULL} /\ timer' \in BOOLEAN /\ tunnels' \subseteq Lab \X Domain
      BY <1>0, <3>1 DEF GuestTyped, guest, proxy, StageBackup, StageArm, StageInstall, StageRecord,
                        SquidLoads
    <3> QED
      BY <1>0, <2>1, <2>2, <2>3, <3>2, <3>3, <3>4 DEF TypeOK, OpsTyped, AppliesTyped
  <2>6. CASE Undo(k) \/ Commit(k)
    <3>1. /\ Restore \/ UNCHANGED <<disk, live, proxy, txn>> \/ (UNCHANGED <<disk, live, proxy>> /\ txn' = NULL)
          /\ backup' \in {backup, NULL} /\ script' = script /\ timer' \in {timer, FALSE}
      BY <2>6 DEF Undo, Commit, Rollback, RollbackRefused, RollbackDisarm, CommitVerify, CommitRefused,
                  CommitCancel, CommitClean, guest
    <3> QED
      BY <1>0, <2>1, <2>2, <2>3, <3>1, RestoreTyped DEF TypeOK, OpsTyped, AppliesTyped, GuestTyped, proxy
  <2> QED
    BY <1>3, <2>5, <2>6 DEF GuestProcess
<1> QED
  BY <1>1, <1>2, <1>3

\* What the backend's steps leave alone.
LEMMA BackendPaths ==
    ASSUME TypeOK, NEW k \in Apply, Begin(k) \/ Refused(k) \/ Backend(k)
    PROVE  /\ OpsTyped' /\ AppliesTyped'
           /\ \A h \in Apply \ {k} : ops'[h] = ops[h] /\ applies'[h] = applies[h]
           /\ ops'[k].before = ops[k].before
           /\ ~Begin(k) => applies'[k].rev = applies[k].rev
           /\ UNCHANGED <<disk, live, backup, script, txn, timer, squid, stacked>>
<1>0. OpsTyped /\ AppliesTyped
  BY DEF TypeOK, OpsTyped, AppliesTyped
<1>1. CASE Begin(k)
  <2>1. PICK r \in Revision : applies' = [applies EXCEPT ![k].pc = "stage", ![k].rev = r]
    BY <1>1 DEF Begin
  <2> DEFINE new == [applies[k] EXCEPT !.pc = "stage", !.rev = r]
  <2>2. applies' = [applies EXCEPT ![k] = new] /\ new \in ApplyState
    BY <1>0, <2>1 DEF AppliesTyped, ApplyState, Phase
  <2> HIDE DEF new
  <2>3. AppliesTyped' /\ \A h \in Apply \ {k} : applies'[h] = applies[h]
    BY <1>0, <2>2 DEF AppliesTyped
  <2> QED
    BY <1>0, <1>1, <2>3, OpMoves DEF Begin, OpStep
<1>2. CASE ObserveRuleset(k)
  <2> DEFINE matched == Verified(applies[k].rev)
             new == [applies[k] EXCEPT !.pc = "digests", !.matched = matched]
  <2>1. matched \in BOOLEAN /\ applies' = [applies EXCEPT ![k] = new]
    BY <1>0, <1>2 DEF Verified, ObserveRuleset, AppliesTyped
  <2> HIDE DEF matched
  <2>2. new \in ApplyState /\ new.rev = applies[k].rev
    BY <1>0, <2>1 DEF AppliesTyped, ApplyState, Phase
  <2> HIDE DEF new
  <2> QED
    BY <1>0, <1>2, <2>1, <2>2 DEF ObserveRuleset, BackendOnly, guest, proxy, AppliesTyped, OpsTyped,
       Begin, At
<1>3. CASE ~Begin(k) /\ ~ObserveRuleset(k)
  <2>1. /\ \E pc \in Phase \cup {"succeeded", "failed", "undone"} : Goto(k, pc)
        /\ UNCHANGED ops \/ \E step \in OpStep \cup {"none"} : OpGoto(k, step)
        /\ UNCHANGED <<guest, stacked>>
    BY <1>3 DEF Refused, Backend, Staged, StagedBadly, ObserveFiles, DriftRemains, OtherDrift,
                Unobservable, Committed, Undone, Failed, GiveUp, Call, BackendOnly, Phase, OpStep
  <2> QED
    BY <1>0, <1>3, <2>1, OpMoves, BackendMoves DEF guest, proxy, OpsTyped
<1> QED
  BY <1>1, <1>2, <1>3

LEMMA BackendTypes ==
    ASSUME TypeOK, RevInv, NEW k \in Apply, Begin(k) \/ Refused(k) \/ Backend(k)
    PROVE  TypeOK' /\ RevInv'
<1>1. CASE Begin(k)
  <2>1. PICK r \in Revision : applies' = [applies EXCEPT ![k].pc = "stage", ![k].rev = r] /\ wanted' = r
                              /\ tunnels' \subseteq tunnels
    BY <1>1 DEF Begin
  <2>2. applies'[k].rev = r
    BY <2>1 DEF TypeOK, ApplyState
  <2>3. r # NULL /\ proven' = proven
    BY <1>1, ApplianceAssumption DEF ApplianceAssumption, Begin
  <2> QED
    BY <1>1, <2>1, <2>2, <2>3, BackendPaths DEF TypeOK, RevInv, OpsTyped, AppliesTyped, At
<1>2. CASE ~Begin(k)
  <2>1. (ops[k].step = "none" => ops'[k].step = "none" \/ applies[k].pc \in Phase)
        /\ (applies[k].pc \in Phase \/ applies'[k].pc = "failed")
    BY <1>2 DEF Refused, Backend, Staged, StagedBadly, ObserveRuleset, ObserveFiles, DriftRemains,
       OtherDrift, Unobservable, Committed, Undone, Failed, GiveUp, At, OpAt, Call, Goto, Phase,
       TypeOK, ApplyState
  <2>2. applies[k].pc \in Phase => applies[k].rev \in Revision
    BY DEF RevInv, TypeOK, ApplyState, Phase, At
  <2>3. RevInv'
    BY <1>2, <2>1, <2>2, BackendPaths, ApplianceAssumption DEF RevInv, At, ApplianceAssumption
  <2>4. proven' \subseteq Revision /\ wanted' = wanted /\ tunnels' = tunnels
    BY <1>2, <2>2 DEF Refused, Backend, Staged, StagedBadly, ObserveRuleset, ObserveFiles, DriftRemains,
       OtherDrift, Unobservable, Committed, Undone, Failed, GiveUp, At, BackendOnly, guest, proxy,
       Phase, TypeOK
  <2> QED
    BY <2>3, <2>4, BackendPaths DEF TypeOK, OpsTyped, AppliesTyped
<1> QED
  BY <1>1, <1>2

LEMMA TypesHold == Spec => [](TypeOK /\ RevInv)
<1>1. Init => TypeOK /\ RevInv
  <2> SUFFICES ASSUME Init PROVE TypeOK /\ RevInv
    OBVIOUS
  <2>1. ops \in [Apply -> Op] /\ applies \in [Apply -> ApplyState]
    BY DEF Init, Op, ApplyState
  <2>2. TypeOK
    BY <2>1, ApplianceAssumption DEF Init, TypeOK, Installed, ApplianceAssumption
  <2>3. RevInv
    BY DEF Init, RevInv
  <2> QED
    BY <2>2, <2>3
<1>2. TypeOK /\ RevInv /\ [Next]_vars => TypeOK' /\ RevInv'
  <2> SUFFICES ASSUME TypeOK, RevInv, [Next]_vars PROVE TypeOK' /\ RevInv'
    OBVIOUS
  <2>1. CASE UNCHANGED vars
    BY <2>1 DEF vars, TypeOK, RevInv, At
  <2> QED
    BY <2>1, GuestTypes, BackendTypes DEF Next
<1> QED
  BY <1>1, <1>2, PTL DEF Spec

\* The state keeps its types.
THEOREM ApplianceTypesHold == Spec => []TypeOK
BY TypesHold, PTL

-----------------------------------------------------------------------------
\* Who is at work beside whom.

\* Where the guest's steps start and where they lead.
LEMMA GuestFrom ==
    ASSUME TypeOK, NEW k \in Apply, GuestProcess(k), ~StageBackup(k)
    PROVE  /\ ops[k].step \in OpStep
           /\ ops'[k].step \in {"stage"} \cup Writing => ops[k].step \in Writing
           /\ ops[k].step = "stage" => ops'[k].step = "error"
<1>0. OpsTyped
  BY DEF TypeOK, OpsTyped
<1>1. CASE StageReload(k)
  BY <1>1, ReloadMoves DEF StageReload, OpAt, OpStep, Writing
<1>2. CASE Stage(k) /\ ~StageReload(k)
  <2>1. \/ ops[k].step \in {"stage", "rollback", "arm", "reload"} /\ OpGoto(k, "error")
        \/ ops[k].step = "arm" /\ OpGoto(k, "install")
        \/ ops[k].step = "install" /\ OpGoto(k, "reload")
        \/ ops[k].step = "record" /\ (OpGoto(k, "ok") \/ OpGoto(k, "bad"))
    BY <1>2 DEF Stage, ForwardFails, StageRefused, StageInvalid, StageArm, StageInstall,
       StageReloadRaises, StageRecord, OpAt
  <2> QED
    BY <1>0, <2>1, OpMoves DEF OpStep, Answer, Writing
<1>3. CASE Undo(k) \/ Commit(k)
  <2>1. /\ ops[k].step \in {"rollback", "disarm", "commit", "cancel", "clean"}
        /\ \E step \in {"disarm", "cancel", "clean"} \cup Answer : OpGoto(k, step)
    BY <1>3 DEF Undo, Commit, Rollback, RollbackRefused, RollbackDisarm, CommitVerify,
       CommitRefused, CommitCancel, CommitClean, OpAt, Answer
  <2> QED
    BY <1>0, <2>1, OpMoves DEF OpStep, Answer, Writing
<1> QED
  BY <1>1, <1>2, <1>3 DEF GuestProcess

\* Where the backend's steps lead.
LEMMA BackendFrom ==
    ASSUME TypeOK, NEW k \in Apply, Refused(k) \/ Backend(k)
    PROVE  /\ applies'[k].pc \in Phase => Tried(k) /\ applies'[k].pc # "stage"
           /\ \/ ops' = ops
              \/ ops'[k].step = "none"
              \/ /\ ops'[k].step \in {"commit", "rollback"} /\ Tried(k)
                 /\ applies'[k].pc = ops'[k].step
           /\ ops'[k].step = "commit" /\ ops' # ops => ObserveFiles(k)
           /\ applies'[k].pc = "rollback" => ops'[k].step = "rollback"
<1>0. OpsTyped /\ AppliesTyped
  BY DEF TypeOK, OpsTyped, AppliesTyped
<1>1. CASE Refused(k) \/ GiveUp(k)
  BY <1>0, <1>1, BackendMoves DEF Refused, GiveUp, Phase
<1>2. CASE ObserveRuleset(k)
  BY <1>0, <1>2 DEF ObserveRuleset, At, Tried, Phase, AppliesTyped, ApplyState
<1>3. CASE Staged(k) \/ StagedBadly(k)
  BY <1>0, <1>3, BackendMoves, OpMoves DEF Staged, StagedBadly, Call, At, OpAt, Tried, Phase, OpStep
<1>4. CASE ObserveFiles(k)
  BY <1>0, <1>4, BackendMoves, OpMoves DEF ObserveFiles, Call, At, Tried, Phase, OpStep
<1>5. CASE DriftRemains(k) \/ OtherDrift(k) \/ Unobservable(k)
  BY <1>0, <1>5, BackendMoves, OpMoves DEF DriftRemains, OtherDrift, Unobservable, Call, At, Tried, Phase,
     OpStep
<1>6. CASE Committed(k) \/ Undone(k) \/ Failed(k)
  BY <1>0, <1>6, BackendMoves, OpMoves DEF Committed, Undone, Failed, Call, Phase
<1> QED
  BY <1>1, <1>2, <1>3, <1>4, <1>5, <1>6 DEF Backend

LEMMA AloneGuest ==
    ASSUME TypeOK, AloneInv, NEW k \in Apply, GuestProcess(k), ~stacked'
    PROVE  AloneInv'
<1>1. applies' = applies /\ \A h \in Apply \ {k} : ops'[h] = ops[h]
  BY GuestPaths
<1>2. CASE StageBackup(k)
  <2>1. \A h \in Apply \ {k} : ops[h].step \notin OpStep
    BY <1>2 DEF StageBackup, OpRunning
  <2>2. ops[k].step = "stage" /\ ops'[k].step = "arm"
    BY <1>2, BackupMoves DEF StageBackup, OpAt
  <2> QED
    BY <1>1, <2>1, <2>2 DEF AloneInv, At, Writing, OpStep
<1>3. CASE ~StageBackup(k)
  <2>1. /\ ops[k].step \in OpStep
        /\ ops'[k].step \in {"stage"} \cup Writing => ops[k].step \in Writing
        /\ ops[k].step = "stage" => ops'[k].step = "error"
    BY <1>3, GuestFrom
  <2>2. ASSUME NEW h \in Apply \ {k}
        PROVE  /\ ops'[k].step \in {"stage"} \cup Writing /\ applies[h].pc \in Phase =>
                    At(h, "stage") /\ ops[h].step \in {"stage", "error"}
               /\ ops'[k].step \in Writing => ops[h].step \notin OpStep \ {"stage"}
    BY <2>1, <2>2 DEF AloneInv
  <2>3. ASSUME NEW h \in Apply \ {k}
        PROVE  /\ ops[h].step \in {"stage"} \cup Writing /\ applies[k].pc \in Phase =>
                    At(k, "stage") /\ ops'[k].step \in {"stage", "error"}
               /\ ops[h].step \in Writing => ops'[k].step \notin OpStep \ {"stage"}
    <3>1. CASE ops[k].step = "stage"
      BY <2>1, <2>3, <3>1 DEF AloneInv, OpStep
    <3>2. CASE ops[k].step # "stage"
      BY <2>1, <2>3, <3>2 DEF AloneInv, OpStep
    <3> QED
      BY <3>1, <3>2
  <2> QED
    BY <1>1, <2>2, <2>3 DEF AloneInv, At
<1> QED
  BY <1>2, <1>3

LEMMA AloneBackend ==
    ASSUME TypeOK, AloneInv, NEW k \in Apply, Begin(k) \/ Refused(k) \/ Backend(k)
    PROVE  AloneInv'
<1>1. \A h \in Apply \ {k} : ops'[h] = ops[h] /\ applies'[h] = applies[h]
  BY BackendPaths
<1>2. CASE Begin(k)
  <2>1. ops'[k].step = "stage" /\ applies'[k].pc = "stage"
    BY <1>2, OpMoves DEF Begin, OpStep, TypeOK, OpsTyped, ApplyState
  <2>2. \A h \in Apply : applies[h].pc \notin Phase
    BY <1>2 DEF Begin, LockFree
  <2> QED
    BY <1>1, <2>1, <2>2 DEF AloneInv, At, Writing
<1>3. CASE Refused(k) \/ Backend(k)
  <2>1. applies'[k].pc \in Phase => Tried(k)
    BY <1>3, BackendFrom
  <2>2. ops' = ops \/ ops'[k].step = "none" \/ (ops'[k].step \in {"commit", "rollback"} /\ Tried(k))
    BY <1>3, BackendFrom
  <2>3. \A h \in Apply \ {k} : Tried(k) => ops[h].step \notin {"stage"} \cup Writing
    BY DEF AloneInv, Tried
  <2>4. ops'[k].step \in {"stage"} \cup Writing => ops' = ops
    BY <2>2 DEF Writing
  <2>5. ops'[k].step \in OpStep => ops' = ops \/ Tried(k)
    BY <2>2 DEF OpStep
  <2> QED
    BY <1>1, <2>1, <2>3, <2>4, <2>5 DEF AloneInv, At
<1> QED
  BY <1>2, <1>3

-----------------------------------------------------------------------------
\* The dead-man's switch.

\* A step that changes nothing on the guest that is installed.
LEMMA GuardQuiet ==
    ASSUME GuardInv, NEW k \in Apply,
           UNCHANGED <<disk, live, backup, script, timer>>, proven \subseteq proven',
           txn' = txn \/ script = "copy",
           \A h \in Apply \ {k} : ops'[h] = ops[h] /\ applies'[h] = applies[h],
           ops'[k].step = ops[k].step \/ ops'[k].step \notin Writing \ {"record"},
           ops'[k].step = "record" => script = "copy",
           ops'[k].step = "commit" => disk \in proven' /\ applies'[k].rev \in proven',
           ops'[k].step \in {"cancel", "clean", "disarm"} => ~Unproven
    PROVE  GuardInv'
<1>1. Unproven' => Unproven
  BY DEF Unproven
<1>2. /\ Unproven' => timer' /\ backup' # NULL
      /\ backup' \in proven' \cup {NULL}
      /\ script' # "remove"
      /\ timer' \/ txn' # NULL => script' = "copy"
  BY <1>1 DEF GuardInv
<1>3. ASSUME NEW h \in Apply
      PROVE  /\ OpAt(h, "arm")' => ~timer' /\ backup' # NULL
             /\ OpAt(h, "install")' => timer' /\ backup' # NULL
             /\ ops'[h].step \in {"install", "reload", "record"} => script' = "copy"
             /\ OpAt(h, "commit")' => disk' \in proven' /\ applies'[h].rev \in proven'
             /\ ops'[h].step \in {"cancel", "clean", "disarm"} => ~Unproven'
  <2>1. CASE h # k
    BY <1>1, <2>1 DEF GuardInv, OpAt
  <2>2. CASE h = k
    BY <1>1, <2>2 DEF GuardInv, OpAt, Writing
  <2> QED
    BY <2>1, <2>2
<1> QED
  BY <1>2, <1>3 DEF GuardInv

\* Standing down, with what is installed proven and no other apply writing.
LEMMA GuardCalm ==
    ASSUME GuardInv, NEW k \in Apply, UNCHANGED <<disk, live, script, applies, proven>>,
           ~Unproven, timer' => timer, backup' \in {backup, NULL}, txn' # NULL => txn # NULL,
           \A h \in Apply \ {k} : ops'[h] = ops[h] /\ ops[h].step \notin Writing,
           ops'[k].step \notin Writing \cup {"commit"}
    PROVE  GuardInv'
<1>1. ~Unproven'
  BY DEF Unproven
<1>2. /\ backup' \in proven' \cup {NULL}
      /\ script' # "remove"
      /\ timer' \/ txn' # NULL => script' = "copy"
  BY DEF GuardInv
<1>3. ASSUME NEW h \in Apply
      PROVE  /\ ops'[h].step \notin Writing
             /\ OpAt(h, "commit")' => disk' \in proven' /\ applies'[h].rev \in proven'
  BY DEF GuardInv, OpAt
<1> QED
  BY <1>1, <1>2, <1>3 DEF GuardInv, OpAt, Writing

\* Undoing puts what is proven in force, or nothing is to be undone.
LEMMA RestoreProves ==
    ASSUME GuardInv, script = "copy", Restore, proven' = proven
    PROVE  ~Unproven'
BY DEF GuardInv, Restore, Unproven

LEMMA GuardGuest ==
    ASSUME TypeOK, RevInv, GuardInv, AloneInv, NEW k \in Apply, GuestProcess(k), ~stacked'
    PROVE  GuardInv'
<1>0. /\ OpsTyped /\ UNCHANGED <<applies, proven>>
      /\ \A h \in Apply \ {k} : ops'[h] = ops[h]
  BY GuestPaths DEF TypeOK, OpsTyped
<1> USE DEF OpStep, Answer
<1>1. CASE \/ ForwardFails(k) \/ StageRefused(k) \/ StageInvalid(k) \/ RollbackRefused(k)
           \/ CommitRefused(k)
  <2>1. ops'[k].step = "error" /\ UNCHANGED guest
    BY <1>0, <1>1, OpMoves DEF ForwardFails, StageRefused, StageInvalid, RollbackRefused, CommitRefused
  <2> QED
    BY <1>0, <2>1, GuardQuiet DEF guest, Writing
<1>2. CASE StageBackup(k)
  <2>1. ~timer /\ \A h \in Apply \ {k} : ops[h].step \notin OpStep
    BY <1>2 DEF StageBackup, OpRunning
  <2>2. disk \in proven /\ disk # Absent /\ disk # NULL /\ ~Unproven
    BY <2>1, ApplianceAssumption DEF GuardInv, Unproven, TypeOK, ApplianceAssumption
  <2>3. backup' = disk /\ UNCHANGED <<disk, live, script, txn, timer>>
    BY <1>2, <2>2 DEF StageBackup
  <2>4. ops'[k].step = "arm"
    BY <1>2, BackupMoves
  <2>5. ~Unproven'
    BY <1>0, <2>2, <2>3 DEF Unproven
  <2> QED
    BY <1>0, <2>1, <2>2, <2>3, <2>4, <2>5 DEF GuardInv, OpAt
<1>3. CASE StageArm(k)
  <2>1. ~timer /\ backup # NULL
    BY <1>3 DEF StageArm, GuardInv
  <2>2. /\ script' = "copy" /\ timer' /\ UNCHANGED <<disk, live, backup, txn>>
        /\ ops[k].step = "arm" /\ ops'[k].step = "install"
    BY <1>0, <1>3, <2>1, OpMoves DEF StageArm, OpAt
  <2>3. \A h \in Apply \ {k} : ops[h].step \notin OpStep \ {"stage"}
    BY <2>2 DEF AloneInv, Writing
  <2>4. ~Unproven'
    BY <1>0, <2>1, <2>2 DEF GuardInv, Unproven
  <2> QED
    BY <1>0, <2>1, <2>2, <2>3, <2>4 DEF GuardInv, OpAt
<1>4. CASE StageInstall(k)
  <2>1. /\ ops[k].step = "install" /\ ops'[k].step = "reload"
        /\ UNCHANGED <<live, backup, script, txn, timer>>
    BY <1>0, <1>4, OpMoves DEF StageInstall, OpAt
  <2>2. timer /\ backup # NULL /\ script = "copy"
    BY <2>1 DEF GuardInv, OpAt
  <2>3. \A h \in Apply \ {k} : ops[h].step \notin OpStep \ {"stage"}
    BY <2>1 DEF AloneInv, Writing
  <2> QED
    BY <1>0, <2>1, <2>2, <2>3 DEF GuardInv, OpAt
<1>5. CASE StageReload(k) \/ StageReloadRaises(k)
  <2>1. /\ ops[k].step = "reload" /\ ops'[k].step \in {"record", "error"}
        /\ UNCHANGED <<disk, backup, script, txn, timer>> /\ live' \in {live, disk}
    BY <1>0, <1>5, ReloadMoves, OpMoves DEF StageReload, StageReloadRaises, OpAt
  <2>2. \A h \in Apply \ {k} : ops[h].step \notin OpStep \ {"stage"}
    BY <2>1 DEF AloneInv, Writing
  <2>3. Unproven' => Unproven
    BY <1>0, <2>1 DEF Unproven
  <2>4. script = "copy"
    BY <2>1 DEF GuardInv
  <2> QED
    BY <1>0, <2>1, <2>2, <2>3, <2>4 DEF GuardInv, OpAt
<1>6. CASE StageRecord(k)
  <2>1. /\ ops[k].step = "record" /\ ops'[k].step \in {"ok", "bad"}
        /\ UNCHANGED <<disk, live, backup, script, timer>>
    BY <1>0, <1>6, OpMoves DEF StageRecord, OpAt
  <2>2. script = "copy"
    BY <2>1 DEF GuardInv
  <2> QED
    BY <1>0, <2>1, <2>2, GuardQuiet DEF Writing
<1>7. CASE Rollback(k)
  <2>1. ops[k].step = "rollback" /\ ops'[k].step = "disarm" /\ txn # NULL
        /\ Restore /\ UNCHANGED <<backup, script, timer>>
    BY <1>0, <1>7, OpMoves, ApplianceAssumption DEF Rollback, OpAt, ApplianceAssumption
  <2>2. script = "copy"
    BY <2>1 DEF GuardInv
  <2>3. ~Unproven' /\ txn' \in {txn, NULL}
    BY <1>0, <2>1, <2>2, RestoreProves DEF Restore
  <2>4. \A h \in Apply : OpAt(h, "commit") => disk' \in proven
    BY <1>0, <2>3 DEF Unproven
  <2> QED
    BY <1>0, <2>1, <2>2, <2>3, <2>4 DEF GuardInv, OpAt
<1>8. CASE RollbackDisarm(k) \/ CommitCancel(k)
  <2>1. /\ ops[k].step \in {"disarm", "cancel"} /\ ops'[k].step \in {"ok", "clean"}
        /\ UNCHANGED <<disk, live, backup, script, txn>> /\ timer' \in {FALSE, timer}
    BY <1>0, <1>8, OpMoves DEF RollbackDisarm, CommitCancel, OpAt
  <2>2. ~Unproven
    BY <2>1 DEF GuardInv
  <2>3. \A h \in Apply \ {k} : ops[h].step \notin Writing
    BY <2>1 DEF AloneInv
  <2>4. timer' => timer
    BY <2>1
  <2>5. ops'[k].step \notin Writing \cup {"commit"}
    BY <2>1 DEF Writing
  <2> QED
    BY <1>0, <2>1, <2>2, <2>3, <2>4, <2>5, GuardCalm
<1>9. CASE CommitVerify(k)
  <2>1. /\ ops[k].step = "commit" /\ ops'[k].step = "cancel" /\ UNCHANGED guest
        /\ live = applies[k].rev
    BY <1>0, <1>9, OpMoves DEF CommitVerify, OpAt, Verified, LiveRevision
  <2>2. ~Unproven
    BY <2>1 DEF GuardInv, Unproven, OpAt
  <2> QED
    BY <1>0, <2>1, <2>2, GuardQuiet DEF guest, Writing
<1>10. CASE CommitClean(k)
  <2>1. /\ ops[k].step = "clean" /\ ops'[k].step \in {"ok", "bad"}
        /\ UNCHANGED <<disk, live, script, timer>> /\ backup' = NULL /\ txn' = NULL
    BY <1>0, <1>10, OpMoves DEF CommitClean, OpAt
  <2>2. ~Unproven
    BY <2>1 DEF GuardInv
  <2>3. \A h \in Apply \ {k} : ops[h].step \notin Writing
    BY <2>1 DEF AloneInv
  <2> QED
    BY <1>0, <2>1, <2>2, <2>3, GuardCalm DEF Writing
<1> QED
  BY <1>1, <1>2, <1>3, <1>4, <1>5, <1>6, <1>7, <1>8, <1>9, <1>10
     DEF GuestProcess, Stage, Undo, Commit

LEMMA GuardFire ==
    ASSUME GuardInv, Fire
    PROVE  GuardInv'
<1>1. timer /\ script = "copy" /\ Restore /\ ~timer' /\ UNCHANGED <<backup, script, ops, applies, proven>>
  BY DEF Fire, GuestOnly, GuardInv
<1>2. ~Unproven' /\ txn' \in {txn, NULL}
  BY <1>1, RestoreProves DEF Restore
<1>3. disk' \in proven'
  BY <1>2 DEF Unproven
<1>4. \A k \in Apply : ~OpAt(k, "install")
  BY DEF Fire
<1> QED
  BY <1>1, <1>2, <1>3, <1>4 DEF GuardInv, OpAt

LEMMA GuardBackend ==
    ASSUME TypeOK, RevInv, GuardInv, NEW k \in Apply, Begin(k) \/ Refused(k) \/ Backend(k)
    PROVE  GuardInv'
<1>1. /\ \A h \in Apply \ {k} : ops'[h] = ops[h] /\ applies'[h] = applies[h]
      /\ UNCHANGED <<disk, live, backup, script, txn, timer>>
  BY BackendPaths
<1>2. CASE Begin(k)
  <2>1. ops'[k].step = "stage" /\ proven' = proven
    BY <1>2, OpMoves DEF Begin, OpStep, TypeOK, OpsTyped
  <2> QED
    BY <1>1, <2>1, GuardQuiet DEF Writing
<1>3. CASE ObserveFiles(k)
  <2>1. ops'[k].step = "commit" /\ disk = applies[k].rev /\ proven' = proven \cup {applies[k].rev}
    BY <1>3, OpMoves DEF ObserveFiles, Call, OpStep, TypeOK, OpsTyped
  <2>2. applies'[k].rev = applies[k].rev
    BY <1>3, BackendMoves DEF ObserveFiles, Call, Phase, TypeOK, AppliesTyped
  <2> QED
    BY <1>1, <2>1, <2>2, GuardQuiet DEF Writing
<1>4. CASE (Refused(k) \/ Backend(k)) /\ ~ObserveFiles(k) /\ ~Begin(k)
  <2>1. proven' = proven /\ applies'[k].rev = applies[k].rev
    <3>1. proven' = proven
      BY <1>4 DEF Refused, Backend, Staged, StagedBadly, ObserveRuleset, DriftRemains, OtherDrift,
                  Unobservable, Committed, Undone, Failed, GiveUp, BackendOnly
    <3> QED
      BY <1>4, <3>1, BackendPaths
  <2>2. ops' = ops \/ ops'[k].step \in {"none", "rollback"}
    BY <1>4, BackendFrom
  <2> QED
    BY <1>1, <2>1, <2>2, GuardQuiet DEF GuardInv, OpAt, Writing
<1> QED
  BY <1>2, <1>3, <1>4

-----------------------------------------------------------------------------
\* What is undone.

LEMMA TurnGuest ==
    ASSUME TypeOK, TurnInv, NEW k \in Apply, GuestProcess(k), ~stacked'
    PROVE  TurnInv'
<1>1. applies' = applies /\ \A h \in Apply \ {k} : ops'[h] = ops[h]
  BY GuestPaths
<1>2. CASE StageBackup(k)
  <2>1. \A h \in Apply \ {k} : ~OpRunning(h)
    BY <1>2 DEF StageBackup
  <2>2. OpRunning(k)
    BY <1>2 DEF StageBackup, OpAt, OpRunning, OpStep
  <2> QED
    BY <1>1, <2>1, <2>2 DEF TurnInv, Tried, At, OpRunning
<1>3. CASE ~StageBackup(k)
  <2>1. OpRunning(k) /\ (ops[k].step = "stage" => ops'[k].step = "error")
    BY <1>3, GuestFrom DEF OpRunning
  <2>2. Tried(k)' => Tried(k)
    BY <1>1, <1>3, <2>1, GuestFrom DEF Tried, At, OpRunning, OpStep
  <2> QED
    BY <1>1, <2>1, <2>2 DEF TurnInv, Tried, At, OpRunning
<1> QED
  BY <1>2, <1>3

LEMMA TurnBackend ==
    ASSUME TypeOK, TurnInv, NEW k \in Apply, Begin(k) \/ Refused(k) \/ Backend(k)
    PROVE  TurnInv'
<1>1. \A h \in Apply \ {k} : ops'[h] = ops[h] /\ applies'[h] = applies[h]
  BY BackendPaths
<1>2. CASE Begin(k)
  <2>1. ops'[k].step = "stage" /\ applies'[k].pc = "stage"
    BY <1>2, OpMoves DEF Begin, OpStep, TypeOK, OpsTyped, ApplyState
  <2>2. \A h \in Apply : applies[h].pc \notin Phase
    BY <1>2 DEF Begin, LockFree
  <2> QED
    BY <1>1, <2>1, <2>2 DEF TurnInv, Tried, At
<1>3. CASE Refused(k) \/ Backend(k)
  <2>1. applies'[k].pc \in Phase => Tried(k)
    BY <1>3, BackendFrom
  <2>2. ops' = ops \/ ops'[k].step = "none" \/ Tried(k)
    BY <1>3, BackendFrom
  <2>3. Tried(k) => applies[k].pc \in Phase
    BY DEF Tried
  <2>4. \A h \in Apply \ {k} : OpRunning(k)' => OpRunning(k) \/ applies[h].pc \notin Phase
    BY <2>2, <2>3 DEF OpRunning, OpStep, TurnInv
  <2> QED
    BY <1>1, <2>1, <2>3, <2>4 DEF TurnInv, Tried, At, OpRunning
<1> QED
  BY <1>2, <1>3

LEMMA BackupGuest ==
    ASSUME TypeOK, GuardInv, TurnInv, BackupInv, NEW k \in Apply, GuestProcess(k), ~stacked'
    PROVE  BackupInv'
<1>0. /\ OpsTyped /\ UNCHANGED applies
      /\ \A h \in Apply \ {k} : ops'[h] = ops[h]
  BY GuestPaths DEF TypeOK, OpsTyped
<1>1. OpRunning(k)
  BY GuestFrom DEF OpRunning, StageBackup, OpAt, OpStep
<1>2. \A h \in Apply \ {k} : ~Tried(h) /\ ~At(h, "rollback")
  BY <1>1 DEF TurnInv, Tried, At, Phase
<1>3. CASE StageBackup(k)
  <2>1. ops[k].step = "stage" /\ ops'[k].step = "arm" /\ ops'[k].before = disk /\ backup' \in {disk, NULL}
    BY <1>3, BackupMoves DEF StageBackup, OpAt
  <2>2. ~At(k, "rollback")
    BY <2>1 DEF BackupInv, Answer
  <2> QED
    BY <1>0, <1>2, <2>1, <2>2 DEF BackupInv, Tried, At
<1>4. CASE ~StageBackup(k)
  <2>1. ops'[k].before = ops[k].before /\ (ops[k].step = "stage" => ops'[k].step = "error")
    BY <1>4, GuestPaths, GuestFrom
  <2>2. Tried(k)' => Tried(k)
    BY <1>0, <1>1, <2>1 DEF Tried, At, OpRunning, OpStep
  <2>3. backup' \in {backup, NULL}
    BY <1>4 DEF GuestProcess, Stage, Undo, Commit, ForwardFails, StageRefused, StageInvalid,
       StageArm, StageInstall, StageReload, StageReloadRaises, StageRecord, Rollback,
       RollbackRefused, RollbackDisarm, CommitVerify, CommitRefused, CommitCancel, CommitClean, guest
  <2>4. ASSUME At(k, "rollback")
        PROVE  /\ ops'[k].step \in {"rollback", "disarm"} \cup Answer
               /\ ops'[k].step \in {"disarm", "ok"} => disk' = ops[k].before /\ live' = ops[k].before
    <3>1. ops[k].step \in {"rollback", "disarm"}
      BY <1>1, <2>4 DEF BackupInv, OpRunning, OpStep, Answer
    <3>2. ForwardFails(k) \/ Undo(k)
      BY <1>4, <3>1 DEF GuestProcess, Stage, Commit, StageRefused, StageInvalid, StageArm, StageInstall,
         StageReload, StageReloadRaises, StageRecord, CommitVerify, CommitRefused, CommitCancel,
         CommitClean, OpAt
    <3>3. CASE ForwardFails(k) \/ RollbackRefused(k)
      BY <1>0, <3>3, OpMoves DEF ForwardFails, RollbackRefused, OpStep, Answer
    <3>4. CASE Rollback(k)
      <4>1. ops'[k].step = "disarm" /\ txn # NULL /\ ~(script = "copy" /\ backup = NULL) /\ Restore
        BY <1>0, <3>4, OpMoves, ApplianceAssumption DEF Rollback, OpStep, ApplianceAssumption
      <4>2. script = "copy" /\ backup = ops[k].before
        BY <2>4, <4>1 DEF GuardInv, BackupInv, Tried, At, Phase
      <4> QED
        BY <4>1, <4>2 DEF Restore
    <3>5. CASE RollbackDisarm(k)
      <4>1. ops[k].step = "disarm" /\ ops'[k].step = "ok" /\ UNCHANGED <<disk, live>>
        BY <1>0, <3>5, OpMoves DEF RollbackDisarm, OpAt, OpStep, Answer
      <4> QED
        BY <2>4, <4>1 DEF BackupInv, Answer
    <3> QED
      BY <3>2, <3>3, <3>4, <3>5 DEF Undo
  <2> QED
    BY <1>0, <1>2, <2>1, <2>2, <2>3, <2>4 DEF BackupInv, Tried, At
<1> QED
  BY <1>3, <1>4

LEMMA BackupFire ==
    ASSUME GuardInv, BackupInv, Fire
    PROVE  BackupInv'
<1>1. script = "copy" /\ Restore /\ UNCHANGED <<backup, ops, applies>>
  BY DEF Fire, GuestOnly, GuardInv
<1>2. ASSUME NEW k \in Apply, At(k, "rollback"), ops[k].step \in {"disarm", "ok"}
      PROVE  disk' = ops[k].before /\ live' = ops[k].before
  <2>1. disk = ops[k].before /\ live = ops[k].before /\ backup \in {ops[k].before, NULL}
    BY <1>2 DEF BackupInv, Tried, At, Phase
  <2> QED
    BY <1>1, <2>1 DEF Restore
<1> QED
  BY <1>1, <1>2 DEF BackupInv, Tried, At

LEMMA BackupBackend ==
    ASSUME TypeOK, BackupInv, NEW k \in Apply, Begin(k) \/ Refused(k) \/ Backend(k)
    PROVE  BackupInv'
<1>1. /\ \A h \in Apply \ {k} : ops'[h] = ops[h] /\ applies'[h] = applies[h]
      /\ ops'[k].before = ops[k].before
      /\ UNCHANGED <<disk, live, backup>>
  BY BackendPaths
<1>2. (Tried(k)' => Tried(k)) /\ (At(k, "rollback")' => ops'[k].step = "rollback")
  <2>1. CASE Begin(k)
    <3>1. ops'[k].step = "stage" /\ applies'[k].pc = "stage"
      BY <2>1, OpMoves DEF Begin, OpStep, TypeOK, OpsTyped, ApplyState
    <3> QED
      BY <3>1 DEF Tried, At
  <2>2. CASE Refused(k) \/ Backend(k)
    BY <2>2, BackendFrom DEF Tried, At
  <2> QED
    BY <2>1, <2>2
<1> QED
  BY <1>1, <1>2 DEF BackupInv, Tried, At

-----------------------------------------------------------------------------
\* Squid's allowlist and the tunnels it has spliced.

\* Squid runs with the allowlist of the file, and no tunnel is beyond it.
Aligned == Spliced(squid) = Spliced(disk) /\ tunnels \subseteq Spliced(disk)

\* The files are new, Squid is as the stage found it.
Behind(k) ==
    /\ disk = applies[k].rev
    /\ Spliced(squid) = Spliced(ops[k].before) /\ tunnels \subseteq Spliced(ops[k].before)

\* The guest has reloaded for k, as far as the backend can tell.
Loaded(k) ==
    \/ ops[k].step \in {"commit", "cancel", "clean", "disarm"}
    \/ applies[k].pc \in {"observe", "digests", "commit"}
    \/ At(k, "stage") /\ ops[k].step \in {"record", "ok", "bad"}

SquidOf(k) ==
    /\ ops[k].step \in {"arm", "install"} => Aligned /\ disk = ops[k].before
    /\ ops[k].step \in {"arm", "install", "reload"} =>
        /\ ops[k].before \in Installed
        /\ ops[k].reload = Changed(ops[k].before, applies[k].rev)
        /\ ops[k].restart = NeedsSquidRestart(ops[k].before, applies[k].rev)
    /\ ops[k].step = "reload" => Aligned \/ Behind(k)
    /\ Loaded(k) => Aligned
    /\ At(k, "stage") => ops[k].step \in {"stage"} \cup Writing \cup Answer
    /\ applies[k].pc \in Phase \ {"stage"} => ops[k].step \notin {"stage"} \cup Writing

\* A revocation that is not in force yet is under a timer that can undo it.
SquidInv ==
    /\ Aligned \/ (timer /\ script = "copy" /\ backup # NULL)
    /\ \A k \in Apply : SquidOf(k)

\* A tunnel is of a lab the latest plan wants, and the backend waits for that plan.
WantedInv ==
    /\ \A t \in tunnels : t[1] \in Serves[wanted]
    /\ \A k \in Apply : applies[k].pc \in Phase => wanted = applies[k].rev

\* What a stage foresaw for Squid stays until it is done.
LEMMA Foresight ==
    ASSUME TypeOK, NEW k \in Apply, GuestProcess(k)
    PROVE  \/ /\ StageBackup(k)
              /\ ops'[k].reload = Changed(disk, applies[k].rev)
              /\ ops'[k].restart = NeedsSquidRestart(disk, applies[k].rev)
           \/ /\ ~StageBackup(k)
              /\ ops'[k].reload = ops[k].reload /\ ops'[k].restart = ops[k].restart
<1>1. ops \in [Apply -> Op]
  BY DEF TypeOK
<1>2. CASE StageBackup(k)
  <2> DEFINE reload == Changed(disk, applies[k].rev)
             restart == NeedsSquidRestart(disk, applies[k].rev)
             new == [ops[k] EXCEPT !.step = "arm", !.before = disk,
                                   !.reload = reload, !.restart = restart]
  <2>1. ops' = [ops EXCEPT ![k] = new]
    BY <1>1, <1>2 DEF StageBackup
  <2> HIDE DEF reload, restart
  <2>2. new.reload = reload /\ new.restart = restart
    BY <1>1 DEF Op
  <2> HIDE DEF new
  <2> QED
    BY <1>1, <1>2, <2>1, <2>2 DEF reload, restart
<1>3. CASE StageReload(k)
  <2>1. PICK converged \in BOOLEAN :
            ops' = [ops EXCEPT ![k] = [@ EXCEPT !.step = "record", !.converged = converged]]
    <3>1. PICK healthy \in BOOLEAN :
            ops' = [ops EXCEPT ![k].step = "record",
                               ![k].converged = healthy /\ LiveRevision' = applies[k].rev]
      BY <1>3 DEF StageReload
    <3> QED
      BY <1>1, <3>1
  <2>2. ~StageBackup(k)
    BY <1>3 DEF StageReload, StageBackup, OpAt
  <2> DEFINE new == [ops[k] EXCEPT !.step = "record", !.converged = converged]
  <2>3. ops' = [ops EXCEPT ![k] = new] /\ new.reload = ops[k].reload /\ new.restart = ops[k].restart
    BY <1>1, <2>1 DEF Op
  <2> HIDE DEF new
  <2> QED
    BY <1>1, <2>2, <2>3
<1>4. CASE ~StageBackup(k) /\ ~StageReload(k)
  <2>1. \E step \in OpStep \cup Answer : OpGoto(k, step)
    BY <1>4 DEF GuestProcess, Stage, Undo, Commit, ForwardFails, StageRefused, StageInvalid, StageArm,
         StageInstall, StageReloadRaises, StageRecord, Rollback, RollbackRefused, RollbackDisarm,
         CommitVerify, CommitRefused, CommitCancel, CommitClean, OpStep, Answer
  <2> QED
    BY <1>1, <1>4, <2>1 DEF OpGoto, Op
<1> QED
  BY <1>2, <1>3, <1>4

\* A reload brings Squid to the files, whether or not there was a need to.
LEMMA LoadsAligned ==
    ASSUME TypeOK, NEW k \in Apply, SquidLoads(k), disk' = disk
    PROVE  /\ Aligned => Aligned'
           /\ /\ Behind(k) /\ ops[k].before \in Installed
              /\ ops[k].reload = Changed(ops[k].before, applies[k].rev)
              /\ ops[k].restart = NeedsSquidRestart(ops[k].before, applies[k].rev)
              /\ wanted = applies[k].rev /\ \A t \in tunnels : t[1] \in Serves[wanted]
              => Aligned'
<1>1. squid' \in {disk, squid} /\ tunnels' \subseteq tunnels
  BY DEF SquidLoads
<1>2. ASSUME Aligned PROVE Aligned'
  BY <1>1, <1>2 DEF Aligned
<1>3. ASSUME Behind(k), ops[k].before \in Installed,
             ops[k].reload = Changed(ops[k].before, applies[k].rev),
             ops[k].restart = NeedsSquidRestart(ops[k].before, applies[k].rev),
             wanted = applies[k].rev, \A t \in tunnels : t[1] \in Serves[wanted]
      PROVE  Aligned'
  <2> DEFINE old == ops[k].before
             new == applies[k].rev
  <2>1. disk = new /\ Spliced(squid) = Spliced(old) /\ tunnels \subseteq Spliced(old)
        /\ new \in Revision /\ new # Absent
    BY <1>3, ApplianceAssumption DEF Behind, TypeOK, ApplianceAssumption
  <2>2. Spliced(squid') = Spliced(disk)
    <3>1. CASE ops[k].reload
      BY <3>1 DEF SquidLoads
    <3>2. CASE ~ops[k].reload
      BY <1>3, <2>1, <3>2 DEF SquidLoads, Changed
    <3> QED
      BY <3>1, <3>2
  <2>3. ASSUME NEW t \in tunnels, ~ops[k].restart PROVE t \in Spliced(new)
    <3>1. t \in Spliced(old) /\ old # Absent
      BY <2>1 DEF Spliced
    <3>2. t[1] \in Served(new) /\ t \in Lab \X Domain
      BY <1>3, <2>1, <2>3 DEF Served, TypeOK
    <3>3. t[1] \in Served(old)
      <4>1. old \in Revision
        BY <1>3, <3>1 DEF Installed
      <4> QED
        BY <3>1, <4>1, ApplianceAssumption DEF Served, Spliced, ApplianceAssumption
    <3>4. Domains(old, t[1]) \in {{}, Domains(new, t[1])}
      BY <1>3, <2>3, <3>2, <3>3 DEF NeedsSquidRestart
    <3>5. t[2] \in Domains(old, t[1])
      BY <3>1 DEF Domains
    <3>6. PICK u \in Spliced(new) : u[1] = t[1] /\ u[2] = t[2]
      BY <3>4, <3>5 DEF Domains
    <3>7. u \in Lab \X Domain
      BY <2>1, <3>6, ApplianceAssumption DEF Spliced, ApplianceAssumption
    <3> QED
      BY <3>2, <3>6, <3>7
  <2>4. tunnels' \subseteq Spliced(disk)
    BY <2>1, <2>3 DEF SquidLoads
  <2> QED
    BY <2>2, <2>4 DEF Aligned
<1> QED
  BY <1>2, <1>3

\* Where one apply writes, no other has loaded.
LEMMA LoadedAlone ==
    ASSUME AloneInv, NEW k \in Apply, ops[k].step \in Writing, NEW h \in Apply \ {k}
    PROVE  ~Loaded(h) /\ ops[h].step \notin Writing
BY DEF AloneInv, Loaded, Writing, OpStep, Phase, At

\* What another apply does leaves one as it was, as long as the files stay and
\* Squid does not fall behind them.
LEMMA SquidOther ==
    ASSUME NEW h \in Apply, SquidOf(h), ops'[h] = ops[h], applies'[h] = applies[h],
           \/ Aligned' /\ (ops[h].step \in {"arm", "install"} => disk' = disk)
           \/ UNCHANGED <<disk, squid>> /\ tunnels' = tunnels
           \/ ops[h].step \notin Writing /\ ~Loaded(h)
    PROVE  SquidOf(h)'
<1>1. Loaded(h)' = Loaded(h) /\ At(h, "stage")' = At(h, "stage")
  BY DEF Loaded, At
<1>2. CASE Aligned' /\ (ops[h].step \in {"arm", "install"} => disk' = disk)
  BY <1>1, <1>2 DEF SquidOf
<1>3. CASE UNCHANGED <<disk, squid>> /\ tunnels' = tunnels
  <2>1. Aligned' = Aligned /\ Behind(h)' = Behind(h)
    BY <1>3 DEF Aligned, Behind
  <2> QED
    BY <1>1, <1>3, <2>1 DEF SquidOf
<1>4. CASE ops[h].step \notin Writing /\ ~Loaded(h)
  BY <1>1, <1>4 DEF SquidOf, Writing
<1> QED
  BY <1>2, <1>3, <1>4

LEMMA SquidGuest ==
    ASSUME TypeOK, RevInv, GuardInv, AloneInv, SquidInv, WantedInv,
           NEW k \in Apply, GuestProcess(k), ~stacked'
    PROVE  SquidInv'
<1>0. /\ OpsTyped /\ UNCHANGED <<applies, wanted>> /\ SquidOf(k)
      /\ \A h \in Apply \ {k} : ops'[h] = ops[h] /\ applies'[h] = applies[h] /\ SquidOf(h)
      /\ At(k, "stage")' = At(k, "stage")
  BY GuestPaths DEF TypeOK, OpsTyped, SquidInv, At
<1> USE DEF OpStep, Answer
<1>1. CASE \/ ForwardFails(k) \/ StageRefused(k) \/ StageInvalid(k) \/ RollbackRefused(k)
           \/ CommitRefused(k)
  <2>1. ops'[k].step = "error" /\ UNCHANGED guest
    BY <1>0, <1>1, OpMoves DEF ForwardFails, StageRefused, StageInvalid, RollbackRefused, CommitRefused
  <2>2. Aligned' = Aligned /\ UNCHANGED <<disk, squid>> /\ tunnels' = tunnels
    BY <2>1 DEF Aligned, guest, proxy
  <2>3. SquidOf(k)'
    BY <1>0, <2>1, <2>2 DEF SquidOf, Loaded, At, Writing
  <2>4. \A h \in Apply \ {k} : SquidOf(h)'
    BY <1>0, <2>2, SquidOther
  <2> QED
    BY <2>1, <2>2, <2>3, <2>4 DEF SquidInv, guest
<1>2. CASE StageBackup(k)
  <2>1. ~timer /\ UNCHANGED <<disk, squid>> /\ tunnels' = tunnels /\ ops[k].step = "stage"
    BY <1>2 DEF StageBackup, OpRunning, proxy, OpAt
  <2>2. Aligned /\ Aligned'
    BY <2>1 DEF SquidInv, Aligned
  <2>3. ops'[k].step = "arm" /\ ops'[k].before = disk
    BY <1>2, BackupMoves
  <2>4. disk \in Installed /\ applies[k].pc \notin Phase \ {"stage"}
    BY <1>0, <2>1 DEF TypeOK, SquidOf
  <2>5. SquidOf(k)'
    BY <1>0, <1>2, <2>1, <2>2, <2>3, <2>4, Foresight DEF SquidOf, Loaded, At, Writing
  <2>6. \A h \in Apply \ {k} : SquidOf(h)'
    BY <1>0, <2>1, SquidOther
  <2> QED
    BY <2>2, <2>5, <2>6 DEF SquidInv
<1>3. CASE StageArm(k)
  <2>1. ~timer /\ ops[k].step = "arm" /\ UNCHANGED <<disk, squid>> /\ tunnels' = tunnels
    BY <1>3 DEF StageArm, GuardInv, proxy, OpAt
  <2>2. Aligned /\ Aligned'
    BY <2>1 DEF SquidInv, Aligned
  <2>3. ops'[k].step = "install" /\ ops'[k].before = ops[k].before
    BY <1>0, <1>3, <2>1, OpMoves DEF StageArm
  <2>4. ops'[k].reload = ops[k].reload /\ ops'[k].restart = ops[k].restart
    BY <1>3, Foresight DEF StageArm, StageBackup, OpAt
  <2>5. SquidOf(k)'
    BY <1>0, <2>1, <2>2, <2>3, <2>4 DEF SquidOf, Loaded, At, Writing
  <2>6. \A h \in Apply \ {k} : SquidOf(h)'
    BY <1>0, <2>1, SquidOther
  <2> QED
    BY <2>2, <2>5, <2>6 DEF SquidInv
<1>4. CASE StageInstall(k)
  <2>1. /\ ops[k].step = "install" /\ disk' = applies[k].rev
        /\ UNCHANGED <<backup, script, timer, squid>> /\ tunnels' = tunnels
    BY <1>4 DEF StageInstall, OpAt, proxy
  <2>2. ops'[k].step = "reload" /\ ops'[k].before = ops[k].before
    BY <1>0, <1>4, OpMoves DEF StageInstall
  <2>3. ops'[k].reload = ops[k].reload /\ ops'[k].restart = ops[k].restart
    BY <1>4, <2>1, Foresight DEF StageBackup, OpAt
  <2>4. timer /\ backup # NULL /\ script = "copy"
    BY <2>1 DEF GuardInv, OpAt
  <2>5. Behind(k)'
    BY <1>0, <2>1, <2>2 DEF SquidOf, Behind, Aligned
  <2>6. ~Loaded(k)'
    BY <1>0, <2>1, <2>2 DEF SquidOf, Loaded, At, Writing, Phase
  <2>7. SquidOf(k)'
    BY <1>0, <2>1, <2>2, <2>3, <2>5, <2>6 DEF SquidOf, At, Writing
  <2>8. \A h \in Apply \ {k} : SquidOf(h)'
    <3>1. ops[k].step \in Writing
      BY <2>1 DEF Writing
    <3> QED
      BY <1>0, <3>1, LoadedAlone, SquidOther
  <2> QED
    BY <2>1, <2>4, <2>7, <2>8 DEF SquidInv
<1>5. CASE StageReload(k) \/ StageReloadRaises(k)
  <2>1. /\ ops[k].step = "reload" /\ ops'[k].step \in {"record", "error"}
        /\ UNCHANGED <<disk, backup, script, timer>>
        /\ SquidLoads(k) \/ (UNCHANGED proxy /\ ops'[k].step = "error")
    BY <1>0, <1>5, ReloadMoves, OpMoves DEF StageReload, StageReloadRaises, OpAt
  <2>2. Aligned => Aligned'
    BY <2>1, LoadsAligned DEF Aligned, proxy
  <2>3. SquidLoads(k) /\ At(k, "stage") => Aligned'
    <3>1. At(k, "stage") => wanted = applies[k].rev
      BY DEF WantedInv, At, Phase
    <3>2. /\ ops[k].before \in Installed
          /\ ops[k].reload = Changed(ops[k].before, applies[k].rev)
          /\ ops[k].restart = NeedsSquidRestart(ops[k].before, applies[k].rev)
          /\ Aligned \/ Behind(k)
      BY <1>0, <2>1 DEF SquidOf
    <3> QED
      BY <2>1, <3>1, <3>2, LoadsAligned DEF WantedInv
  <2>4. applies[k].pc \notin Phase \ {"stage"}
    BY <1>0, <2>1 DEF SquidOf, Writing
  <2>5. Loaded(k)' => Aligned'
    BY <1>0, <2>1, <2>3, <2>4 DEF Loaded, At, Phase
  <2>6. SquidOf(k)'
    BY <1>0, <2>1, <2>4, <2>5 DEF SquidOf, At, Writing
  <2>7. \A h \in Apply \ {k} : SquidOf(h)'
    <3>1. ops[k].step \in Writing
      BY <2>1 DEF Writing
    <3> QED
      BY <1>0, <3>1, LoadedAlone, SquidOther
  <2> QED
    BY <2>1, <2>2, <2>6, <2>7 DEF SquidInv
<1>6. CASE StageRecord(k)
  <2>1. /\ ops[k].step = "record" /\ ops'[k].step \in {"ok", "bad"}
        /\ UNCHANGED <<disk, backup, script, timer, squid>> /\ tunnels' = tunnels
    BY <1>0, <1>6, OpMoves DEF StageRecord, OpAt, proxy
  <2>2. Aligned' = Aligned /\ (Loaded(k)' => Loaded(k))
    BY <1>0, <2>1 DEF Aligned, Loaded, At
  <2>3. SquidOf(k)'
    BY <1>0, <2>1, <2>2 DEF SquidOf, Writing
  <2>4. \A h \in Apply \ {k} : SquidOf(h)'
    BY <1>0, <2>1, SquidOther
  <2> QED
    BY <2>1, <2>2, <2>3, <2>4 DEF SquidInv
<1>7. CASE Rollback(k)
  <2>1. /\ ops[k].step = "rollback" /\ ops'[k].step = "disarm" /\ Restore
        /\ ~(script = "copy" /\ backup = NULL)
    BY <1>0, <1>7, OpMoves DEF Rollback, OpAt
  <2>2. Aligned'
    BY <2>1 DEF Restore, Aligned
  <2>3. ~At(k, "stage")
    BY <1>0, <2>1 DEF SquidOf, Writing
  <2>4. SquidOf(k)'
    BY <1>0, <2>1, <2>2, <2>3 DEF SquidOf, Writing
  <2>5. \A h \in Apply \ {k} : SquidOf(h)'
    <3>1. \A h \in Apply \ {k} : ops[h].step \notin {"arm", "install"}
      BY <2>1 DEF AloneInv, Writing
    <3> QED
      BY <1>0, <2>2, <3>1, SquidOther
  <2> QED
    BY <2>2, <2>4, <2>5 DEF SquidInv
<1>8. CASE RollbackDisarm(k) \/ CommitVerify(k) \/ CommitCancel(k) \/ CommitClean(k)
  <2>1. /\ ops[k].step \in {"disarm", "commit", "cancel", "clean"}
        /\ ops'[k].step \in {"cancel", "clean", "ok", "bad"}
        /\ UNCHANGED <<disk, squid>> /\ tunnels' = tunnels
    BY <1>0, <1>8, OpMoves DEF RollbackDisarm, CommitVerify, CommitCancel, CommitClean, OpAt, proxy, guest
  <2>2. Aligned /\ Aligned'
    BY <1>0, <2>1 DEF SquidOf, Loaded, Aligned
  <2>3. ~At(k, "stage")
    BY <1>0, <2>1 DEF SquidOf, Writing
  <2>4. SquidOf(k)'
    BY <1>0, <2>1, <2>2, <2>3 DEF SquidOf, Writing
  <2>5. \A h \in Apply \ {k} : SquidOf(h)'
    BY <1>0, <2>1, SquidOther
  <2> QED
    BY <2>2, <2>4, <2>5 DEF SquidInv
<1> QED
  BY <1>1, <1>2, <1>3, <1>4, <1>5, <1>6, <1>7, <1>8
     DEF GuestProcess, Stage, Undo, Commit

\* The timer undoes, or there is nothing left to undo.
LEMMA SquidFire ==
    ASSUME GuardInv, SquidInv, Fire
    PROVE  SquidInv'
<1>1. /\ timer /\ script = "copy" /\ Restore /\ UNCHANGED <<ops, applies>>
      /\ \A k \in Apply : ops[k].step \notin {"arm", "install"}
  BY DEF Fire, GuestOnly, GuardInv, OpAt
<1>2. Aligned'
  <2>1. CASE backup = NULL
    BY <1>1, <2>1 DEF Restore, SquidInv, Aligned, proxy
  <2>2. CASE backup # NULL
    BY <1>1, <2>2 DEF Restore, Aligned
  <2> QED
    BY <2>1, <2>2
<1> QED
  BY <1>1, <1>2, SquidOther DEF SquidInv

\* A tunnel is opened through what Squid runs with.
LEMMA SquidOpens ==
    ASSUME SquidInv, OpenTunnel
    PROVE  SquidInv'
<1>1. UNCHANGED <<disk, backup, script, timer, squid, ops, applies>>
      /\ \E t \in Spliced(squid) : tunnels' = tunnels \cup {t}
  BY DEF OpenTunnel, GuestOnly
<1>2. (Aligned => Aligned') /\ \A k \in Apply : Behind(k) => Behind(k)'
  BY <1>1 DEF Aligned, Behind
<1>3. \A k \in Apply : SquidOf(k)'
  BY <1>1, <1>2 DEF SquidInv, SquidOf, Loaded, At
<1> QED
  BY <1>1, <1>2, <1>3 DEF SquidInv

LEMMA SquidBackend ==
    ASSUME TypeOK, SquidInv, NEW k \in Apply, Begin(k) \/ Refused(k) \/ Backend(k)
    PROVE  SquidInv'
<1>0. /\ OpsTyped /\ AppliesTyped /\ SquidOf(k)
      /\ \A h \in Apply \ {k} : ops'[h] = ops[h] /\ applies'[h] = applies[h] /\ SquidOf(h)
      /\ UNCHANGED <<disk, backup, script, timer, squid>>
      /\ ops'[k].before = ops[k].before
  BY BackendPaths DEF TypeOK, OpsTyped, AppliesTyped, SquidInv
<1>1. CASE Begin(k)
  <2>1. ops'[k].step = "stage" /\ applies'[k].pc = "stage" /\ tunnels' \subseteq tunnels
    BY <1>0, <1>1, OpMoves DEF Begin, OpStep, AppliesTyped, ApplyState
  <2>2. (Aligned => Aligned') /\ \A h \in Apply \ {k} : Behind(h) => Behind(h)'
    BY <1>0, <2>1 DEF Aligned, Behind
  <2>3. SquidOf(k)'
    BY <2>1 DEF SquidOf, Loaded, At, Writing
  <2>4. \A h \in Apply \ {k} : SquidOf(h)'
    BY <1>0, <2>2 DEF SquidOf, Loaded, At
  <2> QED
    BY <1>0, <2>2, <2>3, <2>4 DEF SquidInv
<1>2. CASE Refused(k) \/ Backend(k)
  <2>1. tunnels' = tunnels
    BY <1>2 DEF Refused, Backend, Staged, StagedBadly, ObserveRuleset, ObserveFiles, DriftRemains,
       OtherDrift, Unobservable, Committed, Undone, Failed, GiveUp, BackendOnly, guest, proxy
  <2>2. Aligned' = Aligned
    BY <1>0, <2>1 DEF Aligned
  <2>3. applies'[k].rev = applies[k].rev
    <3>1. ASSUME Begin(k) PROVE applies'[k].pc = "stage"
      <4>1. PICK r \in Revision : applies' = [applies EXCEPT ![k].pc = "stage", ![k].rev = r]
        BY <3>1 DEF Begin
      <4> QED
        BY <1>0, <4>1 DEF AppliesTyped, ApplyState
    <3>2. ~Begin(k)
      BY <1>2, <3>1, BackendFrom DEF Phase
    <3> QED
      BY <3>2, BackendPaths
  <2>4. Loaded(k)' => Loaded(k)
    <3>1. CASE Refused(k) \/ GiveUp(k)
      BY <1>0, <3>1, BackendMoves DEF Refused, GiveUp, Loaded, At
    <3>2. CASE ObserveRuleset(k)
      BY <3>2 DEF ObserveRuleset, Loaded, At
    <3>3. CASE Staged(k)
      BY <3>3 DEF Staged, Loaded, At, OpAt
    <3>4. CASE ObserveFiles(k)
      BY <3>4 DEF ObserveFiles, Loaded, At
    <3>5. CASE StagedBadly(k) \/ DriftRemains(k) \/ OtherDrift(k) \/ Unobservable(k)
      BY <1>0, <3>5, BackendMoves, OpMoves DEF StagedBadly, DriftRemains, OtherDrift, Unobservable,
         Call, Loaded, At, Phase, OpStep
    <3>6. CASE Committed(k) \/ Undone(k) \/ Failed(k)
      BY <1>0, <3>6, BackendMoves, OpMoves DEF Committed, Undone, Failed, Call, Loaded, At
    <3> QED
      BY <1>2, <3>1, <3>2, <3>3, <3>4, <3>5, <3>6 DEF Backend
  <2>5. \/ ops' = ops
        \/ ops'[k].step \in {"none", "commit", "rollback"}
    BY <1>2, BackendFrom
  <2>6. /\ ~At(k, "stage")'
        /\ applies'[k].pc \in Phase \ {"stage"} => ops'[k].step \notin {"stage"} \cup Writing
    <3>1. applies'[k].pc \in Phase => applies'[k].pc # "stage"
      BY <1>2, BackendFrom
    <3>2. CASE ObserveRuleset(k)
      <4>1. applies[k].pc \in Phase \ {"stage"} /\ ops' = ops
        BY <3>2 DEF ObserveRuleset, At, Phase
      <4> QED
        BY <1>0, <3>1, <4>1 DEF SquidOf, At, Phase
    <3>3. CASE ~ObserveRuleset(k)
      <4>1. \/ Refused(k) \/ GiveUp(k)
            \/ \E pc \in {"observe", "commit", "rollback", "succeeded", "undone", "failed"},
                  step \in {"none", "commit", "rollback"} : Call(k, pc, step)
        BY <1>2, <3>3 DEF Backend, Staged, StagedBadly, ObserveFiles, DriftRemains, OtherDrift,
           Unobservable, Committed, Undone, Failed
      <4>2. CASE Refused(k) \/ GiveUp(k)
        BY <1>0, <4>2, BackendMoves DEF Refused, GiveUp, At, Phase
      <4>3. CASE \E pc \in {"observe", "commit", "rollback", "succeeded", "undone", "failed"},
                   step \in {"none", "commit", "rollback"} : Call(k, pc, step)
        <5>1. ops'[k].step \in {"none", "commit", "rollback"}
          BY <1>0, <4>3, OpMoves DEF Call, OpStep
        <5> QED
          BY <3>1, <5>1 DEF At, Writing, Phase
      <4> QED
        BY <4>1, <4>2, <4>3
    <3> QED
      BY <3>2, <3>3
  <2>7. SquidOf(k)'
    BY <1>0, <2>1, <2>2, <2>3, <2>4, <2>5, <2>6 DEF SquidOf, Behind
  <2>8. \A h \in Apply \ {k} : SquidOf(h)'
    BY <1>0, <2>1, SquidOther
  <2> QED
    BY <1>0, <2>2, <2>7, <2>8 DEF SquidInv
<1> QED
  BY <1>1, <1>2

\* The lock keeps the plan: no other is begun while the backend waits.
LEMMA WantedGuest ==
    ASSUME TypeOK, WantedInv, NEW k \in Apply, GuestProcess(k)
    PROVE  WantedInv'
<1>1. tunnels' \subseteq tunnels
  BY DEF GuestProcess, Stage, Undo, Commit, StageBackup, ForwardFails, StageRefused, StageInvalid,
     StageArm, StageInstall, StageReload, StageReloadRaises, StageRecord, Rollback, RollbackRefused,
     RollbackDisarm, CommitVerify, CommitRefused, CommitCancel, CommitClean, SquidLoads, Restore,
     guest, proxy
<1> QED
  BY <1>1, GuestPaths DEF WantedInv

LEMMA WantedBackend ==
    ASSUME TypeOK, WantedInv, NEW k \in Apply, Begin(k) \/ Refused(k) \/ Backend(k)
    PROVE  WantedInv'
<1>0. /\ AppliesTyped
      /\ \A h \in Apply \ {k} : applies'[h] = applies[h]
      /\ ~Begin(k) => applies'[k].rev = applies[k].rev
  BY BackendPaths DEF TypeOK, AppliesTyped
<1>1. CASE Begin(k)
  <2>1. PICK r \in Revision :
            /\ applies' = [applies EXCEPT ![k].pc = "stage", ![k].rev = r]
            /\ wanted' = r /\ tunnels' = {t \in tunnels : t[1] \in Serves[r]}
    BY <1>1 DEF Begin
  <2>2. applies'[k].rev = r
    BY <1>0, <2>1 DEF AppliesTyped, ApplyState
  <2>3. \A h \in Apply \ {k} : applies'[h].pc \notin Phase
    BY <1>0, <1>1 DEF Begin, LockFree
  <2> QED
    BY <2>1, <2>2, <2>3 DEF WantedInv
<1>2. CASE ~Begin(k)
  <2>1. UNCHANGED <<wanted, tunnels>>
    BY <1>2 DEF Refused, Backend, Staged, StagedBadly, ObserveRuleset, ObserveFiles, DriftRemains,
       OtherDrift, Unobservable, Committed, Undone, Failed, GiveUp, BackendOnly, guest, proxy
  <2>2. applies'[k].pc \in Phase => applies[k].pc \in Phase
    BY <1>2, BackendFrom DEF Tried
  <2> QED
    BY <1>0, <1>2, <2>1, <2>2 DEF WantedInv
<1> QED
  BY <1>1, <1>2

LEMMA WantedHolds == Spec => []WantedInv
<1>1. Init => WantedInv
  BY DEF Init, WantedInv, Phase
<1>2. TypeOK /\ WantedInv /\ [Next]_vars => WantedInv'
  <2> SUFFICES ASSUME TypeOK, WantedInv, [Next]_vars PROVE WantedInv'
    OBVIOUS
  <2>1. CASE Fire
    <3>1. tunnels' \subseteq tunnels /\ UNCHANGED <<wanted, applies>>
      BY <2>1 DEF Fire, Restore, GuestOnly, proxy
    <3> QED
      BY <3>1 DEF WantedInv
  <2>2. CASE OpenTunnel
    BY <2>2 DEF OpenTunnel, GuestOnly, WantedInv
  <2>3. CASE UNCHANGED vars
    BY <2>3 DEF vars, WantedInv
  <2> QED
    BY <2>1, <2>2, <2>3, WantedGuest, WantedBackend DEF Next
<1> QED
  BY <1>1, <1>2, TypesHold, PTL DEF Spec

-----------------------------------------------------------------------------
\* The theorems.

\* A stage that began on top of an unfinished one is not forgotten.
LEMMA StackedStays ==
    ASSUME TypeOK, [Next]_vars, stacked
    PROVE  stacked'
<1>1. ASSUME NEW k \in Apply, GuestProcess(k) PROVE stacked'
  BY <1>1, GuestPaths DEF StageBackup
<1> QED
  BY <1>1, BackendPaths DEF Next, Fire, OpenTunnel, vars

LEMMA SafetyStep ==
    ASSUME TypeOK, RevInv, SafetyInv, [Next]_vars
    PROVE  SafetyInv'
<1> SUFFICES ASSUME ~stacked' PROVE (GuardInv /\ AloneInv /\ TurnInv /\ BackupInv)'
  BY DEF SafetyInv
<1>0. GuardInv /\ AloneInv /\ TurnInv /\ BackupInv
  BY StackedStays DEF SafetyInv
<1>1. ASSUME NEW k \in Apply, GuestProcess(k)
      PROVE  (GuardInv /\ AloneInv /\ TurnInv /\ BackupInv)'
  BY <1>0, <1>1, GuardGuest, AloneGuest, TurnGuest, BackupGuest
<1>2. ASSUME NEW k \in Apply, Begin(k) \/ Refused(k) \/ Backend(k)
      PROVE  (GuardInv /\ AloneInv /\ TurnInv /\ BackupInv)'
  BY <1>0, <1>2, GuardBackend, AloneBackend, TurnBackend, BackupBackend
<1>3. CASE Fire
  <2>1. UNCHANGED <<ops, applies>>
    BY <1>3 DEF Fire, GuestOnly
  <2>2. AloneInv' /\ TurnInv'
    BY <1>0, <2>1 DEF AloneInv, TurnInv, Tried, At, OpRunning
  <2> QED
    BY <1>0, <1>3, <2>2, GuardFire, BackupFire
<1>4. CASE OpenTunnel \/ UNCHANGED vars
  <2>1. UNCHANGED <<disk, live, backup, script, txn, timer, ops, applies, proven>>
    BY <1>4 DEF OpenTunnel, GuestOnly, vars
  <2>2. GuardInv'
    BY <1>0, <2>1 DEF GuardInv, OpAt, Unproven
  <2>3. AloneInv' /\ TurnInv' /\ BackupInv'
    BY <1>0, <2>1 DEF AloneInv, TurnInv, BackupInv, Tried, At, OpRunning
  <2> QED
    BY <2>2, <2>3
<1> QED
  BY <1>1, <1>2, <1>3, <1>4 DEF Next

LEMMA SafetyHolds == Spec => [](TypeOK /\ RevInv /\ SafetyInv)
<1>1. Init => SafetyInv
  <2> SUFFICES ASSUME Init PROVE GuardInv /\ AloneInv /\ TurnInv /\ BackupInv
    BY DEF SafetyInv
  <2>1. ~Unproven /\ \A k \in Apply : ops[k].step = "none" /\ applies[k].pc = "idle"
    BY DEF Init, Unproven
  <2>2. GuardInv
    BY <2>1, ApplianceAssumption DEF Init, GuardInv, OpAt, ApplianceAssumption
  <2> QED
    BY <2>1, <2>2 DEF AloneInv, TurnInv, BackupInv, Tried, At, OpRunning, OpStep, Phase, Writing
<1>2. TypeOK /\ RevInv /\ SafetyInv /\ [Next]_vars => SafetyInv'
  BY SafetyStep
<1> QED
  BY <1>1, <1>2, TypesHold, PTL DEF Spec

\* What no observation has found in force is under an armed timer whose script
\* copies back files that one has, unless a stage began on top of an unfinished
\* one: whatever answers are lost, wherever the backend dies.
THEOREM UnprovenHolds == Spec => []UnprovenIsGuarded
<1>1. TypeOK /\ SafetyInv => UnprovenIsGuarded
  BY DEF SafetyInv, GuardInv, UnprovenIsGuarded
<1> QED
  BY <1>1, SafetyHolds, PTL

\* An apply that is reported as rolled back left the guest as its stage found it,
\* whether the rollback or the timer did it.
THEOREM RollbackHolds == Spec => RollbackRestores
<1>1. SafetyInv => \A k \in Apply : Undone(k) /\ ~stacked => disk = ops[k].before /\ live = ops[k].before
  BY DEF SafetyInv, BackupInv, Undone, OpAt
<1> QED
  BY <1>1, SafetyHolds, PTL DEF RollbackRestores

\* A stage decides between a reload and a restart of Squid from the files alone,
\* and that is enough: whatever fails, wherever the backend dies, no revocation is
\* without effect once no timer is armed.
THEOREM AllowlistHolds == Spec => []AllowlistIsInForce
<1> DEFINE Inv == stacked \/ SquidInv
<1>1. Init => Inv
  <2> SUFFICES ASSUME Init PROVE SquidInv
    OBVIOUS
  <2>1. Aligned /\ \A k \in Apply : ops[k].step = "none" /\ applies[k].pc = "idle"
    BY DEF Init, Aligned
  <2> QED
    BY <2>1 DEF SquidInv, SquidOf, Loaded, At, Phase
<1>2. /\ TypeOK /\ RevInv /\ SafetyInv /\ WantedInv /\ Inv /\ [Next]_vars
      => Inv'
  <2> SUFFICES ASSUME TypeOK, RevInv, SafetyInv, WantedInv, Inv, [Next]_vars, ~stacked'
               PROVE  SquidInv'
    OBVIOUS
  <2>1. GuardInv /\ AloneInv /\ SquidInv
    BY StackedStays DEF SafetyInv
  <2>2. CASE UNCHANGED vars
    BY <2>1, <2>2 DEF vars, SquidInv, SquidOf, Aligned, Behind, Loaded, At
  <2> QED
    BY <2>1, <2>2, SquidGuest, SquidBackend, SquidFire, SquidOpens DEF Next
<1>3. Inv => AllowlistIsInForce
  BY DEF SquidInv, Aligned, AllowlistIsInForce
<1> QED
  BY <1>1, <1>2, <1>3, SafetyHolds, WantedHolds, PTL DEF Spec

=============================================================================
