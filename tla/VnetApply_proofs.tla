--------------------------- MODULE VnetApply_proofs ---------------------------
(***************************************************************************)
(* For every number of VLANs, appliers, dry-runs, teardowns, retries and   *)
(* crashes:                                                                *)
(*   - VnetApply keeps its types, one process at most holds the            *)
(*     reconciliation lock, and the attempt table tells the truth about    *)
(*     it;                                                                 *)
(* and unless one group is torn down twice at once:                        *)
(*   - the VNet a create was told is ready stays while its group does;     *)
(*   - an attempt that says nothing was applied, or all was put back, left *)
(*     the VNets of its groups as it found them;                           *)
(*   - one that succeeded converged every group that is still there.       *)
(***************************************************************************)
EXTENDS VnetApply, TLAPS

\* Where a process holds the lock.
Holding == {"observe", "snapshot", "mutate", "apply", "verify", "undo", "undoApply"}

\* The lock is held exactly by the process that is inside, and the row is written
\* by an applier with its plan, by a dry-run with the lock.
LockInv ==
    /\ lock \in Process \cup {NoOne}
    /\ \A p \in Process :
        /\ procs[p].pc \in Holding <=> lock = p
        /\ Running(p) => lock = p \/ At(p, "dead")
        /\ procs[p].pc \in Holding \ {"observe"} => Running(p)
        /\ (p \in Applier /\ At(p, "observe")) => ~Running(p)

-----------------------------------------------------------------------------
\* The types.

ProcsTyped == procs \in [Process -> ProcState]
AttemptsTyped == attempts \in [Process -> Attempt]

LEMMA NewProcTyped == VnetAssumption => NewProc \in ProcState
BY DEF VnetAssumption, NewProc, ProcState, Step, Ended, Snapshot, Config, Revision, Absent

LEMMA AnswerTyped ==
    ASSUME ProcsTyped, NEW p \in Process, NEW a \in Ended, Answer(p, a)
    PROVE  ProcsTyped'
<1> DEFINE new == [NewProc EXCEPT !.pc = a]
<1>1. new \in ProcState
  BY NewProcTyped, VnetAssumption DEF ProcState, Step
<1>2. procs' = [procs EXCEPT ![p] = new]
  BY DEF Answer
<1> HIDE DEF new
<1> QED
  BY <1>1, <1>2 DEF ProcsTyped

LEMMA GotoTyped ==
    ASSUME ProcsTyped, NEW p \in Process, NEW s \in Step, Goto(p, s)
    PROVE  ProcsTyped'
BY DEF ProcsTyped, Goto, ProcState

\* The phases and statuses a row is given.
LEMMA RowsTyped ==
    ASSUME AttemptsTyped, NEW p \in Process,
           NEW status \in {"succeeded", "failed"},
           NEW phase \in {"planning", "planned", "applying", "verifying", "compensating", "applied",
                          "apply-failed", "compensated", "compensation-failed"}
    PROVE  /\ AbandonRunning \in [Process -> Attempt]
           /\ Create(attempts, p, phase) \in [Process -> Attempt]
           /\ Create(AbandonRunning, p, phase) \in [Process -> Attempt]
           /\ Checkpoint(p, phase) => AttemptsTyped'
           /\ Record(p, status, phase) => AttemptsTyped'
<1>1. AbandonRunning \in [Process -> Attempt]
  BY DEF AbandonRunning, AttemptsTyped, Attempt
<1>2. \A rows \in [Process -> Attempt] : Create(rows, p, phase) \in [Process -> Attempt]
  BY DEF Create, Attempt
<1>3. Checkpoint(p, phase) => AttemptsTyped'
  BY DEF Checkpoint, AttemptsTyped, Attempt
<1>4. Record(p, status, phase) => AttemptsTyped'
  BY DEF Record, AttemptsTyped, Attempt
<1> QED
  BY <1>1, <1>2, <1>3, <1>4 DEF AttemptsTyped

\* Every step of an applier keeps the types of the processes.
LEMMA ApplierProcs ==
    ASSUME TypeOK, NEW p \in Applier, ApplierStep(p)
    PROVE  ProcsTyped'
<1>0. ProcsTyped /\ p \in Process /\ procs[p] \in ProcState
  BY DEF TypeOK, ProcsTyped, Process
<1>1. ASSUME NEW a \in Ended, Answer(p, a) PROVE ProcsTyped'
  BY <1>0, <1>1, AnswerTyped
<1>2. ASSUME NEW new \in ProcState, procs' = [procs EXCEPT ![p] = new] PROVE ProcsTyped'
  BY <1>0, <1>2 DEF ProcsTyped
<1>3. ASSUME NEW s \in Step, NEW D \in SUBSET Slot,
             procs' = [procs EXCEPT ![p].pc = s, ![p].undo = D] PROVE ProcsTyped'
  BY <1>0, <1>3 DEF ProcsTyped, ProcState
<1>4. procs[p].started \in SUBSET Slot /\ procs[p].planned \in SUBSET Slot /\ procs[p].undo \in SUBSET Slot
  BY <1>0 DEF ProcState
<1>5. CASE ReadPlan(p)
  <2>1. DesiredRevision \in Revision /\ epoch[GoalOf[p]] \in 0..MaxEpoch
    BY VnetAssumption DEF DesiredRevision, Revision, TypeOK, VnetAssumption
  <2>2. CASE ledger[GoalOf[p]] = "operational"
    <3> DEFINE new == [procs[p] EXCEPT !.pc = "lock", !.expected = DesiredRevision,
                                       !.group = IF @ = 0 THEN epoch[GoalOf[p]] ELSE @]
    <3>1. procs' = [procs EXCEPT ![p] = new]
      BY <1>0, <1>5, <2>2 DEF ReadPlan, ProcsTyped
    <3>2. new \in ProcState
      BY <1>0, <2>1 DEF ProcState, Step
    <3> HIDE DEF new
    <3> QED
      BY <1>2, <3>1, <3>2
  <2>3. CASE ledger[GoalOf[p]] # "operational"
    BY <1>1, <1>5, <2>3 DEF ReadPlan, GiveUp, Ended
  <2> QED
    BY <2>2, <2>3
<1>6. CASE WaitForLock(p)
  <2>1. CASE procs[p].waits > 0
    <3> DEFINE left == procs[p].waits - 1
               new == [procs[p] EXCEPT !.pc = "read", !.waits = left]
    <3>1. procs' = [procs EXCEPT ![p] = new]
      BY <1>0, <1>6, <2>1 DEF WaitForLock, ProcsTyped
    <3>2. procs[p].waits \in 0..LockWaits
      BY <1>0 DEF ProcState
    <3>3. left \in 0..LockWaits
      BY <2>1, <3>2, VnetAssumption DEF VnetAssumption
    <3> HIDE DEF left
    <3>4. new \in ProcState
      BY <1>0, <3>3 DEF ProcState, Step
    <3> HIDE DEF new
    <3> QED
      BY <1>2, <3>1, <3>4
  <2>2. CASE ~(procs[p].waits > 0)
    BY <1>1, <1>6, <2>2 DEF WaitForLock, GiveUp, Ended
  <2> QED
    BY <2>1, <2>2
<1>7. CASE LoseRevision(p)
  <2>1. CASE procs[p].tries > 1
    <3> DEFINE left == procs[p].tries - 1
               new == [procs[p] EXCEPT !.pc = "read", !.tries = left]
    <3>1. procs' = [procs EXCEPT ![p] = new]
      BY <1>0, <1>7, <2>1 DEF LoseRevision, ProcsTyped
    <3>2. procs[p].tries \in 1..RevisionTries
      BY <1>0 DEF ProcState
    <3>3. left \in 1..RevisionTries
      BY <2>1, <3>2, VnetAssumption DEF VnetAssumption
    <3> HIDE DEF left
    <3>4. new \in ProcState
      BY <1>0, <3>3 DEF ProcState, Step
    <3> HIDE DEF new
    <3> QED
      BY <1>2, <3>1, <3>4
  <2>2. CASE ~(procs[p].tries > 1)
    BY <1>1, <1>7, <2>2 DEF LoseRevision, Ended
  <2> QED
    BY <2>1, <2>2
<1>8. CASE TakeLock(p)
  BY <1>0, <1>8, GotoTyped DEF TakeLock, Step
<1>9. CASE NotReadable(p) \/ FinishCompensation(p)
  BY <1>1, <1>9 DEF NotReadable, GiveUp, FinishCompensation, EndAttempt, Ended
<1>10. CASE ObserveAndPlan(p)
  <2> DEFINE new == [procs[p] EXCEPT !.pc = "snapshot", !.planned = Wanted(p), !.found = Observed]
  <2>1. procs' = [procs EXCEPT ![p] = new]
    BY <1>0, <1>10 DEF ObserveAndPlan, ProcsTyped
  <2>2. Wanted(p) \in SUBSET Slot /\ Observed \in Snapshot
    BY DEF Wanted, Targets, Observed, TypeOK
  <2>3. new \in ProcState
    BY <1>0, <2>2 DEF ProcState, Step
  <2> HIDE DEF new
  <2> QED
    BY <1>2, <2>1, <2>3
<1>11. CASE TakeSnapshot(p)
  <2>1. CASE StalePlan(p) \/ procs[p].planned = {}
    BY <1>1, <1>11, <2>1 DEF TakeSnapshot, EndAttempt, Succeed, Ended
  <2>2. CASE ~StalePlan(p) /\ procs[p].planned # {}
    <3> DEFINE new == [procs[p] EXCEPT !.pc = "mutate", !.before = staged]
    <3>1. procs' = [procs EXCEPT ![p] = new]
      BY <1>0, <1>11, <2>2 DEF TakeSnapshot, ProcsTyped
    <3>2. new \in ProcState
      BY <1>0 DEF ProcState, Step, TypeOK
    <3> HIDE DEF new
    <3> QED
      BY <1>2, <3>1, <3>2
  <2> QED
    BY <2>1, <2>2
<1>12. CASE Mutate(p)
  <2>1. PICK kind \in {"create", "update"} : \E s \in Planned(p, kind) \ procs[p].started :
          LET started == procs[p].started \cup {s}
              onTheWay == [procs EXCEPT ![p].started = started]
          IN \/ procs' = [onTheWay EXCEPT ![p].pc = IF started = procs[p].planned THEN "apply" ELSE "mutate"]
             \/ procs' = [procs EXCEPT ![p].pc = "undo", ![p].started = ToUndo(p, s), ![p].undo = ToUndo(p, s)]
    BY <1>12, Zenon DEF Mutate
  <2>1a. PICK s \in Planned(p, kind) \ procs[p].started :
          LET started == procs[p].started \cup {s}
              onTheWay == [procs EXCEPT ![p].started = started]
          IN \/ procs' = [onTheWay EXCEPT ![p].pc = IF started = procs[p].planned THEN "apply" ELSE "mutate"]
             \/ procs' = [procs EXCEPT ![p].pc = "undo", ![p].started = ToUndo(p, s), ![p].undo = ToUndo(p, s)]
    BY <2>1, Zenon
  <2>2. procs[p].started \cup {s} \in SUBSET Slot
    BY <1>4, <2>1a DEF Planned
  <2>3. PICK t \in Step, U \in SUBSET Slot :
          procs' = [procs EXCEPT ![p] = [procs[p] EXCEPT !.pc = t, !.started = procs[p].started \cup {s},
                                                         !.undo = U]]
    <3> DEFINE started == procs[p].started \cup {s}
               t == IF started = procs[p].planned THEN "apply" ELSE "mutate"
    <3>1. CASE procs' = [[procs EXCEPT ![p].started = started] EXCEPT ![p].pc = t]
      <4>1. procs' = [procs EXCEPT ![p] = [procs[p] EXCEPT !.pc = t, !.started = started,
                                                           !.undo = procs[p].undo]]
        BY <1>0, <3>1 DEF ProcsTyped, ProcState
      <4>2. t \in Step
        BY DEF Step
      <4> QED
        BY <1>4, <4>1, <4>2
    <3>2. CASE procs' = [procs EXCEPT ![p].pc = "undo", ![p].started = started, ![p].undo = started]
      <4>1. procs' = [procs EXCEPT ![p] = [procs[p] EXCEPT !.pc = "undo", !.started = started,
                                                           !.undo = started]]
        BY <1>0, <3>2 DEF ProcsTyped, ProcState
      <4> QED
        BY <2>2, <4>1 DEF Step
    <3> QED
      BY <2>1a, <3>1, <3>2 DEF ToUndo
  <2> DEFINE new == [procs[p] EXCEPT !.pc = t, !.started = procs[p].started \cup {s}, !.undo = U]
  <2>4. new \in ProcState
    BY <1>0, <2>2 DEF ProcState
  <2> HIDE DEF new
  <2>5. procs' = [procs EXCEPT ![p] = new]
    BY <2>3 DEF new
  <2> QED
    BY <1>2, <2>4, <2>5
<1>13. CASE ApplySdn(p)
  BY <1>0, <1>3, <1>4, <1>13, GotoTyped DEF ApplySdn, Step
<1>14. CASE Verify(p)
  BY <1>1, <1>3, <1>4, <1>14 DEF Verify, Succeed, EndAttempt, Step, Ended
<1>15. CASE Compensate(p)
  <2>1. PICK s \in procs[p].undo :
          \/ procs' = [procs EXCEPT ![p].undo = @ \ {s}, ![p].changed = @ \/ ~AsBefore(p, s),
                           ![p].pc = IF procs[p].undo = {s} THEN "undoApply" ELSE "undo"]
          \/ Answer(p, "failed")
    BY <1>15, Zenon DEF Compensate, EndAttempt
  <2>2. CASE Answer(p, "failed")
    BY <1>1, <2>2 DEF Ended
  <2>3. CASE procs' = [procs EXCEPT ![p].undo = @ \ {s}, ![p].changed = @ \/ ~AsBefore(p, s),
                           ![p].pc = IF procs[p].undo = {s} THEN "undoApply" ELSE "undo"]
    <3> DEFINE t == IF procs[p].undo = {s} THEN "undoApply" ELSE "undo"
               changed == procs[p].changed \/ ~AsBefore(p, s)
               new == [procs[p] EXCEPT !.undo = @ \ {s}, !.changed = changed, !.pc = t]
    <3>1. t \in Step /\ changed \in BOOLEAN
      BY DEF Step
    <3>2. procs' = [procs EXCEPT ![p] = new]
      BY <1>0, <2>3 DEF ProcsTyped
    <3> HIDE DEF t, changed
    <3>3. new \in ProcState
      BY <1>0, <3>1 DEF ProcState
    <3> HIDE DEF new
    <3> QED
      BY <1>2, <3>2, <3>3
  <2> QED
    BY <2>1, <2>2, <2>3
<1> QED
  BY <1>5, <1>6, <1>7, <1>8, <1>9, <1>10, <1>11, <1>12, <1>13, <1>14, <1>15 DEF ApplierStep

\* The rows an applier writes.
LEMMA ApplierRows ==
    ASSUME TypeOK, NEW p \in Applier, ApplierStep(p)
    PROVE  AttemptsTyped'
<1>0. AttemptsTyped /\ p \in Process
  BY DEF TypeOK, AttemptsTyped, Process
<1>1. CASE ReadPlan(p) \/ WaitForLock(p) \/ NotReadable(p) \/ ApplySdn(p)
  BY <1>0, <1>1 DEF ReadPlan, WaitForLock, NotReadable, ApplySdn, GiveUp, AttemptsTyped
<1>2. CASE LoseRevision(p) \/ TakeLock(p) \/ ObserveAndPlan(p)
  BY <1>0, <1>2, RowsTyped DEF LoseRevision, TakeLock, ObserveAndPlan, AttemptsTyped
<1>3. CASE TakeSnapshot(p)
  <2>1. EndAttempt(p, "failed", "failed", "apply-failed") \/ Succeed(p) \/ UNCHANGED attempts
    BY <1>3 DEF TakeSnapshot
  <2> QED
    BY <1>0, <2>1, RowsTyped DEF EndAttempt, Succeed, AttemptsTyped
<1>4. CASE Mutate(p)
  BY <1>0, <1>4, RowsTyped DEF Mutate
<1>5. CASE Verify(p)
  BY <1>0, <1>5, RowsTyped DEF Verify, Succeed, EndAttempt
<1>6. CASE Compensate(p)
  <2>1. Checkpoint(p, "compensating") \/ EndAttempt(p, "failed", "failed", "compensation-failed")
    BY <1>6, Zenon DEF Compensate
  <2> QED
    BY <1>0, <2>1, RowsTyped DEF EndAttempt
<1>7. CASE FinishCompensation(p)
  BY <1>0, <1>7, RowsTyped DEF FinishCompensation, EndAttempt
<1> QED
  BY <1>1, <1>2, <1>3, <1>4, <1>5, <1>6, <1>7 DEF ApplierStep

\* What an applier does to the lock, to Proxmox and to the answers.
LEMMA ApplierRest ==
    ASSUME TypeOK, NEW p \in Applier, ApplierStep(p)
    PROVE  /\ lock' \in Process \cup {NoOne}
           /\ staged' \in Snapshot /\ live' \in Snapshot
           /\ ready' \subseteq Slot
           /\ OnLedger /\ Aside
<1>0. /\ procs[p] \in ProcState /\ p \in Process /\ staged \in Snapshot /\ live \in Snapshot
      /\ lock \in Process \cup {NoOne} /\ ready \subseteq Slot
  BY DEF TypeOK, Process
<1>1. lock' \in {lock, p, NoOne}
  BY DEF ApplierStep, ReadPlan, WaitForLock, LoseRevision, TakeLock, NotReadable, ObserveAndPlan,
         TakeSnapshot, Mutate, ApplySdn, Verify, Compensate, FinishCompensation,
         GiveUp, Succeed, EndAttempt, Unlock
<1>2. OnLedger /\ Aside
  BY Zenon DEF ApplierStep, ReadPlan, WaitForLock, LoseRevision, TakeLock, NotReadable, ObserveAndPlan,
         TakeSnapshot, Mutate, ApplySdn, Verify, Compensate, FinishCompensation
<1>3. ready' \in {ready, ready \cup {s \in {GoalOf[p]} : DesiredRevision[s] = procs[p].group}}
  BY DEF ApplierStep, ReadPlan, WaitForLock, LoseRevision, TakeLock, NotReadable, ObserveAndPlan,
         TakeSnapshot, Mutate, ApplySdn, Verify, Compensate, FinishCompensation, GiveUp, Succeed
<1>4. live' \in {live, staged}
  BY DEF ApplierStep, ReadPlan, WaitForLock, LoseRevision, TakeLock, NotReadable, ObserveAndPlan,
         TakeSnapshot, Mutate, ApplySdn, Verify, Compensate, FinishCompensation, OnProxmox, SdnApply
<1>5. staged' \in Snapshot
  <2>1. CASE Mutate(p)
    <3>1. \E kind \in {"create", "update"} : \E s \in Planned(p, kind) : staged' \in {staged, Mutated(s, kind)}
      BY <2>1, Zenon DEF Mutate
    <3>2. \A s \in Slot : \A kind \in {"create", "update"} : Mutated(s, kind) \in Snapshot
      BY <1>0 DEF Mutated, Snapshot, Config
    <3> QED
      BY <1>0, <3>1, <3>2 DEF Planned, ProcState
  <2>2. CASE Compensate(p)
    <3>1. PICK s \in procs[p].undo :
            staged' \in {staged, [staged EXCEPT ![s] = procs[p].before[s]],
                         [staged EXCEPT ![s] = IF @ = "desired" THEN procs[p].before[s] ELSE @]}
      BY <2>2, Zenon DEF Compensate
    <3>2. procs[p].before \in Snapshot /\ s \in Slot
      BY <1>0, <3>1 DEF ProcState
    <3> QED
      BY <1>0, <3>1, <3>2 DEF Snapshot, Config
  <2>3. CASE ~Mutate(p) /\ ~Compensate(p)
    BY <1>0, <2>3 DEF ApplierStep, ReadPlan, WaitForLock, LoseRevision, TakeLock, NotReadable,
       ObserveAndPlan, TakeSnapshot, ApplySdn, Verify, FinishCompensation, OnProxmox
  <2> QED
    BY <2>1, <2>2, <2>3
<1> QED
  BY <1>0, <1>1, <1>2, <1>3, <1>4, <1>5, VnetAssumption DEF VnetAssumption

LEMMA ApplierTypes ==
    ASSUME TypeOK, NEW p \in Applier, ApplierStep(p)
    PROVE  TypeOK'
BY ApplierProcs, ApplierRows, ApplierRest DEF TypeOK, OnLedger, Aside, ProcsTyped, AttemptsTyped

\* A dry-run and a crash.
LEMMA OtherProcessTypes ==
    ASSUME TypeOK, NEW p \in Process,
           \/ p \in Inspector /\ (DryRunRefused(p) \/ BeginDryRun(p) \/ EndDryRun(p))
           \/ Crash(p)
    PROVE  TypeOK'
<1>0. ProcsTyped /\ AttemptsTyped
  BY DEF TypeOK, ProcsTyped, AttemptsTyped
<1>1. ProcsTyped'
  BY <1>0, AnswerTyped, GotoTyped DEF DryRunRefused, BeginDryRun, EndDryRun, EndAttempt, Crash, Step, Ended
<1>2. AttemptsTyped'
  BY <1>0, RowsTyped DEF DryRunRefused, BeginDryRun, EndDryRun, EndAttempt, Crash, AttemptsTyped
<1>3. lock' \in {lock, p, NoOne} /\ UNCHANGED <<ledger, epoch, staged, live, teardowns, ready>>
  BY DEF DryRunRefused, BeginDryRun, EndDryRun, EndAttempt, Crash, Unlock, OnLedger, OnProxmox, Aside
<1>4. crashes' \in 0..MaxCrashes
  BY VnetAssumption DEF DryRunRefused, BeginDryRun, EndDryRun, Crash, Aside, TypeOK, VnetAssumption
<1> QED
  BY <1>1, <1>2, <1>3, <1>4 DEF TypeOK, ProcsTyped, AttemptsTyped

\* The ledger and the teardowns.
LEMMA TeardownTypes ==
    ASSUME TypeOK,
           \/ \E s \in Slot : Claim(s)
           \/ \E t \in Teardown, s \in Slot : MarkDeleting(t, s)
           \/ \E t \in Teardown : TeardownStep(t)
    PROVE  TypeOK'
<1> DEFINE Teardowns == [Teardown -> [pc : {"idle", "look", "delete", "apply", "check", "release"},
                                      slot : Slot, epoch : 0..MaxEpoch]]
<1>0. teardowns \in Teardowns /\ staged \in Snapshot /\ live \in Snapshot /\ ready \subseteq Slot
  BY DEF TypeOK
<1>1. CASE \E s \in Slot : Claim(s)
  <2>1. PICK s \in Slot : Claim(s)
    BY <1>1
  <2>2. epoch[s] + 1 \in 0..MaxEpoch
    BY <2>1, VnetAssumption DEF Claim, TypeOK, VnetAssumption
  <2>3. epoch' \in [Slot -> 0..MaxEpoch] /\ ledger' \in [Slot -> {"free", "operational", "deleting"}]
    BY <2>1, <2>2 DEF Claim, TypeOK
  <2> QED
    BY <2>1, <2>3 DEF Claim, TypeOK, OnProxmox, Aside
<1>2. ASSUME NEW t \in Teardown, NEW s \in Slot, MarkDeleting(t, s) PROVE TypeOK'
  <2>1. teardowns' \in Teardowns
    BY <1>0, <1>2 DEF MarkDeleting, TypeOK
  <2>2. ledger' \in [Slot -> {"free", "operational", "deleting"}] /\ ready' \subseteq Slot
    BY <1>2 DEF MarkDeleting, TypeOK
  <2> QED
    BY <1>2, <2>1, <2>2 DEF MarkDeleting, TypeOK, OnProxmox, TeardownOnly
<1>3. ASSUME NEW t \in Teardown, TeardownStep(t) PROVE TypeOK'
  <2>1. \A step \in {"idle", "look", "delete", "apply", "check", "release"} :
          TeardownGoto(t, step) => teardowns' \in Teardowns
    BY <1>0 DEF TeardownGoto
  <2>2. teardowns' \in Teardowns
    BY <1>3, <2>1 DEF TeardownStep, LookForVnet, DeleteVnet, ApplyDeletion, CheckDeletion, Release
  <2>3. ledger' \in [Slot -> {"free", "operational", "deleting"}] /\ UNCHANGED <<epoch, ready>>
    BY <1>3 DEF TeardownStep, LookForVnet, DeleteVnet, ApplyDeletion, CheckDeletion, Release,
                OnLedger, TypeOK
  <2>4. staged' \in Snapshot /\ live' \in Snapshot
    <3>1. \A s \in Slot : Deleted(s) \in Snapshot
      BY <1>0 DEF Deleted, Snapshot, Config
    <3>2. teardowns[t].slot \in Slot
      BY <1>0
    <3> QED
      BY <1>0, <1>3, <3>1, <3>2
         DEF TeardownStep, LookForVnet, DeleteVnet, ApplyDeletion, CheckDeletion, Release,
             OnProxmox, SdnApply
  <2>5. TeardownOnly
    BY <1>3 DEF TeardownStep, LookForVnet, DeleteVnet, ApplyDeletion, CheckDeletion, Release
  <2> QED
    BY <2>2, <2>3, <2>4, <2>5 DEF TypeOK, TeardownOnly
<1> QED
  BY <1>1, <1>2, <1>3

\* The state keeps its types.
THEOREM VnetTypesHold == Spec => []TypeOK
<1>1. Init => TypeOK
  <2> SUFFICES ASSUME Init PROVE TypeOK
    OBVIOUS
  <2>1. NewProc \in ProcState
    BY NewProcTyped, VnetAssumption
  <2>2. (CHOOSE s \in Slot : TRUE) \in Slot
    BY VnetAssumption DEF VnetAssumption
  <2> QED
    BY <2>1, <2>2, VnetAssumption
       DEF Init, TypeOK, VnetAssumption, Snapshot, Config, NoAttempt, Attempt
<1>2. TypeOK /\ [Next]_vars => TypeOK'
  <2> SUFFICES ASSUME TypeOK, [Next]_vars PROVE TypeOK'
    OBVIOUS
  <2>1. CASE \E p \in Applier : ApplierStep(p)
    BY <2>1, ApplierTypes
  <2>2. CASE \/ \E i \in Inspector : DryRunRefused(i) \/ BeginDryRun(i) \/ EndDryRun(i)
             \/ \E p \in Process : Crash(p)
    BY <2>2, OtherProcessTypes DEF Process
  <2>3. CASE \/ \E s \in Slot : Claim(s)
             \/ \E t \in Teardown, s \in Slot : MarkDeleting(t, s)
             \/ \E t \in Teardown : TeardownStep(t)
    BY <2>3, TeardownTypes
  <2>4. CASE UNCHANGED vars
    BY <2>4 DEF vars, TypeOK
  <2> QED
    BY <2>1, <2>2, <2>3, <2>4 DEF Next
<1> QED
  BY <1>1, <1>2, PTL DEF Spec

-----------------------------------------------------------------------------
\* The four ways a step moves a process with respect to the lock.  Moves: it is
\* the only one that moves.  Rows: it writes no row but its own.

Moves(p, t) == \A q \in Process : procs'[q].pc = IF q = p THEN t ELSE procs[q].pc
Rows(p) == \A q \in Process \ {p} : Running(q)' = Running(q)
Swept == \A q \in Process : ~Running(q)'

StaysOut(p) ==
    /\ procs[p].pc \notin Holding \cup {"dead"}
    /\ \E t \in Step \ Holding : Moves(p, t)
    /\ lock' = lock
    /\ UNCHANGED attempts \/ (lock = NoOne /\ Swept)

Enters(p) ==
    /\ procs[p].pc \notin Holding \cup {"dead"} /\ lock = NoOne
    /\ Moves(p, "observe") /\ lock' = p
    /\ \A q \in Process \ {p} : ~Running(q)'
    /\ p \in Applier => ~Running(p)'

StaysIn(p) ==
    /\ procs[p].pc \in Holding
    /\ \E t \in Holding \ {"observe"} : Moves(p, t)
    /\ lock' = lock
    /\ Running(p)' /\ Rows(p)

Leaves(p) ==
    /\ \E t \in Ended : Moves(p, t) /\ (t = "dead" \/ ~Running(p)')
    /\ procs[p].pc # "dead"
    /\ lock' = IF lock = p THEN NoOne ELSE lock
    /\ Rows(p)

\* None of them breaks the invariant.
LEMMA LockMoves ==
    ASSUME LockInv, NEW p \in Process,
           StaysOut(p) \/ Enters(p) \/ StaysIn(p) \/ Leaves(p)
    PROVE  LockInv'
<1>0. NoOne \notin Process
  BY VnetAssumption DEF VnetAssumption
<1>1. lock' \in Process \cup {NoOne}
  BY DEF LockInv, StaysOut, Enters, StaysIn, Leaves
<1>2. CASE StaysOut(p)
  <2>1. PICK t \in Step \ Holding : Moves(p, t)
    BY <1>2 DEF StaysOut
  <2>2. \A q \in Process : procs'[q].pc \in Holding <=> procs[q].pc \in Holding
    BY <1>2, <2>1 DEF StaysOut, Moves
  <2>3. \A q \in Process : At(q, "dead") => At(q, "dead")'
    BY <1>2, <2>1 DEF StaysOut, Moves, At
  <2>4. \A q \in Process : procs[q].pc \in Holding => procs'[q].pc = procs[q].pc
    BY <1>2, <2>1 DEF StaysOut, Moves
  <2>5. CASE UNCHANGED attempts
    BY <1>1, <1>2, <2>2, <2>3, <2>4, <2>5 DEF StaysOut, LockInv, Running, At
  <2>6. CASE lock = NoOne /\ Swept
    BY <1>0, <1>1, <1>2, <2>2, <2>6 DEF StaysOut, LockInv, Swept
  <2> QED
    BY <1>2, <2>5, <2>6 DEF StaysOut
<1>3. CASE Enters(p)
  BY <1>0, <1>1, <1>3 DEF Enters, Moves, LockInv, At, Holding
<1>4. CASE StaysIn(p)
  <2>1. PICK t \in Holding \ {"observe"} : Moves(p, t)
    BY <1>4 DEF StaysIn
  <2>2. lock = p
    BY <1>4 DEF StaysIn, LockInv
  <2>3. procs'[p].pc = t /\ \A q \in Process \ {p} : procs'[q].pc = procs[q].pc
    BY <2>1 DEF Moves
  <2> QED
    BY <1>1, <1>4, <2>1, <2>2, <2>3 DEF StaysIn, Rows, LockInv, At
<1>5. CASE Leaves(p)
  <2>1. PICK t \in Ended : Moves(p, t) /\ (t = "dead" \/ ~Running(p)')
    BY <1>5 DEF Leaves
  <2>2. procs'[p].pc = t /\ \A q \in Process \ {p} : procs'[q].pc = procs[q].pc
    BY <2>1 DEF Moves
  <2>3. t \notin Holding
    BY DEF Ended, Holding
  <2> QED
    BY <1>0, <1>1, <1>5, <2>1, <2>2, <2>3 DEF Leaves, Rows, LockInv, At
<1> QED
  BY <1>2, <1>3, <1>4, <1>5

-----------------------------------------------------------------------------
\* Every step moves a process one of these ways.

\* How the helpers move it.
LEMMA HowItMoves ==
    ASSUME TypeOK, NEW p \in Process, NEW t \in Step
    PROVE  /\ Goto(p, t) => Moves(p, t)
           /\ Answer(p, t) => Moves(p, t)
BY DEF TypeOK, Goto, Answer, Moves, ProcState, NewProc

LEMMA HowRowsMove ==
    ASSUME TypeOK, NEW p \in Process, NEW phase, NEW status \in {"succeeded", "failed"}
    PROVE  /\ UNCHANGED attempts => Rows(p)
           /\ Checkpoint(p, phase) => Running(p)' /\ Rows(p)
           /\ Record(p, status, phase) => ~Running(p)' /\ Rows(p)
           /\ attempts' = AbandonRunning => Swept
           /\ attempts' = Create(attempts, p, phase) => Running(p)' /\ Rows(p)
           /\ attempts' = Create(AbandonRunning, p, phase) => \A q \in Process \ {p} : ~Running(q)'
<1>0. attempts \in [Process -> Attempt]
  BY DEF TypeOK
<1>1. UNCHANGED attempts => Rows(p)
  BY DEF Rows, Running
<1>2. Checkpoint(p, phase) => Running(p)' /\ Rows(p)
  BY <1>0 DEF Checkpoint, Attempt, Rows, Running
<1>3. Record(p, status, phase) => ~Running(p)' /\ Rows(p)
  BY <1>0 DEF Record, Attempt, Rows, Running
<1>4. \A q \in Process : AbandonRunning[q].status # "running"
  BY <1>0 DEF AbandonRunning
<1>5. attempts' = AbandonRunning => Swept
  BY <1>4 DEF Swept, Running
<1>6. attempts' = Create(attempts, p, phase) => Running(p)' /\ Rows(p)
  BY <1>0 DEF Create, Rows, Running
<1>7. ASSUME attempts' = Create(AbandonRunning, p, phase)
      PROVE  \A q \in Process \ {p} : ~Running(q)'
  <2>1. \A q \in Process \ {p} : attempts'[q] = AbandonRunning[q]
    BY <1>7 DEF Create, AbandonRunning
  <2> QED
    BY <1>4, <2>1 DEF Running
<1> QED
  BY <1>1, <1>2, <1>3, <1>5, <1>6, <1>7

\* The exit of an attempt leaves the lock, from wherever it is called.
LEMMA ExitLeaves ==
    ASSUME TypeOK, LockInv, NEW p \in Process, NEW a \in {"ok", "failed"},
           procs[p].pc # "dead",
           \/ Answer(p, a) /\ Unlock(p) /\ UNCHANGED attempts /\ ~Running(p)
           \/ \E status \in {"succeeded", "failed"}, phase \in {"applied", "apply-failed", "compensated",
                             "compensation-failed", "planned"} : EndAttempt(p, a, status, phase)
    PROVE  Leaves(p)
<1>1. Moves(p, a) /\ a \in Ended
  BY HowItMoves DEF EndAttempt, Step, Ended
<1>2. ~Running(p)' /\ Rows(p)
  BY HowRowsMove DEF EndAttempt, Running
<1> QED
  BY <1>1, <1>2 DEF Leaves, Unlock, EndAttempt

LEMMA ApplierLock ==
    ASSUME TypeOK, LockInv, NEW p \in Applier, ApplierStep(p)
    PROVE  StaysOut(p) \/ Enters(p) \/ StaysIn(p) \/ Leaves(p)
<1>0. p \in Process /\ procs[p] \in ProcState /\ procs \in [Process -> ProcState]
  BY DEF Process, TypeOK
<1>1. procs[p].pc \notin Holding \cup {"dead"} => ~Running(p)
  BY <1>0, VnetAssumption DEF LockInv, At
<1>2. CASE ReadPlan(p)
  <2>1. procs[p].pc \in {"idle", "read"} /\ lock' \in {lock, IF lock = p THEN NoOne ELSE lock}
    BY <1>2 DEF ReadPlan, Reading, At, GiveUp, Unlock
  <2>2. CASE ledger[GoalOf[p]] = "operational"
    <3>1. Moves(p, "lock") /\ UNCHANGED <<attempts, lock>>
      BY <1>0, <1>2, <2>2 DEF ReadPlan, Moves, ProcState
    <3> QED
      BY <2>1, <3>1 DEF StaysOut, Holding, Step
  <2>3. CASE ledger[GoalOf[p]] # "operational"
    BY <1>0, <1>1, <1>2, <2>1, <2>3, ExitLeaves DEF ReadPlan, GiveUp, Holding
  <2> QED
    BY <2>2, <2>3
<1>3. CASE WaitForLock(p)
  <2>1. CASE procs[p].waits > 0
    <3>1. Moves(p, "read") /\ UNCHANGED <<attempts, lock>> /\ procs[p].pc = "lock"
      BY <1>0, <1>3, <2>1 DEF WaitForLock, Moves, ProcState, At
    <3> QED
      BY <3>1 DEF StaysOut, Holding, Step
  <2>2. CASE ~(procs[p].waits > 0)
    BY <1>0, <1>1, <1>3, <2>2, ExitLeaves DEF WaitForLock, GiveUp, Holding, At
  <2> QED
    BY <2>1, <2>2
<1>4. CASE LoseRevision(p)
  <2>1. Moves(p, "read") \/ Moves(p, "failed")
    <3>1. CASE procs[p].tries > 1
      BY <1>0, <1>4, <3>1 DEF LoseRevision, Moves, ProcState
    <3>2. CASE ~(procs[p].tries > 1)
      BY <1>0, <1>4, <3>2, HowItMoves DEF LoseRevision, Step, Ended
    <3> QED
      BY <3>1, <3>2
  <2>2. Swept /\ lock = NoOne /\ lock' = lock /\ procs[p].pc = "lock"
    BY <1>0, <1>4, HowRowsMove DEF LoseRevision, At
  <2> QED
    BY <2>1, <2>2 DEF StaysOut, Holding, Step, Ended
<1>5. CASE TakeLock(p)
  <2>1. Moves(p, "observe") /\ Swept
    BY <1>0, <1>5, HowItMoves, HowRowsMove DEF TakeLock, Step
  <2> QED
    BY <1>0, <1>5, <2>1 DEF TakeLock, Enters, Swept, Holding, At
<1>6. CASE NotReadable(p)
  BY <1>0, <1>6, ExitLeaves DEF NotReadable, GiveUp, LockInv, At
<1>7. CASE ObserveAndPlan(p)
  <2>1. Moves(p, "snapshot")
    BY <1>0, <1>7 DEF ObserveAndPlan, Moves, ProcState
  <2>2. Running(p)' /\ Rows(p)
    BY <1>0, <1>7, HowRowsMove DEF ObserveAndPlan
  <2> QED
    BY <1>7, <2>1, <2>2 DEF StaysIn, ObserveAndPlan, Holding, At
<1>8. ASSUME procs[p].pc \in Holding \ {"observe"},
             NEW t \in Holding \ {"observe"}, Moves(p, t), lock' = lock,
             \/ UNCHANGED attempts
             \/ \E phase \in {"applying", "verifying", "compensating"} : Checkpoint(p, phase)
      PROVE  StaysIn(p)
  <2>1. Running(p)
    BY <1>0, <1>8 DEF LockInv
  <2>2. Running(p)' /\ Rows(p)
    BY <1>0, <1>8, <2>1, HowRowsMove DEF Running
  <2> QED
    BY <1>8, <2>2 DEF StaysIn
<1>9. CASE TakeSnapshot(p)
  <2>1. CASE StalePlan(p) \/ procs[p].planned = {}
    BY <1>0, <1>9, <2>1, ExitLeaves DEF TakeSnapshot, Succeed, At
  <2>2. CASE ~StalePlan(p) /\ procs[p].planned # {}
    <3>1. Moves(p, "mutate") /\ UNCHANGED <<attempts, lock>>
      BY <1>0, <1>9, <2>2 DEF TakeSnapshot, Moves, ProcState
    <3> QED
      BY <1>8, <1>9, <3>1 DEF TakeSnapshot, At, Holding
  <2> QED
    BY <2>1, <2>2
<1>10. CASE Mutate(p)
  <2>1. PICK kind \in {"create", "update"} : \E s \in Planned(p, kind) \ procs[p].started :
          LET started == procs[p].started \cup {s}
              onTheWay == [procs EXCEPT ![p].started = started]
          IN \/ procs' = [onTheWay EXCEPT ![p].pc = IF started = procs[p].planned THEN "apply" ELSE "mutate"]
             \/ procs' = [procs EXCEPT ![p].pc = "undo", ![p].started = ToUndo(p, s), ![p].undo = ToUndo(p, s)]
    BY <1>10, Zenon DEF Mutate
  <2>2. Moves(p, "apply") \/ Moves(p, "mutate") \/ Moves(p, "undo")
    BY <1>0, <2>1 DEF Moves, ProcState
  <2>3. Checkpoint(p, "applying") /\ lock' = lock /\ procs[p].pc = "mutate"
    BY <1>10 DEF Mutate, At
  <2> QED
    BY <1>8, <2>2, <2>3 DEF Holding
<1>11. CASE ApplySdn(p)
  <2>1. Moves(p, "verify") \/ Moves(p, "undo")
    BY <1>0, <1>11 DEF ApplySdn, Goto, Moves, ProcState
  <2> QED
    BY <1>8, <1>11, <2>1 DEF ApplySdn, At, Holding
<1>12. CASE Verify(p)
  <2>1. CASE Succeed(p)
    BY <1>0, <1>12, <2>1, ExitLeaves DEF Verify, Succeed, At
  <2>2. CASE ~Succeed(p)
    <3>1. Moves(p, "undo") /\ Checkpoint(p, "verifying") /\ lock' = lock
      BY <1>0, <1>12, <2>2 DEF Verify, Moves, ProcState
    <3> QED
      BY <1>8, <1>12, <3>1 DEF Verify, At, Holding
  <2> QED
    BY <2>1, <2>2
<1>13. CASE Compensate(p)
  <2>0. procs[p].pc = "undo"
    BY <1>13 DEF Compensate, At
  <2>1. PICK s \in procs[p].undo :
          \/ /\ procs' = [procs EXCEPT ![p].undo = @ \ {s}, ![p].changed = @ \/ ~AsBefore(p, s),
                              ![p].pc = IF procs[p].undo = {s} THEN "undoApply" ELSE "undo"]
             /\ Checkpoint(p, "compensating") /\ lock' = lock
          \/ EndAttempt(p, "failed", "failed", "compensation-failed")
    BY <1>13, Zenon DEF Compensate
  <2>2. CASE EndAttempt(p, "failed", "failed", "compensation-failed")
    BY <1>0, <2>0, <2>2, ExitLeaves
  <2>3. CASE /\ procs' = [procs EXCEPT ![p].undo = @ \ {s}, ![p].changed = @ \/ ~AsBefore(p, s),
                              ![p].pc = IF procs[p].undo = {s} THEN "undoApply" ELSE "undo"]
             /\ Checkpoint(p, "compensating") /\ lock' = lock
    <3>1. Moves(p, "undoApply") \/ Moves(p, "undo")
      BY <1>0, <2>3 DEF Moves, ProcState
    <3> QED
      BY <1>8, <2>0, <2>3, <3>1 DEF Holding
  <2> QED
    BY <2>1, <2>2, <2>3
<1>14. CASE FinishCompensation(p)
  BY <1>0, <1>14, ExitLeaves DEF FinishCompensation, At
<1> QED
  BY <1>2, <1>3, <1>4, <1>5, <1>6, <1>7, <1>9, <1>10, <1>11, <1>12, <1>13, <1>14 DEF ApplierStep

LEMMA OtherProcessLock ==
    ASSUME TypeOK, LockInv, NEW p \in Process,
           \/ p \in Inspector /\ (DryRunRefused(p) \/ BeginDryRun(p) \/ EndDryRun(p))
           \/ Crash(p)
    PROVE  Enters(p) \/ Leaves(p)
<1>1. CASE p \in Inspector /\ DryRunRefused(p)
  <2>1. procs[p].pc = "idle" /\ lock # p /\ ~Running(p)
    BY <1>1 DEF DryRunRefused, At, LockInv, Holding
  <2>2. Moves(p, "failed") /\ UNCHANGED <<lock, attempts>>
    BY <1>1, HowItMoves DEF DryRunRefused, Step, Ended
  <2> QED
    BY <2>1, <2>2, HowRowsMove DEF Leaves, Ended, Running
<1>2. CASE p \in Inspector /\ BeginDryRun(p)
  <2>1. Moves(p, "observe") /\ \A q \in Process \ {p} : ~Running(q)'
    BY <1>2, HowItMoves, HowRowsMove DEF BeginDryRun, Step
  <2>2. p \notin Applier
    BY <1>2, VnetAssumption DEF VnetAssumption
  <2> QED
    BY <1>2, <2>1, <2>2 DEF BeginDryRun, Enters, Holding, At
<1>3. CASE p \in Inspector /\ EndDryRun(p)
  BY <1>3, ExitLeaves DEF EndDryRun, At
<1>4. CASE Crash(p)
  <2>1. Moves(p, "dead") /\ procs[p].pc # "dead" /\ Rows(p)
    BY <1>4, HowItMoves, HowRowsMove DEF Crash, Step, Ended
  <2> QED
    BY <1>4, <2>1 DEF Crash, Leaves, Unlock, Ended
<1> QED
  BY <1>1, <1>2, <1>3, <1>4

LEMMA LockHolds == Spec => []LockInv
<1>1. Init => LockInv
  BY VnetAssumption DEF Init, LockInv, NewProc, NoAttempt, Running, Holding, VnetAssumption, At
<1>2. TypeOK /\ LockInv /\ [Next]_vars => LockInv'
  <2> SUFFICES ASSUME TypeOK, LockInv, [Next]_vars PROVE LockInv'
    OBVIOUS
  <2>1. CASE \E p \in Applier : ApplierStep(p)
    BY <2>1, ApplierLock, LockMoves DEF Process
  <2>2. CASE \/ \E i \in Inspector : DryRunRefused(i) \/ BeginDryRun(i) \/ EndDryRun(i)
             \/ \E p \in Process : Crash(p)
    BY <2>2, OtherProcessLock, LockMoves DEF Process
  <2>3. CASE \/ \E s \in Slot : Claim(s)
             \/ \E t \in Teardown, s \in Slot : MarkDeleting(t, s)
             \/ \E t \in Teardown : TeardownStep(t)
             \/ UNCHANGED vars
    <3>1. UNCHANGED <<lock, attempts, procs>>
      BY <2>3 DEF Claim, MarkDeleting, TeardownStep, LookForVnet, DeleteVnet, ApplyDeletion,
                  CheckDeletion, Release, TeardownOnly, vars
    <3> QED
      BY <3>1 DEF LockInv, Running, At
  <2> QED
    BY <2>1, <2>2, <2>3 DEF Next
<1> QED
  BY VnetTypesHold, <1>1, <1>2, PTL DEF Spec

\* The attempt table and the lock agree, with any number of creates applying,
\* dry-runs looking and processes dying: an attempt in progress is its holder's,
\* nobody else ends it, and every way out gives the lock back.
THEOREM AttemptsHold == Spec => []AttemptsAreTrue
<1>1. LockInv => AttemptsAreTrue
  BY DEF LockInv, AttemptsAreTrue, Holding, Step, Ended
<1> QED
  BY LockHolds, <1>1, PTL

\* Where the lock is held there is one process.
OneApplies ==
    \A p, q \in Process :
        procs[p].pc \in Holding /\ procs[q].pc \in Holding => p = q

\* Two processes are never past the plan together: no two applies stage, apply
\* or undo at once.
THEOREM OneAppliesAtATime == Spec => []OneApplies
<1>1. LockInv => OneApplies
  BY DEF LockInv, OneApplies
<1> QED
  BY LockHolds, <1>1, PTL

-----------------------------------------------------------------------------
\* What an apply leaves behind.

\* Two teardowns of one group are not under way at once (MCTwiceTorn has them).
TornOnce ==
    \A t, u \in Teardown :
        /\ teardowns[t].pc # "idle" /\ teardowns[u].pc # "idle"
        /\ teardowns[t].slot = teardowns[u].slot
        => t = u

\* Where an applier has a plan, and where it may have changed something.
Working == {"snapshot", "mutate", "apply", "verify", "undo", "undoApply"}
Changing == Working \ {"snapshot"}

\* The group the plan was made for still holds the slot.
Still(p, s) == DesiredRevision[s] = procs[p].expected[s] /\ procs[p].expected[s] # 0

\* A revision read is never from the future, and names the group that is waited
\* for from the moment the plan was read.
EpochInv ==
    /\ \A s \in Slot : ledger[s] = "operational" => epoch[s] # 0
    /\ \A p \in Applier :
        /\ \A s \in Slot : procs[p].expected[s] <= epoch[s]
        /\ procs[p].group <= epoch[GoalOf[p]]
        /\ procs[p].pc \in {"lock", "observe"} \cup Working =>
             procs[p].group # 0 /\ procs[p].group <= procs[p].expected[GoalOf[p]]

\* A teardown works on a group that is deleting; what a create was told is there
\* belongs to one that is not.
TornInv == \A t \in Teardown : teardowns[t].pc # "idle" => ledger[teardowns[t].slot] = "deleting"
ReadyInv == \A s \in ready : ledger[s] = "operational" /\ staged[s] = "desired"

\* The plan names what was not as desired, nothing of that is anybody's ready
\* VNet, and of the groups that are still there only what was started differs
\* from what was found, and is remembered as it was found.
PlanInv(p) ==
    /\ procs[p].started \subseteq procs[p].planned
    /\ procs[p].undo \subseteq procs[p].started
    /\ procs[p].planned = {s \in Targets(procs[p].expected) : procs[p].found[s] # "desired"}
    /\ procs[p].planned \cap ready = {}
    /\ \A s \in Slot : Still(p, s) =>
        /\ s \notin procs[p].started => staged[s] = procs[p].found[s]
        /\ procs[p].pc \in Changing => procs[p].before[s] = procs[p].found[s]

WorkOf(p) ==
    /\ procs[p].pc \notin Changing => procs[p].started = {} /\ procs[p].undo = {}
    /\ procs[p].pc \in Working => PlanInv(p)

WorkInv == \A p \in Applier : WorkOf(p)

VnetInv == EpochInv /\ TornInv /\ ReadyInv /\ WorkInv

\* What the rest of the world may do to an applier's plan.
LEMMA PlanKept ==
    ASSUME TypeOK, EpochInv, NEW p \in Applier, WorkOf(p),
           procs'[p] = procs[p],
           procs[p].pc \in Working => ready' \subseteq ready,
           \A s \in Slot : /\ epoch'[s] \in {epoch[s], epoch[s] + 1}
                           /\ DesiredRevision'[s] \in {DesiredRevision[s], 0, epoch[s] + 1},
           procs[p].pc \in Working =>
               \A s \in Slot : ledger[s] = "operational" => staged'[s] = staged[s]
    PROVE  WorkOf(p)'
<1>1. CASE procs[p].pc \notin Working
  BY <1>1 DEF WorkOf, Changing
<1>2. CASE procs[p].pc \in Working
  <2>1. \A s \in Slot : Still(p, s)' => Still(p, s) /\ ledger[s] = "operational"
    <3> SUFFICES ASSUME NEW s \in Slot, Still(p, s)' PROVE Still(p, s) /\ ledger[s] = "operational"
      OBVIOUS
    <3>1. p \in Process /\ procs[p] \in ProcState
      BY DEF TypeOK, Process
    <3>2. procs[p].expected[s] \in Nat /\ epoch[s] \in Nat /\ procs[p].expected[s] <= epoch[s]
      BY <3>1, VnetAssumption DEF ProcState, Revision, TypeOK, EpochInv, VnetAssumption
    <3>3. DesiredRevision'[s] = procs[p].expected[s] /\ procs[p].expected[s] # 0
      BY DEF Still
    <3>4. DesiredRevision'[s] = DesiredRevision[s]
      BY <3>2, <3>3
    <3>5. DesiredRevision[s] # 0
      BY <3>3, <3>4
    <3> QED
      BY <3>3, <3>4, <3>5 DEF Still, DesiredRevision
  <2>2. PlanInv(p)
    BY <1>2 DEF WorkOf
  <2>3. PlanInv(p)'
    BY <1>2, <2>1, <2>2 DEF PlanInv, Targets
  <2> QED
    BY <1>2, <2>3 DEF WorkOf
<1> QED
  BY <1>1, <1>2

\* What a step of an applier does to the others and, without the lock, to what
\* the lock protects.
LEMMA ApplierAlone ==
    ASSUME TypeOK, NEW p \in Applier, ApplierStep(p)
    PROVE  /\ \A q \in Process \ {p} : procs'[q] = procs[q]
           /\ procs[p].pc \notin Holding => UNCHANGED <<staged, ready>>
           /\ UNCHANGED <<ledger, epoch, teardowns>>
<1>1. \A q \in Process \ {p} : procs'[q] = procs[q]
  <2>1. CASE Mutate(p)
    BY <2>1, Zenon DEF Mutate, TypeOK
  <2> QED
    BY <2>1 DEF ApplierStep, ReadPlan, WaitForLock, LoseRevision, TakeLock, NotReadable, ObserveAndPlan,
       TakeSnapshot, ApplySdn, Verify, Compensate, FinishCompensation,
       GiveUp, Succeed, EndAttempt, Goto, Answer, TypeOK
<1>2. procs[p].pc \notin Holding => UNCHANGED <<staged, ready>>
  BY DEF ApplierStep, ReadPlan, WaitForLock, LoseRevision, TakeLock, NotReadable, ObserveAndPlan,
     TakeSnapshot, Mutate, ApplySdn, Verify, Compensate, FinishCompensation, GiveUp,
     OnProxmox, Holding, At
<1>3. UNCHANGED <<ledger, epoch, teardowns>>
  BY ApplierRest DEF OnLedger, Aside
<1> QED
  BY <1>1, <1>2, <1>3

\* The ways a step of an applier treats its own revision.
LEMMA ApplierRevision ==
    ASSUME TypeOK, NEW p \in Applier, ApplierStep(p)
    PROVE  \/ \E a \in Ended : procs'[p] = [NewProc EXCEPT !.pc = a]
           \/ /\ procs'[p].expected = procs[p].expected /\ procs'[p].group = procs[p].group
              /\ procs'[p].pc \in {"lock", "observe"} \cup Working
                    => procs[p].pc \in {"lock", "observe"} \cup Working
           \/ /\ ledger[GoalOf[p]] = "operational"
              /\ procs'[p].expected = DesiredRevision
              /\ procs'[p].group = IF procs[p].group = 0 THEN epoch[GoalOf[p]] ELSE procs[p].group
<1>0. p \in Process /\ procs \in [Process -> ProcState]
  BY DEF TypeOK, Process
<1>1. \A a \in Ended : Answer(p, a) => procs'[p] = [NewProc EXCEPT !.pc = a]
  BY <1>0 DEF Answer
<1>2. CASE ReadPlan(p)
  BY <1>0, <1>1, <1>2 DEF ReadPlan, GiveUp, ProcState, Ended
<1>3. CASE WaitForLock(p) \/ LoseRevision(p)
  BY <1>0, <1>1, <1>3 DEF WaitForLock, LoseRevision, GiveUp, ProcState, Ended, Working
<1>4. CASE TakeLock(p) \/ NotReadable(p) \/ ObserveAndPlan(p) \/ FinishCompensation(p)
  BY <1>0, <1>1, <1>4 DEF TakeLock, NotReadable, ObserveAndPlan, FinishCompensation, GiveUp, EndAttempt,
     Goto, At, ProcState, Ended, Working
<1>5. CASE TakeSnapshot(p) \/ ApplySdn(p) \/ Verify(p)
  BY <1>0, <1>1, <1>5 DEF TakeSnapshot, ApplySdn, Verify, Succeed, EndAttempt,
     Goto, At, ProcState, Ended, Working
<1>6. CASE Mutate(p)
  <2>1. PICK kind \in {"create", "update"} : \E s \in Planned(p, kind) \ procs[p].started :
          LET started == procs[p].started \cup {s}
              onTheWay == [procs EXCEPT ![p].started = started]
          IN \/ procs' = [onTheWay EXCEPT ![p].pc = IF started = procs[p].planned THEN "apply" ELSE "mutate"]
             \/ procs' = [procs EXCEPT ![p].pc = "undo", ![p].started = ToUndo(p, s), ![p].undo = ToUndo(p, s)]
    BY <1>6, Zenon DEF Mutate
  <2> QED
    BY <1>0, <1>6, <2>1 DEF Mutate, At, ProcState, Working
<1>7. CASE Compensate(p)
  <2>1. PICK s \in procs[p].undo :
          \/ procs' = [procs EXCEPT ![p].undo = @ \ {s}, ![p].changed = @ \/ ~AsBefore(p, s),
                              ![p].pc = IF procs[p].undo = {s} THEN "undoApply" ELSE "undo"]
          \/ Answer(p, "failed")
    BY <1>7, Zenon DEF Compensate, EndAttempt
  <2> QED
    BY <1>0, <1>1, <1>7, <2>1 DEF Compensate, At, ProcState, Ended, Working
<1> QED
  BY <1>2, <1>3, <1>4, <1>5, <1>6, <1>7 DEF ApplierStep

LEMMA NumbersTyped ==
    ASSUME TypeOK
    PROVE  /\ \A s \in Slot : epoch[s] \in Nat /\ DesiredRevision[s] \in Nat /\ DesiredRevision[s] <= epoch[s]
           /\ \A p \in Applier : GoalOf[p] \in Slot /\ procs[p].group \in Nat
           /\ \A p \in Applier, s \in Slot : procs[p].expected[s] \in Nat
<1>1. \A s \in Slot : epoch[s] \in Nat
  BY VnetAssumption DEF TypeOK, VnetAssumption
<1>2. \A p \in Applier : procs[p] \in ProcState
  BY DEF TypeOK, Process
<1> QED
  BY <1>1, <1>2, VnetAssumption DEF ProcState, Revision, DesiredRevision, VnetAssumption

LEMMA ApplierEpochs ==
    ASSUME TypeOK, EpochInv, NEW p \in Applier, ApplierStep(p)
    PROVE  EpochInv'
<1>0. /\ \A q \in Applier \ {p} : procs'[q] = procs[q]
      /\ UNCHANGED <<ledger, epoch>>
  BY ApplierAlone DEF Process
<1>1. /\ \A s \in Slot : procs'[p].expected[s] <= epoch[s]
      /\ procs'[p].group <= epoch[GoalOf[p]]
      /\ procs'[p].pc \in {"lock", "observe"} \cup Working =>
             procs'[p].group # 0 /\ procs'[p].group <= procs'[p].expected[GoalOf[p]]
  <2>1. CASE \E a \in Ended : procs'[p] = [NewProc EXCEPT !.pc = a]
    <3>1. /\ procs'[p].expected = [s \in Slot |-> 0] /\ procs'[p].group = 0
          /\ procs'[p].pc \in Ended
      BY <2>1 DEF NewProc
    <3> QED
      BY <3>1, NumbersTyped DEF Ended, Working
  <2>2. CASE /\ procs'[p].expected = procs[p].expected /\ procs'[p].group = procs[p].group
             /\ procs'[p].pc \in {"lock", "observe"} \cup Working
                    => procs[p].pc \in {"lock", "observe"} \cup Working
    BY <2>2 DEF EpochInv
  <2>3. CASE /\ ledger[GoalOf[p]] = "operational"
             /\ procs'[p].expected = DesiredRevision
             /\ procs'[p].group = IF procs[p].group = 0 THEN epoch[GoalOf[p]] ELSE procs[p].group
    <3>1. DesiredRevision[GoalOf[p]] = epoch[GoalOf[p]] /\ epoch[GoalOf[p]] # 0
      BY <2>3, NumbersTyped DEF DesiredRevision, EpochInv
    <3> QED
      BY <2>3, <3>1, NumbersTyped DEF EpochInv
  <2> QED
    BY <2>1, <2>2, <2>3, ApplierRevision
<1> QED
  BY <1>0, <1>1 DEF EpochInv

\* An applier with its plan, after a step of its own.
LEMMA ApplierWork ==
    ASSUME TypeOK, ReadyInv, NEW p \in Applier, WorkOf(p), ApplierStep(p)
    PROVE  WorkOf(p)'
<1>0. /\ p \in Process /\ procs \in [Process -> ProcState] /\ procs[p] \in ProcState
      /\ staged \in Snapshot
      /\ UNCHANGED <<ledger, epoch>> /\ UNCHANGED DesiredRevision
  BY ApplierAlone DEF TypeOK, Process, DesiredRevision
<1>1. ASSUME NEW a \in Ended, Answer(p, a) PROVE WorkOf(p)'
  <2>1. procs'[p] = [NewProc EXCEPT !.pc = a]
    BY <1>0, <1>1 DEF Answer
  <2>2. procs'[p].pc = a /\ procs'[p].started = {} /\ procs'[p].undo = {}
    BY <2>1 DEF NewProc
  <2> QED
    BY <2>2 DEF WorkOf, Working, Changing, Ended
<1>2. ASSUME procs[p].pc \notin Working, procs'[p].pc \notin Working,
             procs'[p].started = procs[p].started, procs'[p].undo = procs[p].undo
      PROVE  WorkOf(p)'
  BY <1>2 DEF WorkOf, Changing
<1>3. CASE ReadPlan(p) \/ WaitForLock(p) \/ LoseRevision(p) \/ TakeLock(p) \/ NotReadable(p)
  <2>1. \/ \E a \in Ended : Answer(p, a)
        \/ /\ procs[p].pc \notin Working /\ procs'[p].pc \notin Working
           /\ procs'[p].started = procs[p].started /\ procs'[p].undo = procs[p].undo
    BY <1>0, <1>3 DEF ReadPlan, Reading, WaitForLock, LoseRevision, TakeLock, NotReadable, GiveUp,
       Goto, At, ProcState, Ended, Working
  <2> QED
    BY <1>1, <1>2, <2>1
<1>4. CASE ObserveAndPlan(p)
  <2>1. /\ procs'[p].pc = "snapshot" /\ procs'[p].planned = Wanted(p) /\ procs'[p].found = staged
        /\ procs'[p].started = procs[p].started /\ procs'[p].undo = procs[p].undo
        /\ procs'[p].expected = procs[p].expected
    BY <1>0, <1>4 DEF ObserveAndPlan, Observed, ProcState
  <2>2. procs[p].started = {} /\ procs[p].undo = {}
    BY <1>4 DEF ObserveAndPlan, At, WorkOf, Working, Changing
  <2>3. UNCHANGED <<staged, ready>>
    BY <1>4 DEF ObserveAndPlan, OnProxmox
  <2>4. Wanted(p) \cap ready = {}
    BY DEF Wanted, Observed, ReadyInv
  <2>5. PlanInv(p)'
    BY <2>1, <2>2, <2>3, <2>4 DEF PlanInv, Wanted, Observed, Targets, Changing
  <2> QED
    BY <2>1, <2>2, <2>5 DEF WorkOf, Working, Changing
<1>5. ASSUME procs'[p].pc \in Changing,
             UNCHANGED ready,
             /\ procs'[p].planned = procs[p].planned /\ procs'[p].found = procs[p].found
             /\ procs'[p].expected = procs[p].expected,
             procs[p].started \subseteq procs'[p].started,
             procs'[p].started \subseteq procs[p].planned,
             procs'[p].undo \subseteq procs'[p].started,
             \A s \in Slot \ procs'[p].started : staged'[s] = staged[s],
             procs[p].pc \in Changing, procs'[p].before = procs[p].before
      PROVE  WorkOf(p)'
  <2>1. PlanInv(p)
    BY <1>5 DEF WorkOf, Changing
  <2>2. \A s \in Slot : Still(p, s)' => Still(p, s)
    BY <1>0, <1>5 DEF Still
  <2>3. \A s \in Slot : Still(p, s)' =>
          /\ s \notin procs'[p].started => staged'[s] = procs'[p].found[s]
          /\ procs'[p].before[s] = procs'[p].found[s]
    BY <1>5, <2>1, <2>2 DEF PlanInv
  <2>4. PlanInv(p)'
    BY <1>5, <2>1, <2>3 DEF PlanInv, Targets
  <2> QED
    BY <1>5, <2>4 DEF WorkOf, Changing
<1>6. procs[p].pc \in Working => PlanInv(p)
  BY DEF WorkOf
<1>7. CASE TakeSnapshot(p)
  <2>1. CASE StalePlan(p) \/ procs[p].planned = {}
    BY <1>1, <1>7, <2>1 DEF TakeSnapshot, EndAttempt, Succeed, Ended
  <2>2. CASE ~StalePlan(p) /\ procs[p].planned # {}
    <3>1. procs' = [procs EXCEPT ![p].pc = "mutate", ![p].before = staged] /\ UNCHANGED <<staged, ready>>
      BY <1>7, <2>2 DEF TakeSnapshot, OnProxmox
    <3>2. procs'[p] = [procs[p] EXCEPT !.pc = "mutate", !.before = staged]
      BY <1>0, <3>1
    <3>3. procs[p].pc = "snapshot"
      BY <1>7 DEF TakeSnapshot, At
    <3>4. /\ procs'[p].pc = "mutate" /\ procs'[p].before = staged
          /\ procs'[p].planned = procs[p].planned /\ procs'[p].found = procs[p].found
          /\ procs'[p].expected = procs[p].expected
          /\ procs'[p].started = procs[p].started /\ procs'[p].undo = procs[p].undo
      BY <1>0, <3>2 DEF ProcState
    <3>5. PlanInv(p)
      BY <1>6, <3>3 DEF Working
    <3>6. procs[p].started = {}
      BY <3>3 DEF WorkOf, Changing
    <3>7. \A s \in Slot : Still(p, s)' => staged[s] = procs[p].found[s]
      BY <1>0, <3>4, <3>5, <3>6 DEF PlanInv, Still
    <3> QED
      BY <1>0, <3>1, <3>3, <3>4, <3>5, <3>7 DEF WorkOf, PlanInv, Working, Changing, Targets
  <2> QED
    BY <2>1, <2>2
<1>8. CASE Mutate(p)
  <2>a. PICK kind \in {"create", "update"} : \E s \in Planned(p, kind) \ procs[p].started :
          LET started == procs[p].started \cup {s}
              onTheWay == [procs EXCEPT ![p].started = started]
          IN \/ /\ staged' = Mutated(s, kind)
                /\ procs' = [onTheWay EXCEPT ![p].pc = IF started = procs[p].planned THEN "apply" ELSE "mutate"]
             \/ /\ staged' \in {staged, Mutated(s, kind)}
                /\ procs' = [procs EXCEPT ![p].pc = "undo", ![p].started = ToUndo(p, s), ![p].undo = ToUndo(p, s)]
    BY <1>8, Zenon DEF Mutate
  <2>1. PICK s \in Planned(p, kind) :
          LET started == procs[p].started \cup {s}
              onTheWay == [procs EXCEPT ![p].started = started]
          IN \/ /\ staged' = Mutated(s, kind)
                /\ procs' = [onTheWay EXCEPT ![p].pc = IF started = procs[p].planned THEN "apply" ELSE "mutate"]
             \/ /\ staged' \in {staged, Mutated(s, kind)}
                /\ procs' = [procs EXCEPT ![p].pc = "undo", ![p].started = ToUndo(p, s), ![p].undo = ToUndo(p, s)]
    BY <2>a, Zenon
  <2>2. s \in Slot /\ s \in procs[p].planned
    BY <1>0, <2>1 DEF Planned, ProcState
  <2>3. procs[p].pc = "mutate" /\ UNCHANGED ready
    BY <1>8 DEF Mutate, At
  <2>4. \A z \in Slot \ {s} : staged'[z] = staged[z]
    BY <1>0, <2>1 DEF Mutated, Snapshot
  <2>5. /\ procs'[p].pc \in Changing
        /\ procs'[p].planned = procs[p].planned /\ procs'[p].found = procs[p].found
        /\ procs'[p].expected = procs[p].expected /\ procs'[p].before = procs[p].before
        /\ procs'[p].started = procs[p].started \cup {s}
        /\ procs'[p].undo \in {procs[p].undo, procs[p].started \cup {s}}
    BY <1>0, <2>1 DEF ToUndo, ProcState, Changing, Working
  <2>6. PlanInv(p)
    BY <1>6, <2>3 DEF Working
  <2> QED
    BY <1>5, <2>2, <2>3, <2>4, <2>5, <2>6 DEF PlanInv, Changing, Working
<1>9. CASE ApplySdn(p) \/ Verify(p)
  <2>1. CASE Succeed(p)
    BY <1>1, <2>1 DEF Succeed, EndAttempt, Ended
  <2>2. CASE ~Succeed(p)
    <3>1. /\ procs[p].pc \in Changing /\ UNCHANGED <<staged, ready>>
          /\ procs'[p].pc \in Changing
          /\ procs'[p].planned = procs[p].planned /\ procs'[p].found = procs[p].found
          /\ procs'[p].expected = procs[p].expected /\ procs'[p].before = procs[p].before
          /\ procs'[p].started = procs[p].started
          /\ procs'[p].undo \in {procs[p].undo, procs[p].started}
      BY <1>0, <1>9, <2>2 DEF ApplySdn, Verify, Goto, At, OnProxmox, ProcState, Changing, Working
    <3>2. PlanInv(p)
      BY <1>6, <3>1 DEF Changing
    <3> QED
      BY <1>5, <3>1, <3>2 DEF PlanInv
  <2> QED
    BY <2>1, <2>2
<1>10. CASE Compensate(p)
  <2>1. PICK s \in procs[p].undo :
          \/ /\ staged' = [staged EXCEPT ![s] = procs[p].before[s]]
             /\ procs' = [procs EXCEPT ![p].undo = @ \ {s}, ![p].changed = @ \/ ~AsBefore(p, s),
                              ![p].pc = IF procs[p].undo = {s} THEN "undoApply" ELSE "undo"]
             /\ UNCHANGED ready
          \/ Answer(p, "failed")
    BY <1>10, Zenon DEF Compensate, EndAttempt
  <2>2. CASE Answer(p, "failed")
    BY <1>1, <2>2 DEF Ended
  <2>3. CASE /\ staged' = [staged EXCEPT ![s] = procs[p].before[s]]
             /\ procs' = [procs EXCEPT ![p].undo = @ \ {s}, ![p].changed = @ \/ ~AsBefore(p, s),
                              ![p].pc = IF procs[p].undo = {s} THEN "undoApply" ELSE "undo"]
             /\ UNCHANGED ready
    <3>1. procs[p].pc \in Changing
      BY <1>10 DEF Compensate, At, Changing, Working
    <3>2. /\ procs'[p].pc \in Changing
          /\ procs'[p].planned = procs[p].planned /\ procs'[p].found = procs[p].found
          /\ procs'[p].expected = procs[p].expected /\ procs'[p].before = procs[p].before
          /\ procs'[p].started = procs[p].started
          /\ procs'[p].undo = procs[p].undo \ {s}
      BY <1>0, <2>3 DEF ProcState, Changing, Working
    <3>3. PlanInv(p)
      BY <1>6, <3>1 DEF Changing
    <3>4. \A z \in Slot \ procs[p].started : staged'[z] = staged[z]
      BY <1>0, <2>1, <2>3, <3>3 DEF PlanInv, Snapshot
    <3> QED
      BY <1>5, <2>3, <3>1, <3>2, <3>3, <3>4 DEF PlanInv
  <2> QED
    BY <2>1, <2>2, <2>3
<1>11. CASE FinishCompensation(p)
  BY <1>1, <1>11 DEF FinishCompensation, EndAttempt, Ended
<1> QED
  BY <1>3, <1>4, <1>7, <1>8, <1>9, <1>10, <1>11 DEF ApplierStep

\* Where an apply has nothing left to do, every group of its revision that is
\* still there has its VNet.
LEMMA AllThere ==
    ASSUME NEW p \in Applier, PlanInv(p), Converged(p)
    PROVE  \A s \in Slot : Still(p, s) => staged[s] = "desired"
BY DEF PlanInv, Converged, Targets, Still

LEMMA ApplierReady ==
    ASSUME TypeOK, EpochInv, ReadyInv, NEW p \in Applier, WorkOf(p), ApplierStep(p)
    PROVE  ReadyInv'
<1>0. /\ p \in Process /\ procs[p] \in ProcState /\ staged \in Snapshot
      /\ UNCHANGED <<ledger, epoch>>
  BY ApplierAlone DEF TypeOK, Process
<1>1. ASSUME UNCHANGED ready, \A s \in ready : staged'[s] = staged[s] \/ staged'[s] = "desired"
      PROVE  ReadyInv'
  BY <1>0, <1>1 DEF ReadyInv
<1>2. ASSUME Succeed(p), procs[p].pc \in Working, Converged(p), UNCHANGED staged
      PROVE  ReadyInv'
  <2>1. ready' = ready \cup {s \in {GoalOf[p]} : DesiredRevision[s] = procs[p].group}
    BY <1>2 DEF Succeed
  <2>2. ASSUME DesiredRevision[GoalOf[p]] = procs[p].group
        PROVE  ledger[GoalOf[p]] = "operational" /\ staged[GoalOf[p]] = "desired"
    <3>1. procs[p].group # 0 /\ procs[p].group <= procs[p].expected[GoalOf[p]]
          /\ procs[p].expected[GoalOf[p]] <= epoch[GoalOf[p]] /\ GoalOf[p] \in Slot
      BY <1>2, NumbersTyped DEF EpochInv
    <3>2. ledger[GoalOf[p]] = "operational" /\ epoch[GoalOf[p]] = procs[p].group
      BY <2>2, <3>1 DEF DesiredRevision
    <3>3. Still(p, GoalOf[p])
      BY <2>2, <3>1, <3>2, NumbersTyped DEF Still
    <3>4. PlanInv(p)
      BY <1>2 DEF WorkOf
    <3> QED
      BY <1>2, <3>1, <3>2, <3>3, <3>4, AllThere
  <2> QED
    BY <1>0, <1>2, <2>1, <2>2 DEF ReadyInv
<1>3. CASE TakeSnapshot(p)
  <2>1. UNCHANGED staged /\ procs[p].pc \in Working
    BY <1>3 DEF TakeSnapshot, OnProxmox, At, Working
  <2>2. CASE Succeed(p)
    <3>1. procs[p].planned = {} \/ UNCHANGED ready
      BY <1>3 DEF TakeSnapshot
    <3> QED
      BY <1>1, <1>2, <2>1, <2>2, <3>1 DEF Converged
  <2>3. CASE ~Succeed(p)
    BY <1>1, <1>3, <2>1, <2>3 DEF TakeSnapshot
  <2> QED
    BY <2>2, <2>3
<1>4. CASE Verify(p)
  <2>1. UNCHANGED staged /\ procs[p].pc \in Working
    BY <1>4 DEF Verify, OnProxmox, At, Working
  <2> QED
    BY <1>1, <1>2, <1>4, <2>1 DEF Verify
<1>5. CASE Mutate(p)
  <2>1. \E kind \in {"create", "update"} : \E s \in Planned(p, kind) : staged' \in {staged, Mutated(s, kind)}
    BY <1>5, Zenon DEF Mutate
  <2>2. UNCHANGED ready /\ PlanInv(p)
    BY <1>5 DEF Mutate, At, WorkOf, Working
  <2>3. \A kind \in {"create", "update"} : \A s \in Planned(p, kind) : s \notin ready
    BY <2>2 DEF PlanInv, Planned
  <2>4. ready \subseteq Slot
    BY DEF TypeOK
  <2> QED
    BY <1>0, <1>1, <2>1, <2>2, <2>3, <2>4 DEF Mutated, Snapshot
<1>6. CASE Compensate(p)
  <2>1. PICK s \in procs[p].undo :
          staged' \in {staged, [staged EXCEPT ![s] = procs[p].before[s]],
                       [staged EXCEPT ![s] = IF @ = "desired" THEN procs[p].before[s] ELSE @]}
    BY <1>6, Zenon DEF Compensate
  <2>2. UNCHANGED ready /\ PlanInv(p)
    BY <1>6 DEF Compensate, At, WorkOf, Working
  <2>3. s \notin ready
    BY <2>1, <2>2 DEF PlanInv
  <2>4. ready \subseteq Slot
    BY DEF TypeOK
  <2> QED
    BY <1>0, <1>1, <2>1, <2>2, <2>3, <2>4 DEF Snapshot
<1>7. CASE ~TakeSnapshot(p) /\ ~Verify(p) /\ ~Mutate(p) /\ ~Compensate(p)
  <2>1. UNCHANGED <<staged, ready>>
    BY <1>7 DEF ApplierStep, ReadPlan, WaitForLock, LoseRevision, TakeLock, NotReadable, ObserveAndPlan,
       ApplySdn, FinishCompensation, GiveUp, OnProxmox
  <2> QED
    BY <1>1, <2>1
<1> QED
  BY <1>3, <1>4, <1>5, <1>6, <1>7

\* The ledger and the teardowns.
LEMMA OutsideSteps ==
    ASSUME TypeOK, VnetInv, TornOnce,
           \/ \E s \in Slot : Claim(s)
           \/ \E t \in Teardown, s \in Slot : MarkDeleting(t, s)
           \/ \E t \in Teardown : TeardownStep(t)
    PROVE  VnetInv'
<1>0. /\ procs' = procs /\ ready' \subseteq ready
      /\ staged \in Snapshot /\ ready \subseteq Slot
      /\ ledger \in [Slot -> {"free", "operational", "deleting"}] /\ epoch \in [Slot -> 0..MaxEpoch]
      /\ teardowns \in [Teardown -> [pc : {"idle", "look", "delete", "apply", "check", "release"},
                                     slot : Slot, epoch : 0..MaxEpoch]]
  BY DEF TypeOK, Claim, MarkDeleting, TeardownStep, LookForVnet, DeleteVnet, ApplyDeletion,
         CheckDeletion, Release, TeardownOnly
\* Everything but the teardowns' own invariant follows from this.
<1>1. ASSUME \A s \in Slot : /\ epoch'[s] \in {epoch[s], epoch[s] + 1}
                             /\ DesiredRevision'[s] \in {DesiredRevision[s], 0, epoch[s] + 1}
                             /\ ledger'[s] = "operational" => epoch'[s] # 0
                             /\ ledger[s] = "operational" => staged'[s] = staged[s],
             \A s \in ready' : ledger'[s] = "operational"
      PROVE  EpochInv' /\ ReadyInv' /\ WorkInv'
  <2>1. EpochInv'
    BY <1>0, <1>1, NumbersTyped DEF VnetInv, EpochInv
  <2>2. ReadyInv'
    BY <1>0, <1>1 DEF VnetInv, ReadyInv
  <2>3. WorkInv'
    <3> SUFFICES ASSUME NEW p \in Applier PROVE WorkOf(p)'
      BY DEF WorkInv
    <3>1. EpochInv /\ WorkOf(p)
      BY DEF VnetInv, WorkInv
    <3> QED
      BY <1>0, <1>1, <3>1, PlanKept
  <2> QED
    BY <2>1, <2>2, <2>3
<1>2. ASSUME NEW s \in Slot, Claim(s) PROVE VnetInv'
  <2>1. /\ \A z \in Slot \ {s} : ledger'[z] = ledger[z] /\ epoch'[z] = epoch[z]
        /\ ledger[s] = "free" /\ ledger'[s] = "operational" /\ epoch'[s] = epoch[s] + 1
        /\ UNCHANGED <<staged, ready, teardowns>>
    BY <1>0, <1>2 DEF Claim, OnProxmox, Aside
  <2>2. \A z \in Slot : DesiredRevision'[z] \in {DesiredRevision[z], epoch[z] + 1}
    BY <2>1 DEF DesiredRevision
  <2>3. \A z \in Slot : ledger'[z] = "operational" => epoch'[z] # 0
    BY <2>1, NumbersTyped DEF VnetInv, EpochInv
  <2>4. \A z \in ready' : ledger'[z] = "operational"
    BY <1>0, <2>1 DEF VnetInv, ReadyInv
  <2>5. EpochInv' /\ ReadyInv' /\ WorkInv'
    BY <1>1, <2>1, <2>2, <2>3, <2>4
  <2>6. TornInv'
    BY <1>0, <2>1 DEF VnetInv, TornInv
  <2> QED
    BY <2>5, <2>6 DEF VnetInv
<1>3. ASSUME NEW t \in Teardown, NEW s \in Slot, MarkDeleting(t, s) PROVE VnetInv'
  <2>1. /\ \A z \in Slot \ {s} : ledger'[z] = ledger[z]
        /\ ledger'[s] = "deleting" /\ ready' = ready \ {s}
        /\ UNCHANGED <<epoch, staged>>
        /\ teardowns' = [teardowns EXCEPT ![t] = [pc |-> "look", slot |-> s, epoch |-> epoch[s]]]
    BY <1>0, <1>3 DEF MarkDeleting, OnProxmox
  <2>2. \A z \in Slot : DesiredRevision'[z] \in {DesiredRevision[z], 0}
    BY <2>1 DEF DesiredRevision
  <2>3. \A z \in ready' : ledger'[z] = "operational"
    BY <1>0, <2>1 DEF VnetInv, ReadyInv
  <2>4. \A z \in Slot : ledger'[z] = "operational" => epoch'[z] # 0
    BY <2>1 DEF VnetInv, EpochInv
  <2>5. EpochInv' /\ ReadyInv' /\ WorkInv'
    BY <1>1, <2>1, <2>2, <2>3, <2>4
  <2>6. TornInv'
    <3>1. \A u \in Teardown \ {t} : teardowns'[u] = teardowns[u] /\ teardowns[u].slot \in Slot
      BY <1>0, <2>1
    <3>2. teardowns'[t].slot = s
      BY <1>0, <2>1
    <3> QED
      BY <2>1, <3>1, <3>2 DEF VnetInv, TornInv
  <2> QED
    BY <2>5, <2>6 DEF VnetInv
<1>4. ASSUME NEW t \in Teardown, TeardownStep(t) PROVE VnetInv'
  <2> DEFINE s == teardowns[t].slot
  <2>0. teardowns[t].pc # "idle" /\ s \in Slot /\ ledger[s] = "deleting"
    BY <1>0, <1>4 DEF TeardownStep, LookForVnet, DeleteVnet, ApplyDeletion, CheckDeletion, Release,
       VnetInv, TornInv
  <2>1. /\ UNCHANGED <<epoch, ready>>
        /\ \A z \in Slot \ {s} : staged'[z] = staged[z] /\ ledger'[z] = ledger[z]
        /\ ledger'[s] \in {"deleting", "free"}
    BY <1>0, <1>4, <2>0 DEF TeardownStep, LookForVnet, DeleteVnet, ApplyDeletion, CheckDeletion, Release,
       OnLedger, OnProxmox, Deleted, Snapshot
  <2>2. \A z \in Slot : DesiredRevision'[z] = DesiredRevision[z]
    BY <2>0, <2>1 DEF DesiredRevision
  <2>3. \A z \in ready : ledger[z] = "operational"
    BY DEF VnetInv, ReadyInv
  <2>4. \A z \in ready' : ledger'[z] = "operational"
    BY <1>0, <2>0, <2>1, <2>3
  <2>5. \A z \in Slot : ledger'[z] = "operational" => epoch'[z] # 0
    BY <2>0, <2>1 DEF VnetInv, EpochInv
  <2>6. EpochInv' /\ ReadyInv' /\ WorkInv'
    BY <1>1, <2>0, <2>1, <2>2, <2>4, <2>5
  <2>7. TornInv'
    <3>1. /\ \A u \in Teardown \ {t} : teardowns'[u] = teardowns[u]
          /\ teardowns'[t].slot = s
          /\ teardowns'[t].pc = "idle" \/ ledger'[s] = "deleting"
      BY <1>0, <1>4, <2>0
         DEF TeardownStep, LookForVnet, DeleteVnet, ApplyDeletion, CheckDeletion, Release,
             TeardownGoto, OnLedger
    <3>2. \A u \in Teardown \ {t} : teardowns[u].pc # "idle" => teardowns[u].slot # s
      BY <2>0 DEF TornOnce
    <3>3. \A u \in Teardown : teardowns[u].slot \in Slot
      BY <1>0
    <3> QED
      BY <2>1, <3>1, <3>2, <3>3 DEF VnetInv, TornInv
  <2> QED
    BY <2>6, <2>7 DEF VnetInv
<1> QED
  BY <1>2, <1>3, <1>4

LEMMA VnetInit == Init => VnetInv
<1> SUFFICES ASSUME Init PROVE VnetInv
  OBVIOUS
<1>1. \A p \in Applier : /\ procs[p].expected = [s \in Slot |-> 0] /\ procs[p].group = 0
                         /\ procs[p].pc = "idle" /\ procs[p].started = {} /\ procs[p].undo = {}
  BY DEF Init, NewProc, Process
<1>2. EpochInv
  BY <1>1, VnetAssumption DEF Init, EpochInv, Working, VnetAssumption
<1>3. TornInv /\ ReadyInv
  BY DEF Init, TornInv, ReadyInv
<1>4. WorkInv
  BY <1>1 DEF WorkInv, WorkOf, Working, Changing
<1> QED
  BY <1>2, <1>3, <1>4 DEF VnetInv

LEMMA VnetStep ==
    ASSUME TypeOK, LockInv, VnetInv, TornOnce, [Next]_vars
    PROVE  VnetInv'
<1>1. ASSUME NEW p \in Applier, ApplierStep(p) PROVE VnetInv'
  <2>1. /\ \A q \in Applier \ {p} : procs'[q] = procs[q]
        /\ procs[p].pc \notin Holding => UNCHANGED <<staged, ready>>
        /\ UNCHANGED <<ledger, epoch, teardowns>>
    BY <1>1, ApplierAlone DEF Process
  <2>2. EpochInv' /\ ReadyInv' /\ WorkOf(p)'
    BY <1>1, ApplierEpochs, ApplierReady, ApplierWork DEF VnetInv, WorkInv
  <2>3. TornInv'
    BY <2>1 DEF VnetInv, TornInv
  <2>4. ASSUME NEW q \in Applier \ {p} PROVE WorkOf(q)'
    <3>1. procs[q].pc \in Working => UNCHANGED <<staged, ready>>
      BY <2>1 DEF LockInv, Process, Working, Holding
    <3>2. EpochInv /\ WorkOf(q) /\ UNCHANGED DesiredRevision
      BY <2>1 DEF VnetInv, WorkInv, DesiredRevision
    <3> QED
      BY <2>1, <3>1, <3>2, PlanKept
  <2> QED
    BY <2>2, <2>3, <2>4 DEF VnetInv, WorkInv
<1>2. ASSUME NEW p \in Process,
             \/ p \in Inspector /\ (DryRunRefused(p) \/ BeginDryRun(p) \/ EndDryRun(p))
             \/ Crash(p)
      PROVE  VnetInv'
  <2>1. /\ UNCHANGED <<ledger, epoch, staged, ready, teardowns>>
        /\ \A q \in Process \ {p} : procs'[q] = procs[q]
    BY <1>2 DEF DryRunRefused, BeginDryRun, EndDryRun, EndAttempt, Crash, Answer, Goto,
       OnLedger, OnProxmox, Aside, TypeOK
  <2>2. TornInv' /\ ReadyInv'
    BY <2>1 DEF VnetInv, TornInv, ReadyInv
  <2>3. ASSUME NEW q \in Applier
        PROVE  \/ procs'[q] = procs[q]
               \/ /\ procs'[q].expected = [s \in Slot |-> 0] /\ procs'[q].group = 0
                  /\ procs'[q].pc = "dead" /\ procs'[q].started = {} /\ procs'[q].undo = {}
    <3>1. CASE q # p
      BY <2>1, <3>1 DEF Process
    <3>2. CASE q = p
      <4>1. p \notin Inspector
        BY <3>2, VnetAssumption DEF VnetAssumption
      <4>2. procs'[p] = [NewProc EXCEPT !.pc = "dead"]
        BY <1>2, <4>1 DEF Crash, Answer, TypeOK
      <4> QED
        BY <3>2, <4>2 DEF NewProc
    <3> QED
      BY <3>1, <3>2
  <2>4. EpochInv'
    BY <2>1, <2>3, NumbersTyped DEF VnetInv, EpochInv, Working
  <2>5. ASSUME NEW q \in Applier PROVE WorkOf(q)'
    <3>1. CASE procs'[q] = procs[q]
      <4>1. EpochInv /\ WorkOf(q) /\ UNCHANGED DesiredRevision
        BY <2>1 DEF VnetInv, WorkInv, DesiredRevision
      <4> QED
        BY <2>1, <3>1, <4>1, PlanKept
    <3>2. CASE procs'[q].pc = "dead" /\ procs'[q].started = {} /\ procs'[q].undo = {}
      BY <3>2 DEF WorkOf, Working
    <3> QED
      BY <2>3, <3>1, <3>2
  <2> QED
    BY <2>2, <2>4, <2>5 DEF VnetInv, WorkInv
<1>3. CASE \/ \E s \in Slot : Claim(s)
           \/ \E t \in Teardown, s \in Slot : MarkDeleting(t, s)
           \/ \E t \in Teardown : TeardownStep(t)
  BY <1>3, OutsideSteps
<1>4. CASE UNCHANGED vars
  <2>1. UNCHANGED DesiredRevision
    BY <1>4 DEF vars, DesiredRevision
  <2> QED
    BY <1>4, <2>1 DEF vars, VnetInv, EpochInv, TornInv, ReadyInv, WorkInv, WorkOf, PlanInv, Still, Targets
<1> QED
  BY <1>1, <1>2, <1>3, <1>4 DEF Next, Process

LEMMA VnetHolds == Spec /\ []TornOnce => []VnetInv
<1>1. TypeOK /\ LockInv /\ VnetInv /\ TornOnce /\ [Next]_vars => VnetInv'
  BY VnetStep
<1> QED
  BY VnetTypesHold, LockHolds, VnetInit, <1>1, PTL DEF Spec

\* Whatever applies fail, are undone or die beside it, and whatever other groups
\* are torn down, the VNet a create was told is there stays as it should be until
\* its group is given up, as long as no group is torn down twice at once.
THEOREM ReadyStays == Spec /\ []TornOnce => []ReadyVnetStays
<1>1. VnetInv => ReadyVnetStays
  BY DEF VnetInv, ReadyInv, ReadyVnetStays
<1> QED
  BY VnetHolds, <1>1, PTL

-----------------------------------------------------------------------------
\* What the attempt table says was done.

Saying == {"apply-failed", "compensated", "applied"}

\* A row says how its attempt ended only when it has ended.
PhaseInv == \A p \in Process : Running(p) => attempts[p].phase \notin Saying

\* The rows an applier's step leaves, the others' and its own.
LEMMA ApplierSays ==
    ASSUME TypeOK, NEW p \in Applier, ApplierStep(p)
    PROVE  /\ \A q \in Process \ {p} :
                attempts'[q] = attempts[q] \/ attempts'[q] = [status |-> "abandoned", phase |-> "abandoned"]
           /\ \/ attempts'[p] = attempts[p] \/ attempts'[p].phase \notin Saying
              \/ /\ TakeSnapshot(p) /\ attempts'[p] = [status |-> "failed", phase |-> "apply-failed"]
              \/ /\ FinishCompensation(p) /\ Restored(p)
                 /\ attempts'[p] = [status |-> "failed", phase |-> "compensated"]
              \/ /\ (TakeSnapshot(p) /\ procs[p].planned = {}) \/ (Verify(p) /\ Converged(p))
                 /\ attempts'[p] = [status |-> "succeeded", phase |-> "applied"]
<1>0. attempts \in [Process -> Attempt] /\ p \in Process
  BY DEF TypeOK, Process
<1>1. ASSUME NEW status, NEW phase, Record(p, status, phase)
      PROVE  /\ attempts'[p] = [status |-> status, phase |-> phase]
             /\ \A q \in Process \ {p} : attempts'[q] = attempts[q]
  BY <1>0, <1>1 DEF Record
<1>2. ASSUME NEW phase \in {"applying", "verifying", "compensating"}, Checkpoint(p, phase)
      PROVE  /\ attempts'[p].phase = phase /\ phase \notin Saying
             /\ \A q \in Process \ {p} : attempts'[q] = attempts[q]
  BY <1>0, <1>2 DEF Checkpoint, Attempt, Saying
<1>3. CASE ReadPlan(p) \/ WaitForLock(p) \/ NotReadable(p) \/ ApplySdn(p)
  BY <1>3 DEF ReadPlan, WaitForLock, NotReadable, ApplySdn, GiveUp
<1>4. CASE LoseRevision(p) \/ TakeLock(p)
  <2>1. attempts' = AbandonRunning
    BY <1>4 DEF LoseRevision, TakeLock
  <2>2. \A q \in Process : \/ attempts'[q] = attempts[q]
                           \/ attempts'[q] = [status |-> "abandoned", phase |-> "abandoned"]
    BY <2>1 DEF AbandonRunning
  <2> QED
    BY <1>0, <2>2 DEF Saying
<1>5. CASE ObserveAndPlan(p)
  BY <1>0, <1>5 DEF ObserveAndPlan, Create, Saying
<1>6. CASE TakeSnapshot(p)
  BY <1>1, <1>6 DEF TakeSnapshot, Succeed, EndAttempt
<1>7. CASE Mutate(p)
  <2>1. Checkpoint(p, "applying")
    BY <1>7 DEF Mutate
  <2> QED
    BY <1>2, <2>1
<1>8. CASE Verify(p)
  BY <1>1, <1>2, <1>8 DEF Verify, Succeed, EndAttempt
<1>9. CASE Compensate(p)
  <2>1. Checkpoint(p, "compensating") \/ Record(p, "failed", "compensation-failed")
    BY <1>9, Zenon DEF Compensate, EndAttempt
  <2>2. CASE Checkpoint(p, "compensating")
    BY <1>2, <2>2
  <2>3. CASE Record(p, "failed", "compensation-failed")
    <3>1. /\ attempts'[p] = [status |-> "failed", phase |-> "compensation-failed"]
          /\ \A q \in Process \ {p} : attempts'[q] = attempts[q]
      BY <1>1, <2>3
    <3> QED
      BY <3>1 DEF Saying
  <2> QED
    BY <2>1, <2>2, <2>3
<1>10. CASE FinishCompensation(p)
  <2>1. \/ Record(p, "failed", "compensated") /\ Restored(p)
        \/ Record(p, "failed", "compensation-failed")
    BY <1>10 DEF FinishCompensation, EndAttempt
  <2>2. CASE Record(p, "failed", "compensated") /\ Restored(p)
    BY <1>1, <1>10, <2>2
  <2>3. CASE Record(p, "failed", "compensation-failed")
    <3>1. /\ attempts'[p] = [status |-> "failed", phase |-> "compensation-failed"]
          /\ \A q \in Process \ {p} : attempts'[q] = attempts[q]
      BY <1>1, <2>3
    <3> QED
      BY <3>1 DEF Saying
  <2> QED
    BY <2>1, <2>2, <2>3
<1> QED
  BY <1>3, <1>4, <1>5, <1>6, <1>7, <1>8, <1>9, <1>10 DEF ApplierStep

\* Every other step leaves an applier's row alone or ends it as abandoned.
LEMMA OthersSay ==
    ASSUME TypeOK, [Next]_vars, NEW p \in Process,
           p \in Applier => ~ApplierStep(p)
    PROVE  \/ attempts'[p] = attempts[p]
           \/ attempts'[p].phase = "abandoned"
           \/ p \in Inspector /\ (BeginDryRun(p) \/ EndDryRun(p))
<1>0. attempts \in [Process -> Attempt]
  BY DEF TypeOK
<1>1. ASSUME NEW q \in Applier, ApplierStep(q) PROVE p # q => attempts'[p] = attempts[p] \/ attempts'[p].phase = "abandoned"
  BY <1>1, ApplierSays
<1>2. CASE \E i \in Inspector : DryRunRefused(i) \/ BeginDryRun(i) \/ EndDryRun(i)
  <2>1. PICK i \in Inspector : DryRunRefused(i) \/ BeginDryRun(i) \/ EndDryRun(i)
    BY <1>2
  <2>2. CASE i # p
    <3>1. CASE BeginDryRun(i)
      BY <1>0, <2>2, <3>1 DEF BeginDryRun, Create, AbandonRunning
    <3>2. CASE DryRunRefused(i) \/ EndDryRun(i)
      BY <1>0, <2>2, <3>2 DEF DryRunRefused, EndDryRun, EndAttempt, Record
    <3> QED
      BY <2>1, <3>1, <3>2
  <2>3. CASE i = p
    BY <2>1, <2>3 DEF DryRunRefused
  <2> QED
    BY <2>2, <2>3
<1>3. CASE \/ \E q \in Process : Crash(q)
           \/ \E s \in Slot : Claim(s)
           \/ \E t \in Teardown, s \in Slot : MarkDeleting(t, s)
           \/ \E t \in Teardown : TeardownStep(t)
           \/ UNCHANGED vars
  BY <1>3 DEF Crash, Claim, MarkDeleting, TeardownStep, LookForVnet, DeleteVnet, ApplyDeletion,
     CheckDeletion, Release, TeardownOnly, vars
<1> QED
  BY <1>1, <1>2, <1>3 DEF Next

LEMMA PhaseHolds == Spec => []PhaseInv
<1>1. Init => PhaseInv
  BY DEF Init, PhaseInv, NoAttempt, Running
<1>2. TypeOK /\ PhaseInv /\ [Next]_vars => PhaseInv'
  <2> SUFFICES ASSUME TypeOK, PhaseInv, [Next]_vars, NEW p \in Process, Running(p)',
                      attempts'[p].phase \in Saying
               PROVE  FALSE
    BY DEF PhaseInv
  <2>0. attempts'[p] # attempts[p]
    BY DEF PhaseInv, Running
  <2>1. CASE p \in Applier /\ ApplierStep(p)
    BY <2>0, <2>1, ApplierSays DEF Running
  <2>2. CASE p \in Inspector /\ (BeginDryRun(p) \/ EndDryRun(p))
    <3>1. attempts \in [Process -> Attempt]
      BY DEF TypeOK
    <3>2. attempts'[p].phase \in {"planning", "planned"}
      BY <2>2, <3>1 DEF BeginDryRun, EndDryRun, EndAttempt, Record, Create, AbandonRunning
    <3> QED
      BY <3>2 DEF Saying
  <2> QED
    BY <2>0, <2>1, <2>2, OthersSay DEF Saying
<1> QED
  BY VnetTypesHold, <1>1, <1>2, PTL DEF Spec

\* What the step that writes such a row has behind it.
LEMMA Said ==
    ASSUME TypeOK, LockInv, VnetInv, PhaseInv, [Next]_vars, NEW p \in Applier,
           Running(p), attempts'[p].phase \in Saying
    PROVE  /\ UNCHANGED staged /\ PlanInv(p)
           /\ \/ attempts'[p].phase = "apply-failed" /\ At(p, "snapshot")
              \/ attempts'[p].phase = "compensated" /\ procs[p].pc \in Changing /\ Restored(p)
              \/ attempts'[p].phase = "applied" /\ Converged(p)
<1>0. p \in Process /\ attempts'[p] # attempts[p] /\ p \notin Inspector
  BY VnetAssumption DEF PhaseInv, Process, VnetAssumption
<1>1. ApplierStep(p)
  BY <1>0, OthersSay DEF Saying
<1>2. \/ TakeSnapshot(p) /\ attempts'[p].phase = "apply-failed"
      \/ FinishCompensation(p) /\ Restored(p) /\ attempts'[p].phase = "compensated"
      \/ TakeSnapshot(p) /\ procs[p].planned = {} /\ attempts'[p].phase = "applied"
      \/ Verify(p) /\ Converged(p) /\ attempts'[p].phase = "applied"
  BY <1>0, <1>1, ApplierSays
<1>3. UNCHANGED staged /\ procs[p].pc \in Working
  BY <1>2 DEF TakeSnapshot, FinishCompensation, Verify, OnProxmox, At, Working
<1>4. PlanInv(p)
  BY <1>3 DEF VnetInv, WorkInv, WorkOf
<1> QED
  BY <1>2, <1>3, <1>4 DEF TakeSnapshot, FinishCompensation, At, Changing, Working, Converged

\* An attempt that says nothing was applied, or that everything was put back, left
\* the VNet of every group of its revision that is still there as it found it.
THEOREM FailuresLeaveNoTrace == Spec /\ []TornOnce => FailureLeavesNoTrace
<1> DEFINE A == \A p \in Applier :
        (Running(p) /\ attempts'[p].phase \in {"apply-failed", "compensated"}) =>
            \A s \in Targets(procs[p].expected) :
                DesiredRevision[s] = procs[p].expected[s] => staged'[s] = procs[p].found[s]
<1>1. TypeOK /\ LockInv /\ VnetInv /\ PhaseInv /\ [Next]_vars => A
  <2> SUFFICES ASSUME TypeOK, LockInv, VnetInv, PhaseInv, [Next]_vars,
                      NEW p \in Applier, Running(p),
                      attempts'[p].phase \in {"apply-failed", "compensated"},
                      NEW s \in Targets(procs[p].expected),
                      DesiredRevision[s] = procs[p].expected[s]
               PROVE  staged'[s] = procs[p].found[s]
    OBVIOUS
  <2>1. /\ UNCHANGED staged /\ PlanInv(p)
        /\ At(p, "snapshot") \/ (procs[p].pc \in Changing /\ Restored(p))
    BY Said DEF Saying
  <2>2. s \in Slot /\ Still(p, s)
    BY DEF Targets, Still
  <2>3. CASE s \in procs[p].started
    <3>1. procs[p].pc \in Changing /\ Restored(p)
      BY <2>1, <2>3 DEF VnetInv, WorkInv, WorkOf, Changing, At
    <3> QED
      BY <2>1, <2>2, <2>3, <3>1 DEF PlanInv, Restored, AsBefore
  <2>4. CASE s \notin procs[p].started
    BY <2>1, <2>2, <2>4 DEF PlanInv
  <2> QED
    BY <2>3, <2>4
<1>2. TypeOK /\ LockInv /\ VnetInv /\ PhaseInv /\ [Next]_vars => [A]_vars
  BY <1>1
<1> QED
  BY VnetTypesHold, LockHolds, VnetHolds, PhaseHolds, <1>2, PTL DEF Spec, FailureLeavesNoTrace

\* An attempt that succeeded has converged every group of the revision it names
\* that is still there, those it did not have to touch included.
THEOREM SuccessConverges == Spec /\ []TornOnce => SuccessMeansConverged
<1> DEFINE A == \A p \in Applier :
        (Running(p) /\ attempts'[p].phase = "applied") =>
            \A s \in Targets(procs[p].expected) :
                DesiredRevision[s] = procs[p].expected[s] => staged'[s] = "desired"
<1>1. TypeOK /\ LockInv /\ VnetInv /\ PhaseInv /\ [Next]_vars => A
  <2> SUFFICES ASSUME TypeOK, LockInv, VnetInv, PhaseInv, [Next]_vars,
                      NEW p \in Applier, Running(p), attempts'[p].phase = "applied",
                      NEW s \in Targets(procs[p].expected),
                      DesiredRevision[s] = procs[p].expected[s]
               PROVE  staged'[s] = "desired"
    OBVIOUS
  <2>1. UNCHANGED staged /\ PlanInv(p) /\ Converged(p)
    BY Said DEF Saying
  <2>2. s \in Slot /\ Still(p, s)
    BY DEF Targets, Still
  <2> QED
    BY <2>1, <2>2, AllThere
<1>2. TypeOK /\ LockInv /\ VnetInv /\ PhaseInv /\ [Next]_vars => [A]_vars
  BY <1>1
<1> QED
  BY VnetTypesHold, LockHolds, VnetHolds, PhaseHolds, <1>2, PTL DEF Spec, SuccessMeansConverged

=============================================================================
