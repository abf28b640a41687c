-------------------------- MODULE AccessTrunk_proofs --------------------------
(***************************************************************************)
(* For every number of applies, VLANs, moves of the groups and restarts of *)
(* the container:                                                          *)
(*   - the migration VLAN is never taken off either half of the trunk;     *)
(*   - once no timer is armed both halves agree, unless an apply began     *)
(*     before the one before it was over, a command of the last restore    *)
(*     failed, or the last apply found them apart;                         *)
(*   - an attempt recorded as compensated has been undone, or leaves the   *)
(*     timer that undoes it, or its undoing was tried and failed; unless   *)
(*     an apply began too early, as before.                                *)
(***************************************************************************)
EXTENDS AccessTrunk, TLAPS

\* What an apply asks for is settled before its forced command starts, and its
\* command is over by the time it verifies.
PlanInv ==
    \A a \in Apply :
        /\ (At(a, "call") \/ ~HostAt(a, "off")) => Migration \in applies[a].desired
        /\ applies[a].pc \in {"idle", "plan", "call"} => HostAt(a, "off")
        /\ applies[a].pc \in {"verify", "abandon"} => hosts[a].pc \in {"applied", "unproven"}

\* Every snapshot there is was taken of a trunk with the migration VLAN.
SnapshotInv ==
    /\ \A a \in Apply : Begun(a) =>
            Migration \in hosts[a].before.persistent /\ Migration \in hosts[a].before.live
    /\ \A a \in Apply : hosts[a].pc \in {"persist", "live", "record"} => script.by # None
    /\ txn.by # None => script.by # None
    /\ script.by # None => /\ Migration \in script.persistent
                           /\ Migration \in script.live

TransportInv == TypeOK /\ PlanInv /\ SnapshotInv /\ MigrationStays

-----------------------------------------------------------------------------
\* The types.

BackendRecord == [pc : BackendStep, expected : SUBSET Vlan, desired : Trunk]
HostRecord == [pc : HostStep, net1 : Trunk, before : [persistent : Trunk, live : Trunk]]

LEMMA TrunkInit == Init => TransportInv
<1> SUFFICES ASSUME Init PROVE TransportInv
  OBVIOUS
<1>1. {} \in Trunk /\ {Migration} \in Trunk
  BY DEF Trunk
<1>2. applies \in [Apply -> BackendRecord] /\ hosts \in [Apply -> HostRecord]
  BY <1>1 DEF Init, BackendRecord, HostRecord, BackendStep, HostStep
<1>3. TypeOK
  BY <1>1, <1>2 DEF Init, TypeOK, BackendRecord, HostRecord, NoScript, Script
<1>4. PlanInv /\ SnapshotInv /\ MigrationStays
  BY DEF Init, PlanInv, SnapshotInv, MigrationStays, NoScript, At, HostAt, Begun
<1> QED
  BY <1>3, <1>4 DEF TransportInv

\* How the helpers move an apply and its forced command.
LEMMA BackendMoves ==
    ASSUME TypeOK, NEW a \in Apply, NEW step \in BackendStep, Goto(a, step)
    PROVE  /\ applies' \in [Apply -> BackendRecord]
           /\ applies'[a].pc = step /\ applies'[a].desired = applies[a].desired
           /\ \A b \in Apply \ {a} : applies'[b] = applies[b]
BY DEF TypeOK, Goto, BackendRecord

LEMMA HostMoves ==
    ASSUME TypeOK, NEW a \in Apply, NEW step \in HostStep, HostGoto(a, step)
    PROVE  /\ hosts' \in [Apply -> HostRecord]
           /\ hosts'[a].pc = step /\ hosts'[a].before = hosts[a].before
           /\ \A b \in Apply \ {a} : hosts'[b] = hosts[b]
BY DEF TypeOK, HostGoto, HostRecord

\* Where each step of the forced command leads.
LEMMA HostPaths ==
    ASSUME TypeOK, NEW a \in Apply, HostProcess(a)
    PROVE  /\ hosts' \in [Apply -> HostRecord]
           /\ \A b \in Apply \ {a} : hosts'[b] = hosts[b]
           /\ Check(a) => \/ hosts'[a].pc = "raised"
                          \/ /\ hosts'[a].pc = "arm" /\ veth
                             /\ hosts'[a].before = [persistent |-> persistent, live |-> live]
           /\ ~Check(a) => hosts'[a].before = hosts[a].before
           /\ Arm(a) => hosts'[a].pc = "raised" \/ (hosts'[a].pc = "persist" /\ timer' = a)
           /\ Persist(a) => hosts'[a].pc \in {"live", "raised"}
           /\ Program(a) => hosts'[a].pc \in {"record", "raised"}
           /\ RecordTransaction(a) => hosts'[a].pc \in {"applied", "unproven"}
           /\ CommitVerify(a) => hosts'[a].pc \in {"cancel", "raised"}
           /\ CommitCancel(a) => hosts'[a].pc \in {"committed", "stillArmed"}
<1>1. CASE Check(a)
  <2>1. CASE Raise(a)
    BY <1>1, <2>1, HostMoves DEF Check, Raise, HostStep, Arm, Persist, Program, RecordTransaction,
       CommitVerify, CommitCancel, HostAt
  <2>2. CASE ~Raise(a)
    <3> DEFINE new == [hosts[a] EXCEPT !.pc = "arm", !.before = [persistent |-> persistent, live |-> live]]
    <3>1. hosts' = [hosts EXCEPT ![a] = new] /\ veth
      BY <1>1, <2>2 DEF Check, TypeOK
    <3>2. new \in HostRecord /\ new.pc = "arm" /\ new.before = [persistent |-> persistent, live |-> live]
      BY DEF TypeOK, HostRecord, HostStep
    <3> HIDE DEF new
    <3>3. hosts' \in [Apply -> HostRecord] /\ hosts'[a] = new /\ \A b \in Apply \ {a} : hosts'[b] = hosts[b]
      BY <3>1, <3>2 DEF TypeOK, HostRecord
    <3>4. hosts[a].pc = "check"
      BY <1>1 DEF Check, HostAt
    <3> QED
      BY <1>1, <3>1, <3>2, <3>3, <3>4
         DEF Arm, Persist, Program, RecordTransaction, CommitVerify, CommitCancel, HostAt
  <2> QED
    BY <2>1, <2>2
<1>2. CASE Arm(a)
  BY <1>2, HostMoves DEF Arm, Raise, HostStep, Check, Persist, Program, RecordTransaction, CommitVerify,
     CommitCancel, HostAt
<1>3. CASE Persist(a)
  BY <1>3, HostMoves DEF Persist, Raise, HostStep, Check, Arm, Program, RecordTransaction, CommitVerify,
     CommitCancel, HostAt
<1>4. CASE Program(a)
  BY <1>4, HostMoves DEF Program, Raise, HostStep, Check, Arm, Persist, RecordTransaction, CommitVerify,
     CommitCancel, HostAt
<1>5. CASE RecordTransaction(a)
  BY <1>5, HostMoves DEF RecordTransaction, HostStep, Check, Arm, Persist, Program, CommitVerify,
     CommitCancel, HostAt
<1>6. CASE CommitVerify(a)
  BY <1>6, HostMoves DEF CommitVerify, Raise, HostStep, Check, Arm, Persist, Program, RecordTransaction,
     CommitCancel, HostAt
<1>7. CASE CommitCancel(a)
  BY <1>7, HostMoves DEF CommitCancel, HostStep, Check, Arm, Persist, Program, RecordTransaction,
     CommitVerify, HostAt
<1> QED
  BY <1>1, <1>2, <1>3, <1>4, <1>5, <1>6, <1>7 DEF HostProcess

\* Where each step of the backend leads the forced command.
LEMMA BackendPaths ==
    ASSUME TypeOK, NEW a \in Apply, Backend(a)
    PROVE  /\ hosts' \in [Apply -> HostRecord]
           /\ \A b \in Apply \ {a} : hosts'[b] = hosts[b]
           /\ hosts'[a].before = hosts[a].before
           /\ \/ hosts'[a].pc = hosts[a].pc
              \/ Call(a) /\ hosts'[a].pc = "check"
              \/ Verify(a) /\ hosts'[a].pc = "verify"
<1>1. CASE Call(a)
  <2> DEFINE new == [hosts[a] EXCEPT !.pc = "check", !.net1 = persistent]
  <2>1. hosts' = [hosts EXCEPT ![a] = new]
    BY <1>1 DEF Call, TypeOK
  <2>2. new \in HostRecord /\ new.pc = "check" /\ new.before = hosts[a].before
    BY DEF TypeOK, HostRecord, HostStep
  <2> HIDE DEF new
  <2> QED
    BY <1>1, <2>1, <2>2 DEF TypeOK, HostRecord
<1>2. CASE Verify(a)
  <2>1. HostGoto(a, "verify") \/ UNCHANGED hosts
    BY <1>2 DEF Verify
  <2> QED
    BY <1>2, <2>1, HostMoves DEF HostStep, TypeOK, HostRecord
<1>3. CASE UNCHANGED hosts
  BY <1>3 DEF TypeOK, HostRecord
<1> QED
  BY <1>1, <1>2, <1>3 DEF Backend, ReadRevision, Refuse, Plan, Applied, Commit, GiveUp, Abandon

\* A run of the script, to its end or not, leaves the script what it was.
ScriptKept ==
    /\ script'.by = script.by /\ script'.desired = script.desired
    /\ script'.persistent = script.persistent /\ script'.live = script.live
    /\ script.botched => script'.botched

LEMMA ScriptTyped ==
    ASSUME TypeOK, RunScript \/ ScriptFails
    PROVE  /\ persistent' \in Trunk /\ live' \in Trunk
           /\ txn' \in [by : Apply \cup {None}, desired : Trunk]
           /\ script' \in Script /\ ScriptKept
           /\ ScriptFails => script'.botched /\ UNCHANGED <<persistent, live, txn>>
           /\ RunScript => persistent' = script.persistent /\ txn'.by = None
<1>1. CASE RunScript
  <2>1. PICK base \in {live, script.persistent},
             removed \in SUBSET (script.desired \ script.live),
             added \in SUBSET (script.live \ script.desired) :
          /\ live' = IF veth THEN (base \ removed) \cup added ELSE live
          /\ script' = [script EXCEPT !.botched = @ \/ (veth /\ live' # LiveUndone(base))]
    BY <1>1 DEF RunScript
  <2>2. script' \in Script /\ ScriptKept
    BY <2>1 DEF TypeOK, Script, ScriptKept
  <2>3. live' \in Trunk /\ persistent' \in Trunk /\ persistent' = script.persistent
    BY <1>1, <2>1 DEF TypeOK, Script, Trunk, RunScript
  <2>4. txn' \in [by : Apply \cup {None}, desired : Trunk] /\ txn'.by = None
    BY <1>1 DEF RunScript, Recordless, Trunk
  <2>5. ScriptFails => script'.botched /\ UNCHANGED <<persistent, live, txn>>
    BY DEF ScriptFails, TypeOK, Script
  <2> QED
    BY <2>2, <2>3, <2>4, <2>5
<1>2. CASE ScriptFails /\ ~RunScript
  BY <1>2 DEF ScriptFails, TypeOK, Script, ScriptKept
<1> QED
  BY <1>1, <1>2

\* A rollback of the backend, whatever systemctl does.
LEMMA RollbackRuns ==
    ASSUME NEW a \in Apply, Rollback(a), TypeOK
    PROVE  /\ RunScript \/ ScriptFails
           /\ timer' \in {timer, None} /\ failedUnit' \in BOOLEAN
           /\ ScriptFails /\ ~RunScript => timer' = timer
           /\ txn.by = a
BY DEF Rollback, CancelRollback, OwnTransaction, TypeOK

LEMMA BackendTyped ==
    ASSUME TypeOK, NEW a \in Apply, Backend(a)
    PROVE  TypeOK'
<1>1. applies' \in [Apply -> BackendRecord]
  <2>1. \A step \in BackendStep : Goto(a, step) => applies' \in [Apply -> BackendRecord]
    BY BackendMoves
  <2>0. applies \in [Apply -> BackendRecord] /\ groups \subseteq Vlan
    BY DEF TypeOK, BackendRecord
  <2>2. CASE ReadRevision(a)
    <3> DEFINE new == [applies[a] EXCEPT !.pc = "plan", !.expected = groups]
    <3>1. new \in BackendRecord
      BY <2>0 DEF BackendRecord, BackendStep
    <3>2. applies' = [applies EXCEPT ![a] = new]
      BY <2>0, <2>2 DEF ReadRevision
    <3> HIDE DEF new
    <3> QED
      BY <2>0, <3>1, <3>2
  <2>3. CASE Plan(a)
    <3>1. AccessVlans(groups) \in Trunk
      BY DEF AccessVlans, TypeOK, Trunk
    <3> DEFINE desired == AccessVlans(groups)
               new == [applies[a] EXCEPT !.pc = "call", !.desired = desired]
    <3>2. Goto(a, "ok") \/ applies' = [applies EXCEPT ![a] = new]
      BY <2>3 DEF Plan
    <3> HIDE DEF desired
    <3>3. new \in BackendRecord
      BY <2>0, <3>1 DEF BackendRecord, BackendStep, desired
    <3> HIDE DEF new
    <3>4. CASE Goto(a, "ok")
      BY <2>1, <3>4 DEF BackendStep
    <3>5. CASE applies' = [applies EXCEPT ![a] = new]
      BY <2>0, <3>3, <3>5
    <3> QED
      BY <3>2, <3>4, <3>5
  <2> QED
    BY <2>1, <2>2, <2>3 DEF Backend, Refuse, Call, Applied, Verify, Commit, GiveUp, Abandon, BackendStep
<1>2. hosts' \in [Apply -> HostRecord]
  BY BackendPaths
<1>3. CASE Abandon(a)
  <2>1. UNCHANGED <<groups, veth, stacked>>
    BY <1>3 DEF Abandon, Aside
  <2>2. CASE Rollback(a)
    BY <1>1, <1>2, <2>1, <2>2, RollbackRuns, ScriptTyped
       DEF TypeOK, BackendRecord, HostRecord, ScriptKept
  <2>3. CASE UNCHANGED <<persistent, live, script, timer, failedUnit, txn>>
    BY <1>1, <1>2, <2>1, <2>3 DEF TypeOK, BackendRecord, HostRecord
  <2> QED
    BY <1>3, <2>2, <2>3 DEF Abandon
<1>4. CASE ~Abandon(a)
  <2>1. OnHost /\ Aside
    BY <1>4 DEF Backend, ReadRevision, Refuse, Plan, Call, Applied, Verify, Commit, GiveUp
  <2> QED
    BY <1>1, <1>2, <2>1 DEF TypeOK, OnHost, hostVars, Aside, BackendRecord, HostRecord
<1> QED
  BY <1>3, <1>4

LEMMA HostTyped ==
    ASSUME TypeOK, NEW a \in Apply, HostProcess(a)
    PROVE  TypeOK'
<1>0. /\ applies[a].desired \in Trunk /\ hosts[a].before \in [persistent : Trunk, live : Trunk]
      /\ a # None
  BY TrunkAssumption DEF TypeOK, TrunkAssumption
<1>1. UNCHANGED <<groups, applies, veth>>
  BY DEF HostProcess, Check, Arm, Persist, Program, RecordTransaction, CommitVerify, CommitCancel,
         HostOnly, Aside, OnHost, hostVars
<1>2. hosts' \in [Apply -> HostRecord]
  BY HostPaths
<1>3. persistent' \in Trunk /\ live' \in Trunk
  BY <1>0 DEF TypeOK, HostProcess, Check, Arm, Persist, Program, RecordTransaction, CommitVerify,
              CommitCancel, OnHost, hostVars, Missing, Surplus, Trunk
<1>4. /\ script' \in Script
      /\ timer' \in Apply \cup {None} /\ failedUnit' \in BOOLEAN
      /\ timer' # None => script'.by # None
  <2>1. CASE Arm(a)
    <3>1. script' = Snapshot(a) /\ timer' \in {timer, a} /\ UNCHANGED failedUnit
      BY <2>1 DEF Arm
    <3>2. Snapshot(a) \in Script /\ Snapshot(a).by = a
      BY <1>0 DEF Snapshot, Script
    <3> QED
      BY <1>0, <3>1, <3>2 DEF TypeOK
  <2>2. CASE ~Arm(a)
    <3>1. UNCHANGED script /\ timer' \in {timer, None} /\ failedUnit' \in BOOLEAN
      BY <2>2 DEF TypeOK, HostProcess, Check, Persist, Program, RecordTransaction, CommitVerify,
         CommitCancel, CancelRollback, OnHost, hostVars
    <3> QED
      BY <3>1 DEF TypeOK
  <2> QED
    BY <2>1, <2>2
<1>5. txn' \in [by : Apply \cup {None}, desired : Trunk] /\ stacked' \in BOOLEAN
  BY <1>0 DEF TypeOK, HostProcess, Check, Arm, Persist, Program, RecordTransaction, CommitVerify,
              CommitCancel, Recordless, OnHost, hostVars, Trunk
<1> QED
  BY <1>1, <1>2, <1>3, <1>4, <1>5 DEF TypeOK, HostRecord

LEMMA OtherTyped ==
    ASSUME TypeOK, Fire \/ Move \/ Stop \/ Restart \/ UNCHANGED vars
    PROVE  TypeOK'
<1>1. CASE Fire
  <2>1. RunScript \/ ScriptFails
    BY <1>1 DEF Fire
  <2>2. timer' = None /\ failedUnit' \in BOOLEAN
    BY <1>1 DEF Fire, TypeOK
  <2>3. UNCHANGED <<groups, applies, veth, hosts, stacked>>
    BY <1>1 DEF Fire, HostOnly, Aside
  <2> QED
    BY <2>1, <2>2, <2>3, ScriptTyped DEF TypeOK, ScriptKept
<1>2. CASE Move \/ Stop \/ Restart \/ UNCHANGED vars
  BY <1>2 DEF TypeOK, Move, Stop, Restart, vars, Trunk
<1> QED
  BY <1>1, <1>2

-----------------------------------------------------------------------------
\* The migration VLAN.

LEMMA PlanNext ==
    ASSUME TypeOK, PlanInv, [Next]_vars
    PROVE  PlanInv'
<1>1. ASSUME NEW a \in Apply, Backend(a) PROVE PlanInv'
  <2>1. \A b \in Apply \ {a} : applies'[b] = applies[b] /\ hosts'[b] = hosts[b]
    BY <1>1 DEF TypeOK, Backend, ReadRevision, Refuse, Plan, Call, Applied, Verify, Commit, GiveUp,
                Abandon, Goto, HostGoto
  <2>2. /\ (applies'[a].pc = "call" \/ hosts'[a].pc # "off") => Migration \in applies'[a].desired
        /\ applies'[a].pc \in {"idle", "plan", "call"} => hosts'[a].pc = "off"
        /\ applies'[a].pc \in {"verify", "abandon"} => hosts'[a].pc \in {"applied", "unproven"}
    <3>1. CASE ReadRevision(a) \/ Refuse(a)
      BY <1>1, <3>1 DEF TypeOK, PlanInv, ReadRevision, Refuse, Goto, At, HostAt
    <3>2. CASE Plan(a)
      BY <1>1, <3>2 DEF TypeOK, PlanInv, Plan, Goto, At, HostAt, Plannable
    <3>3. CASE Call(a)
      BY <1>1, <3>3 DEF TypeOK, PlanInv, Call, Goto, At, HostAt
    <3>4. CASE Applied(a)
      BY <1>1, <3>4 DEF TypeOK, PlanInv, Applied, Goto, At, HostAt
    <3>5. CASE Verify(a)
      BY <1>1, <3>5 DEF TypeOK, PlanInv, Verify, Goto, HostGoto, At, HostAt
    <3>6. CASE Commit(a) \/ GiveUp(a) \/ Abandon(a)
      BY <1>1, <3>6 DEF TypeOK, PlanInv, Commit, GiveUp, Abandon, Goto, At, HostAt, Begun
    <3> QED
      BY <1>1, <3>1, <3>2, <3>3, <3>4, <3>5, <3>6 DEF Backend
  <2> QED
    BY <2>1, <2>2 DEF PlanInv, At, HostAt
<1>2. ASSUME NEW a \in Apply, HostProcess(a) PROVE PlanInv'
  <2>1. \A b \in Apply \ {a} : hosts'[b] = hosts[b]
    BY <1>2 DEF TypeOK, HostProcess, Check, Arm, Persist, Program, RecordTransaction, CommitVerify,
                CommitCancel, HostGoto, Raise
  <2>2. UNCHANGED applies
    BY <1>2 DEF HostProcess, Check, Arm, Persist, Program, RecordTransaction, CommitVerify,
                CommitCancel, HostOnly
  <2>3. hosts[a].pc # "off" /\ hosts'[a].pc # "off"
    BY <1>2 DEF TypeOK, HostProcess, Check, Arm, Persist, Program, RecordTransaction, CommitVerify,
                CommitCancel, HostGoto, Raise, HostAt
  <2>4. hosts[a].pc \notin {"applied", "unproven"}
    BY <1>2 DEF HostProcess, Check, Arm, Persist, Program, RecordTransaction, CommitVerify,
                CommitCancel, HostAt
  <2> QED
    BY <2>1, <2>2, <2>3, <2>4 DEF PlanInv, At, HostAt
<1>3. CASE Fire \/ Move \/ Stop \/ Restart \/ UNCHANGED vars
  BY <1>3 DEF Fire, HostOnly, Move, Stop, Restart, vars, PlanInv, At, HostAt
<1> QED
  BY <1>1, <1>2, <1>3 DEF Next

\* Running the script leaves the migration VLAN where it was, however far it gets.
LEMMA ScriptKeepsTransport ==
    ASSUME TransportInv, RunScript \/ ScriptFails, script.by # None, UNCHANGED veth
    PROVE  MigrationStays'
<1>1. CASE RunScript
  <2>1. PICK base \in {live, script.persistent},
             removed \in SUBSET (script.desired \ script.live),
             added \in SUBSET (script.live \ script.desired) :
          live' = IF veth THEN (base \ removed) \cup added ELSE live
    BY <1>1 DEF RunScript
  <2>2. Migration \in script.persistent /\ Migration \in script.live /\ (veth => Migration \in live)
    BY DEF TransportInv, SnapshotInv, MigrationStays
  <2>3. veth => Migration \in live'
    BY <2>1, <2>2
  <2> QED
    BY <1>1, <2>2, <2>3 DEF MigrationStays, RunScript
<1>2. CASE ScriptFails
  BY <1>2 DEF TransportInv, MigrationStays, ScriptFails
<1> QED
  BY <1>1, <1>2

LEMMA TransportHost ==
    ASSUME TransportInv, NEW a \in Apply, HostProcess(a)
    PROVE  SnapshotInv' /\ MigrationStays'
<1>0. Migration \in applies[a].desired /\ a # None /\ hosts[a].pc # "off"
  BY TrunkAssumption DEF TransportInv, PlanInv, TrunkAssumption, HostProcess, Check, Arm, Persist,
     Program, RecordTransaction, CommitVerify, CommitCancel, HostAt
<1>1. TypeOK /\ SnapshotInv /\ MigrationStays
  BY DEF TransportInv
<1>2. Begun(a)' => /\ Migration \in hosts'[a].before.persistent
                   /\ Migration \in hosts'[a].before.live
  <2>1. CASE Check(a)
    BY <1>1, <2>1, HostPaths DEF MigrationStays, Begun
  <2>2. CASE ~Check(a)
    BY <1>1, <2>2, HostPaths DEF SnapshotInv, Begun, HostProcess, Arm, Persist, Program,
       RecordTransaction, CommitVerify, CommitCancel, HostAt
  <2> QED
    BY <2>1, <2>2
<1>3. CASE Arm(a)
  <2>1. script' = Snapshot(a) /\ Begun(a) /\ UNCHANGED <<persistent, live, veth>>
    BY <1>3 DEF Arm, HostAt, Begun
  <2>2. /\ script'.by = a
        /\ Migration \in script'.persistent /\ Migration \in script'.live
    BY <1>1, <2>1 DEF Snapshot, SnapshotInv
  <2> QED
    BY <1>0, <1>1, <1>2, <2>1, <2>2, HostPaths DEF SnapshotInv, MigrationStays, Begun
<1>4. CASE ~Arm(a)
  <2>1. UNCHANGED <<script, veth>>
    BY <1>4 DEF HostProcess, Check, Persist, Program, RecordTransaction, CommitVerify, CommitCancel,
                OnHost, hostVars
  <2>2. MigrationStays'
    BY <1>0, <1>1, <1>4 DEF MigrationStays, HostProcess, Check, Persist, Program, RecordTransaction,
       CommitVerify, CommitCancel, OnHost, hostVars, Surplus
  <2>3. hosts'[a].pc \in {"persist", "live", "record"} => script.by # None
    BY <1>1, <1>4, HostPaths DEF SnapshotInv, HostProcess, Persist, Program, HostAt
  <2>4. txn'.by # None => script.by # None
    BY <1>1, <1>4 DEF SnapshotInv, HostProcess, Check, Persist, Program, RecordTransaction,
       CommitVerify, CommitCancel, Recordless, OnHost, hostVars, HostAt
  <2> QED
    BY <1>1, <1>2, <2>1, <2>2, <2>3, <2>4, HostPaths DEF SnapshotInv, Begun
<1> QED
  BY <1>3, <1>4

LEMMA TransportBackend ==
    ASSUME TransportInv, NEW a \in Apply, Backend(a)
    PROVE  SnapshotInv' /\ MigrationStays'
<1>0. TypeOK /\ PlanInv
  BY DEF TransportInv
<1>1. \A b \in Apply : Begun(b)' => Begun(b) /\ hosts'[b].before = hosts[b].before
  BY <1>0, BackendPaths DEF Begun, PlanInv, Verify, At
<1>2. \A b \in Apply : hosts'[b].pc \in {"persist", "live", "record"} => hosts'[b].pc = hosts[b].pc
  BY <1>0, BackendPaths
<1>3. CASE Abandon(a)
  <2>1. txn.by # None => script.by # None
    BY DEF TransportInv, SnapshotInv
  <2>2. CASE Rollback(a)
    <3>1. script.by # None /\ (RunScript \/ ScriptFails)
      BY <1>0, <2>1, <2>2, RollbackRuns, TrunkAssumption DEF TrunkAssumption
    <3>2. MigrationStays'
      BY <1>3, <3>1, ScriptKeepsTransport DEF Abandon
    <3>3. ScriptKept
      BY <1>0, <3>1, ScriptTyped
    <3> QED
      BY <1>1, <1>2, <3>1, <3>2, <3>3 DEF TransportInv, SnapshotInv, ScriptKept
  <2>3. CASE UNCHANGED <<persistent, live, script, timer, failedUnit, txn>>
    BY <1>1, <1>2, <1>3, <2>3 DEF TransportInv, SnapshotInv, MigrationStays, Abandon, Begun
  <2> QED
    BY <1>3, <2>2, <2>3 DEF Abandon
<1>4. CASE ~Abandon(a)
  <2>1. OnHost
    BY <1>4 DEF Backend, ReadRevision, Refuse, Plan, Call, Applied, Verify, Commit, GiveUp
  <2> QED
    BY <1>1, <1>2, <2>1 DEF TransportInv, SnapshotInv, MigrationStays, OnHost, hostVars, Begun
<1> QED
  BY <1>3, <1>4

LEMMA TransportNext == TransportInv /\ [Next]_vars => TransportInv'
<1> SUFFICES ASSUME TransportInv, [Next]_vars PROVE TransportInv'
  OBVIOUS
<1>0. TypeOK /\ PlanInv
  BY DEF TransportInv
<1>1. TypeOK'
  BY <1>0, BackendTyped, HostTyped, OtherTyped DEF Next
<1>2. PlanInv'
  BY <1>0, PlanNext
<1>3. SnapshotInv' /\ MigrationStays'
  <2>1. CASE Fire
    <3>1. script.by # None /\ (RunScript \/ ScriptFails) /\ UNCHANGED <<veth, hosts>>
      BY <1>0, <2>1 DEF Fire, TypeOK
    <3>2. MigrationStays'
      BY <3>1, ScriptKeepsTransport
    <3>3. ScriptKept
      BY <1>0, <3>1, ScriptTyped
    <3> QED
      BY <3>1, <3>2, <3>3 DEF TransportInv, SnapshotInv, ScriptKept, Begun
  <2>2. CASE Move \/ Stop \/ Restart \/ UNCHANGED vars
    BY <2>2 DEF Move, Stop, Restart, vars, TransportInv, SnapshotInv, MigrationStays, Begun
  <2> QED
    BY <2>1, <2>2, TransportHost, TransportBackend DEF Next
<1> QED
  BY <1>1, <1>2, <1>3 DEF TransportInv

LEMMA TransportHolds == Spec => []TransportInv
BY TrunkInit, TransportNext, PTL DEF Spec

\* The state keeps its types.
THEOREM TrunkTypesHold == Spec => []TypeOK
BY TransportHolds, PTL DEF TransportInv

\* No plan, half apply, rollback, timer or restart takes the migration VLAN off
\* either half, whatever applies overlap on the host.
THEOREM MigrationHolds == Spec => []MigrationStays
BY TransportHolds, PTL DEF TransportInv

-----------------------------------------------------------------------------
\* Both halves agree.

Armed == {"persist", "live", "record"}

\* The last restore did all it was to, of a trunk whose halves agreed.
Sound == ~script.botched /\ script.persistent = script.live

\* Until its timer is gone, an apply can be undone: whatever it or a restore got
\* done lies between what was there and what it is after.
InForce ==
    /\ script.by = timer
    /\ persistent \in {script.persistent, script.desired}
    /\ (script.persistent = script.live /\ veth) =>
        /\ script.live \cap script.desired \subseteq live
        /\ live \subseteq script.live \cup script.desired

TimerInv ==
    /\ timer = None /\ Sound => (veth => persistent = live)
    /\ timer # None => InForce

\* Nobody waits for the answer of c, and its command is past what reads a record.
Over(c) == ~Pending(c) /\ hosts[c].pc \notin {"verify", "cancel"}

\* A record is of an apply whose timer is armed, whose script has failed, or that
\* has ended; none is of an apply that has not recorded it yet.
RecordInv ==
    txn.by # None =>
        timer = txn.by \/ (script.by = txn.by /\ script.botched) \/ Over(txn.by)
UnrecordedInv ==
    \A a \in Apply : hosts[a].pc \in {"off", "check"} \cup Working => txn.by # a

\* The forced command at work is alone, with its own timer, beside no record but
\* that of an apply that has ended.
WorkInv ==
    /\ \A a \in Apply :
        /\ hosts[a].pc \in Armed => timer = a /\ script = Snapshot(a)
        /\ hosts[a].pc \in Working => txn.by = None \/ Over(txn.by)
        /\ hosts[a].pc = "arm" =>
            /\ timer = None
            /\ hosts[a].before.persistent = persistent
            /\ veth => live \in {hosts[a].before.live, persistent}
        /\ hosts[a].pc = "cancel" /\ Sound => (veth => persistent = live)
    /\ \A a, b \in Apply :
        hosts[a].pc \in Working /\ hosts[b].pc \in Working \cup {"cancel"} => a = b

HalvesInv == stacked \/ (TimerInv /\ RecordInv /\ WorkInv)

HInv == TypeOK /\ PlanInv /\ UnrecordedInv /\ HalvesInv

\* A restore that did all it was to makes both halves agree on what was there; one
\* that did not leaves the trunk between what was there and what was asked for.
LEMMA ScriptRestores ==
    ASSUME TypeOK, InForce, RunScript \/ ScriptFails, UNCHANGED veth
    PROVE  /\ Sound' => (veth' => persistent' = live')
           /\ timer' = timer => InForce'
<1>0. ScriptKept
  BY ScriptTyped
<1>1. CASE RunScript
  <2> DEFINE asked == script.desired \ script.live
             gone == script.live \ script.desired
  <2>1. PICK base \in {live, script.persistent}, removed \in SUBSET asked, added \in SUBSET gone :
          /\ live' = IF veth THEN (base \ removed) \cup added ELSE live
          /\ script' = [script EXCEPT !.botched = @ \/ (veth /\ live' # LiveUndone(base))]
    BY <1>1 DEF RunScript
  <2>2. persistent' = script.persistent
    BY <1>1 DEF RunScript
  <2>3. (script.persistent = script.live /\ veth) =>
            script.live \cap script.desired \subseteq base /\ base \subseteq script.live \cup script.desired
    BY <2>1 DEF InForce
  <2>4. ASSUME Sound', veth' PROVE persistent' = live'
    <3>1. veth /\ script.persistent = script.live /\ ~script'.botched
      BY <1>0, <2>4 DEF Sound, ScriptKept
    <3>2. live' = LiveUndone(base)
      BY <2>1, <3>1 DEF TypeOK, Script
    <3>3. LiveUndone(base) = script.live
      BY <2>3, <3>1 DEF LiveUndone
    <3> QED
      BY <2>2, <3>1, <3>2, <3>3
  <2>5. ASSUME timer' = timer PROVE InForce'
    <3>1. ASSUME script.persistent = script.live, veth
          PROVE  script.live \cap script.desired \subseteq live' /\ live' \subseteq script.live \cup script.desired
      <4>1. live' = (base \ removed) \cup added
        BY <2>1, <3>1
      <4> QED
        BY <2>3, <3>1, <4>1
    <3> QED
      BY <1>0, <2>2, <2>5, <3>1 DEF InForce, ScriptKept
  <2> QED
    BY <2>4, <2>5
<1>2. CASE ScriptFails
  <2>1. script'.botched /\ UNCHANGED <<persistent, live>>
    BY <1>2, ScriptTyped
  <2> QED
    BY <1>0, <2>1 DEF Sound, InForce, ScriptKept
<1> QED
  BY <1>1, <1>2

\* The lock is taken by one apply, whose forced command has not begun.
LEMMA TakesTurn ==
    ASSUME TypeOK, PlanInv, NEW a \in Apply, Backend(a)
    PROVE  /\ \A b \in Apply \ {a} : applies'[b] = applies[b]
           /\ applies'[a].pc \in Holding => applies[a].pc \in Holding \/ LockFree
           /\ \A b \in Apply : Pending(b)' => Pending(b)
           /\ HostAt(a, "committed") => hosts'[a].pc = hosts[a].pc
<1>1. /\ \A b \in Apply \ {a} : applies'[b] = applies[b]
      /\ applies'[a].pc \in Holding => applies[a].pc \in Holding \/ (Plan(a) /\ LockFree)
  <2>1. CASE ReadRevision(a)
    BY <2>1 DEF ReadRevision, TypeOK, Holding
  <2>2. CASE Plan(a)
    BY <2>2 DEF Plan, Goto, TypeOK, Holding
  <2>3. CASE Refuse(a) \/ GiveUp(a) \/ Abandon(a)
    BY <2>3, BackendMoves DEF Refuse, GiveUp, Abandon, BackendStep, Holding
  <2>4. CASE Call(a) \/ Applied(a) \/ Verify(a) \/ Commit(a)
    BY <2>4, BackendMoves DEF Call, Applied, Verify, Commit, BackendStep, Holding, At
  <2> QED
    BY <2>1, <2>2, <2>3, <2>4 DEF Backend
<1>2. ASSUME NEW b \in Apply, Begun(b)' PROVE Begun(b)
  BY <1>2, BackendPaths DEF Begun, PlanInv, Verify, At
<1>3. Plan(a) => ~Begun(a)
  BY DEF Plan, PlanInv, At, HostAt, Begun
<1>4. HostAt(a, "committed") => hosts'[a].pc = hosts[a].pc
  BY BackendPaths DEF PlanInv, Call, Verify, At, HostAt
<1> QED
  BY <1>1, <1>2, <1>3, <1>4 DEF Pending

\* An apply that has left a record and has ended does not come back.
LEMMA OverStays ==
    ASSUME TypeOK, PlanInv, UnrecordedInv, NEW c \in Apply, txn.by = c, Over(c), [Next]_vars
    PROVE  Over(c)'
<1>1. ASSUME NEW a \in Apply, Backend(a) PROVE Over(c)'
  <2>1. ~Pending(c)'
    BY <1>1, TakesTurn DEF Over
  <2>2. hosts'[c].pc = hosts[c].pc \/ (c = a /\ (hosts'[c].pc = "check" \/ Verify(c)))
    BY <1>1, BackendPaths DEF TypeOK
  <2>3. ~Verify(c)
    BY DEF Verify, At, PlanInv, Over, Pending, Begun, Holding
  <2> QED
    BY <2>1, <2>2, <2>3 DEF Over
<1>2. ASSUME NEW a \in Apply, HostProcess(a) PROVE Over(c)'
  <2>0. UNCHANGED applies
    BY <1>2 DEF HostProcess, Check, Arm, Persist, Program, RecordTransaction, CommitVerify,
       CommitCancel, HostOnly
  <2>1. CASE c = a
    BY <1>2, <2>1 DEF UnrecordedInv, Over, HostProcess, Check, Arm, Persist, Program, RecordTransaction,
       CommitVerify, CommitCancel, HostAt, Working
  <2>2. CASE c # a
    BY <1>2, <2>0, <2>2, HostPaths DEF Over, Pending, Begun
  <2> QED
    BY <2>1, <2>2
<1>3. CASE Fire \/ Move \/ Stop \/ Restart \/ UNCHANGED vars
  BY <1>3 DEF Fire, HostOnly, Move, Stop, Restart, vars, Over, Pending, Begun
<1> QED
  BY <1>1, <1>2, <1>3 DEF Next

LEMMA UnrecordedNext ==
    ASSUME TypeOK, PlanInv, UnrecordedInv, [Next]_vars
    PROVE  UnrecordedInv'
<1>1. ASSUME NEW a \in Apply, Backend(a) PROVE UnrecordedInv'
  <2>1. \A b \in Apply : hosts'[b].pc \in {"off", "check"} \cup Working =>
            hosts[b].pc \in {"off", "check"} \cup Working
    BY <1>1, BackendPaths DEF Call, At, PlanInv, HostAt, Working
  <2>2. txn'.by \in {txn.by, None}
    <3>1. CASE Abandon(a) /\ Rollback(a)
      BY <3>1, RollbackRuns, ScriptTyped
    <3>2. CASE ~(Abandon(a) /\ Rollback(a))
      BY <1>1, <3>2 DEF Backend, ReadRevision, Refuse, Plan, Call, Applied, Verify, Commit, GiveUp,
         Abandon, OnHost, hostVars
    <3> QED
      BY <3>1, <3>2
  <2> QED
    BY <2>1, <2>2, TrunkAssumption DEF UnrecordedInv, TrunkAssumption
<1>2. ASSUME NEW a \in Apply, HostProcess(a) PROVE UnrecordedInv'
  <2>1. CASE RecordTransaction(a)
    BY <1>2, <2>1, HostPaths DEF UnrecordedInv, RecordTransaction, Working
  <2>2. CASE ~RecordTransaction(a)
    <3>1. txn'.by \in {txn.by, None}
      BY <1>2, <2>2 DEF HostProcess, Check, Arm, Persist, Program, CommitVerify, CommitCancel,
         Recordless, OnHost, hostVars
    <3>2. \A b \in Apply : hosts'[b].pc \in {"off", "check"} \cup Working =>
              hosts[b].pc \in {"off", "check"} \cup Working
      BY <1>2, HostPaths DEF HostProcess, Check, Arm, Persist, Program, RecordTransaction, CommitVerify,
         CommitCancel, HostAt, Working
    <3> QED
      BY <3>1, <3>2, TrunkAssumption DEF UnrecordedInv, TrunkAssumption
  <2> QED
    BY <2>1, <2>2
<1>3. CASE Fire
  <2>1. txn'.by \in {txn.by, None} /\ UNCHANGED hosts
    BY <1>3, ScriptTyped DEF Fire
  <2> QED
    BY <2>1, TrunkAssumption DEF UnrecordedInv, TrunkAssumption
<1>4. CASE Move \/ Stop \/ Restart \/ UNCHANGED vars
  BY <1>4 DEF Move, Stop, Restart, vars, UnrecordedInv
<1> QED
  BY <1>1, <1>2, <1>3, <1>4 DEF Next

LEMMA HalvesHost ==
    ASSUME HInv, NEW a \in Apply, HostProcess(a), ~stacked', RecordInv'
    PROVE  TimerInv' /\ WorkInv'
<1>0. /\ TypeOK /\ PlanInv /\ UnrecordedInv /\ TimerInv /\ RecordInv /\ WorkInv
      /\ a # None /\ UNCHANGED applies
  BY TrunkAssumption DEF HInv, HalvesInv, TrunkAssumption, HostProcess, Check, Arm, Persist, Program,
     RecordTransaction, CommitVerify, CommitCancel, HostOnly, OnHost, hostVars
<1>a. [Next]_vars
  BY DEF Next
<1>b. \A c \in Apply : txn.by = c /\ Over(c) => Over(c)'
  BY <1>0, <1>a, OverStays
<1>c. ASSUME UNCHANGED txn, txn.by = None \/ Over(txn.by) PROVE txn'.by = None \/ Over(txn.by)'
  BY <1>0, <1>b, <1>c DEF TypeOK
<1>d. \A b \in Apply \ {a} : hosts'[b] = hosts[b]
  BY <1>0, HostPaths
<1>1. CASE Check(a)
  <2>0. UNCHANGED <<persistent, live, veth, script, timer, txn>> /\ hosts[a].pc = "check"
    BY <1>1 DEF Check, HostAt
  <2>1. TimerInv'
    BY <1>0, <2>0 DEF TimerInv, InForce, Sound
  <2>2. CASE hosts'[a].pc = "raised"
    BY <1>0, <1>c, <1>d, <2>0, <2>1, <2>2 DEF Sound, WorkInv, Snapshot, Armed, Working
  <2>3. CASE hosts'[a].pc # "raised"
    <3>1. ~Before(a)
      BY <1>1, <2>3, HostMoves, <1>0 DEF Check, Raise, HostStep
    <3>2. hosts'[a].pc = "arm" /\ veth /\ hosts'[a].before = [persistent |-> persistent, live |-> live]
      BY <1>0, <1>1, <2>3, HostPaths
    <3>3. \A b \in Apply : hosts[b].pc \notin Working \cup {"verify", "cancel"}
      BY <3>1 DEF Before, UnderWay
    <3>4. txn.by = None \/ Over(txn.by)
      <4>1. txn.by # a
        BY <1>0, <2>0 DEF UnrecordedInv
      <4> QED
        BY <3>1, <3>3, <4>1 DEF TypeOK, Before, Over, HInv
    <3>5. timer = None
      BY <3>1 DEF Before
    <3> QED
      BY <1>0, <1>c, <1>d, <2>0, <2>1, <3>2, <3>3, <3>4, <3>5 DEF WorkInv, Armed, Working
  <2> QED
    BY <2>2, <2>3
<1>2. CASE Arm(a)
  <2>1. hosts[a].pc = "arm" /\ timer = None /\ timer' \in {a, None} /\ script' = Snapshot(a)
    BY <1>0, <1>2 DEF Arm, HostAt, WorkInv
  <2>2. /\ UNCHANGED <<persistent, live, veth, txn>> /\ hosts'[a].before = hosts[a].before
        /\ hosts'[a].pc = (IF timer' = a THEN "persist" ELSE "raised")
    BY <1>0, <1>2, <2>1, HostMoves DEF Arm, HostStep, Raise
  <2>3. \A b \in Apply \ {a} : hosts[b].pc \notin Working \cup {"cancel"}
    BY <1>0, <2>1 DEF WorkInv, Working
  <2>4. /\ hosts[a].before.persistent = persistent
        /\ veth => live \in {hosts[a].before.live, persistent}
        /\ txn.by = None \/ Over(txn.by)
    BY <1>0, <2>1 DEF WorkInv, Working
  <2>5. script'.by = a /\ script'.persistent = persistent /\ script'.live = hosts[a].before.live
    BY <2>1, <2>4 DEF Snapshot
  <2>6. TimerInv'
    BY <1>0, <2>1, <2>2, <2>4, <2>5 DEF TimerInv, InForce, Sound
  <2>7. script' = Snapshot(a)'
    BY <1>0, <2>1, <2>2 DEF Snapshot
  <2> QED
    BY <1>0, <1>c, <1>d, <2>1, <2>2, <2>3, <2>4, <2>6, <2>7 DEF WorkInv, Armed, Working
<1>3. ASSUME hosts[a].pc \in Armed,
             UNCHANGED <<script, timer, veth>>, hosts'[a].before = hosts[a].before,
             hosts'[a].pc \in Armed \cup {"raised", "applied", "unproven"},
             persistent' \in {script.persistent, script.desired},
             (script.persistent = script.live /\ veth) =>
                    /\ script.live \cap script.desired \subseteq live'
                    /\ live' \subseteq script.live \cup script.desired,
             txn' = txn \/ (txn'.by = a /\ hosts'[a].pc \notin Armed)
      PROVE  TimerInv' /\ WorkInv'
  <2>1. timer = a /\ script = Snapshot(a) /\ (txn.by = None \/ Over(txn.by))
    BY <1>0, <1>3 DEF WorkInv, Armed, Working
  <2>2. \A b \in Apply \ {a} : hosts'[b] = hosts[b] /\ hosts[b].pc \notin Working \cup {"cancel"}
    BY <1>0, <1>3, HostPaths DEF WorkInv, Armed, Working
  <2>3. TimerInv'
    BY <1>0, <1>3, <2>1 DEF TimerInv, InForce
  <2>4. Snapshot(a)' = Snapshot(a)
    BY <1>0, <1>3 DEF Snapshot
  <2>5. Armed \subseteq Working /\ "arm" \notin Armed
    BY DEF Armed, Working
  <2>6. hosts'[a].pc \in Armed => txn'.by = None \/ Over(txn.by)'
    BY <1>3, <1>c, <2>1
  <2> QED
    BY <1>3, <2>1, <2>2, <2>3, <2>4, <2>5, <2>6 DEF WorkInv, Armed, Working
<1>4. ASSUME hosts[a].pc \in Armed
      PROVE  /\ script.persistent = hosts[a].before.persistent /\ script.live = hosts[a].before.live
             /\ script.desired = applies[a].desired /\ timer # None /\ InForce
  BY <1>0, <1>4 DEF WorkInv, TimerInv, Snapshot
<1>5. CASE Persist(a)
  <2>1. hosts[a].pc \in Armed /\ UNCHANGED <<script, timer, veth, txn>>
    BY <1>5 DEF Persist, HostAt, Armed
  <2>2. persistent' \in {persistent, script.desired} /\ live' \in {live, script.desired}
    BY <1>4, <1>5, <2>1 DEF Persist
  <2>3. hosts'[a].pc \in {"live", "raised"} /\ hosts'[a].before = hosts[a].before
    BY <1>0, <1>5, HostMoves DEF Persist, Raise, HostStep
  <2> QED
    BY <1>3, <1>4, <2>1, <2>2, <2>3 DEF InForce, Armed
<1>6. CASE Program(a)
  <2>1. hosts[a].pc \in Armed /\ UNCHANGED <<persistent, script, timer, veth, txn>>
    BY <1>6 DEF Program, HostAt, Armed
  <2> DEFINE asked == script.desired \ script.live
             gone == script.live \ script.desired
  <2>a. Missing(a) = asked /\ Surplus(a) = gone
    BY <1>4, <2>1 DEF Missing, Surplus
  <2>2. \/ live' = (live \cup asked) \ gone
        \/ \E some \in SUBSET asked : live' = live \cup some
        \/ \E some \in SUBSET gone : live' = (live \cup asked) \ some
        \/ live' = live
    BY <1>6, <2>a DEF Program
  <2>3. hosts'[a].pc \in {"record", "raised"} /\ hosts'[a].before = hosts[a].before
    BY <1>0, <1>6, HostMoves DEF Program, Raise, HostStep
  <2>4. (script.persistent = script.live /\ veth) =>
                /\ script.live \cap script.desired \subseteq live'
                /\ live' \subseteq script.live \cup script.desired
    BY <1>4, <2>1, <2>2 DEF InForce
  <2> QED
    BY <1>3, <1>4, <2>1, <2>3, <2>4 DEF InForce, Armed
<1>7. CASE RecordTransaction(a)
  <2>1. hosts[a].pc \in Armed /\ UNCHANGED <<persistent, live, script, timer, veth>> /\ txn'.by = a
    BY <1>7 DEF RecordTransaction, HostAt, Armed
  <2>2. hosts'[a].pc \in {"applied", "unproven"} /\ hosts'[a].before = hosts[a].before
    BY <1>0, <1>7, HostMoves DEF RecordTransaction, HostStep
  <2> QED
    BY <1>3, <1>4, <2>1, <2>2 DEF InForce, Armed
<1>8. CASE CommitVerify(a)
  <2>1. UNCHANGED <<persistent, live, script, timer, veth, txn>>
    BY <1>8 DEF CommitVerify, OnHost, hostVars
  <2>2. TimerInv'
    BY <1>0, <2>1 DEF TimerInv, InForce, Sound
  <2>4. CASE hosts'[a].pc = "raised"
    BY <1>0, <1>c, <1>d, <2>1, <2>2, <2>4 DEF WorkInv, Snapshot, Armed, Working, Sound
  <2>5. CASE hosts'[a].pc # "raised"
    <3>1. OwnTransaction(a) /\ Converged(txn.desired) /\ hosts'[a].pc = "cancel" /\ hosts[a].pc = "verify"
      BY <1>0, <1>8, <2>5, HostMoves DEF CommitVerify, Raise, HostStep, HostAt
    <3>2. \A b \in Apply : hosts[b].pc \notin Working
      BY <1>0, <3>1 DEF OwnTransaction, WorkInv, Over
    <3>3. persistent = live
      BY <3>1 DEF Converged
    <3> QED
      BY <1>0, <1>d, <2>1, <2>2, <3>1, <3>2, <3>3 DEF WorkInv, Armed, Working
  <2> QED
    BY <2>4, <2>5
<1>9. CASE CommitCancel(a)
  <2>1. /\ hosts[a].pc = "cancel" /\ txn'.by = None
        /\ timer' \in {timer, None} /\ UNCHANGED <<persistent, live, veth, script>>
    BY <1>9 DEF CommitCancel, HostAt, CancelRollback, Recordless
  <2>3. hosts'[a].pc \in {"committed", "stillArmed"}
    BY <1>0, <1>9, HostPaths
  <2>4. (Sound => (veth => persistent = live)) /\ \A b \in Apply : hosts[b].pc \notin Working
    BY <1>0, <2>1 DEF WorkInv, Working
  <2>5. TimerInv'
    BY <1>0, <2>1, <2>4 DEF TimerInv, InForce, Sound
  <2> QED
    BY <1>0, <1>d, <2>1, <2>3, <2>4, <2>5 DEF WorkInv, Armed, Working, Sound
<1> QED
  BY <1>1, <1>2, <1>5, <1>6, <1>7, <1>8, <1>9 DEF HostProcess

\* The script is run, by the timer or by a rollback, while nothing is at work; a
\* timer that was spent leaves a failed script.
LEMMA HalvesScript ==
    ASSUME HInv, ~stacked, timer # None \/ script.botched,
           \A a \in Apply : hosts[a].pc \notin Working,
           RunScript \/ ScriptFails, timer' \in {timer, None}, UNCHANGED <<veth, hosts>>
    PROVE  TimerInv' /\ WorkInv'
<1>0. TypeOK /\ TimerInv /\ WorkInv
  BY DEF HInv, HalvesInv
<1>1. ScriptKept
  BY <1>0, ScriptTyped
<1>2. Sound' => (veth' => persistent' = live')
  <2>1. CASE timer # None
    BY <1>0, <2>1, ScriptRestores DEF TimerInv
  <2>2. CASE script.botched
    BY <1>1, <2>2 DEF Sound, ScriptKept
  <2> QED
    BY <2>1, <2>2
<1>3. timer' # None => InForce'
  BY <1>0, ScriptRestores DEF TimerInv
<1>4. TimerInv'
  BY <1>2, <1>3 DEF TimerInv
<1> QED
  BY <1>0, <1>2, <1>4 DEF WorkInv, Armed, Working

LEMMA HalvesBackend ==
    ASSUME HInv, NEW a \in Apply, Backend(a), ~stacked'
    PROVE  TimerInv' /\ WorkInv'
<1>0. TypeOK /\ PlanInv /\ UnrecordedInv /\ TimerInv /\ RecordInv /\ WorkInv /\ ~stacked /\ a # None
  BY TrunkAssumption DEF HInv, HalvesInv, TrunkAssumption, Backend, ReadRevision, Refuse, Plan, Call,
     Applied, Verify, Commit, GiveUp, Abandon, OnHost, hostVars
<1>1. CASE Abandon(a) /\ Rollback(a)
  <2>1. txn.by = a /\ (RunScript \/ ScriptFails) /\ timer' \in {timer, None}
    BY <1>0, <1>1, RollbackRuns
  <2>2. ~Over(a)
    BY <1>0, <1>1 DEF Abandon, At, PlanInv, Over, Pending, Begun, Holding
  <2>3. /\ timer # None \/ script.botched
        /\ \A b \in Apply : hosts[b].pc \notin Working
    BY <1>0, <2>1, <2>2 DEF RecordInv, WorkInv
  <2> QED
    BY <1>0, <1>1, <2>1, <2>3, HalvesScript DEF Abandon
<1>2. CASE ~(Abandon(a) /\ Rollback(a))
  <2>1. UNCHANGED <<persistent, live, veth, script, timer, txn>>
    BY <1>2 DEF Backend, ReadRevision, Refuse, Plan, Call, Applied, Verify, Commit, GiveUp, Abandon,
                OnHost, hostVars
  <2>2. TimerInv'
    BY <1>0, <2>1 DEF TimerInv, InForce, Sound
  <2>3. \A b \in Apply : hosts'[b].pc \in Working \cup {"cancel"} =>
            /\ hosts'[b].pc = hosts[b].pc /\ hosts'[b].before = hosts[b].before
            /\ applies'[b].desired = applies[b].desired
    <3>1. \A b \in Apply : hosts'[b].pc \in Working \cup {"cancel"} =>
            hosts'[b].pc = hosts[b].pc /\ hosts'[b].before = hosts[b].before
      BY <1>0, BackendPaths DEF Working
    <3>2. ASSUME NEW b \in Apply, hosts[b].pc # "off" PROVE applies'[b].desired = applies[b].desired
      BY <1>0, <3>2, BackendMoves
         DEF TypeOK, PlanInv, At, HostAt, Backend, ReadRevision, Refuse, Plan, Call, Applied, Verify,
             Commit, GiveUp, Abandon, Goto, BackendStep
    <3> QED
      BY <3>1, <3>2 DEF Working
  <2>4. \A b \in Apply : hosts'[b].pc \in Armed => Snapshot(b)' = Snapshot(b)
    BY <2>3 DEF Snapshot, Armed, Working
  <2>5. ASSUME txn.by = None \/ Over(txn.by) PROVE txn'.by = None \/ Over(txn.by)'
    BY <1>0, <2>1, <2>5, OverStays DEF TypeOK, Next
  <2> QED
    BY <1>0, <2>1, <2>2, <2>3, <2>4, <2>5 DEF WorkInv, Armed, Working, Sound
<1> QED
  BY <1>1, <1>2

\* Where the record comes from, and what became of its timer.
LEMMA RecordNext ==
    ASSUME HInv, [Next]_vars, ~stacked, ~stacked'
    PROVE  RecordInv'
<1>0. TypeOK /\ PlanInv /\ UnrecordedInv /\ TimerInv /\ RecordInv /\ WorkInv
  BY DEF HInv, HalvesInv
<1>1. SUFFICES ASSUME txn'.by # None
               PROVE  \/ timer' = txn'.by
                      \/ script'.by = txn'.by /\ script'.botched
                      \/ Over(txn.by)'
  BY DEF RecordInv
<1>2. ASSUME txn'.by = txn.by, Over(txn.by) PROVE Over(txn.by)'
  BY <1>0, <1>1, <1>2, OverStays DEF TypeOK
<1>3. ASSUME txn'.by = txn.by, UNCHANGED timer,
             script' = script \/ ScriptKept
      PROVE  \/ timer' = txn'.by
             \/ script'.by = txn'.by /\ script'.botched
             \/ Over(txn.by)'
  BY <1>0, <1>1, <1>2, <1>3 DEF RecordInv, ScriptKept
<1>4. ASSUME NEW a \in Apply, Backend(a)
      PROVE  \/ timer' = txn'.by
             \/ script'.by = txn'.by /\ script'.botched
             \/ Over(txn.by)'
  <2>1. CASE Abandon(a) /\ Rollback(a)
    <3>1. ScriptFails /\ ~RunScript /\ timer' = timer
      BY <1>0, <1>1, <2>1, RollbackRuns, ScriptTyped
    <3> QED
      BY <1>0, <1>3, <3>1, ScriptTyped
  <2>2. CASE ~(Abandon(a) /\ Rollback(a))
    <3>1. UNCHANGED <<script, timer, txn>>
      BY <1>4, <2>2 DEF Backend, ReadRevision, Refuse, Plan, Call, Applied, Verify, Commit, GiveUp,
         Abandon, OnHost, hostVars
    <3> QED
      BY <1>3, <3>1
  <2> QED
    BY <2>1, <2>2
<1>5. ASSUME NEW a \in Apply, HostProcess(a)
      PROVE  \/ timer' = txn'.by
             \/ script'.by = txn'.by /\ script'.botched
             \/ Over(txn.by)'
  <2>1. CASE Arm(a)
    <3>1. txn' = txn /\ hosts[a].pc \in Working
      BY <2>1 DEF Arm, HostAt, Working
    <3> QED
      BY <1>0, <1>1, <1>2, <3>1 DEF WorkInv
  <2>2. CASE RecordTransaction(a)
    BY <1>0, <2>2 DEF RecordTransaction, HostAt, WorkInv, Armed
  <2>3. CASE CommitCancel(a)
    BY <1>1, <2>3 DEF CommitCancel, Recordless
  <2>4. CASE Check(a) \/ Persist(a) \/ Program(a) \/ CommitVerify(a)
    BY <1>3, <2>4 DEF Check, Persist, Program, CommitVerify, OnHost, hostVars
  <2> QED
    BY <1>5, <2>1, <2>2, <2>3, <2>4 DEF HostProcess
<1>6. CASE Fire
  <2>1. /\ ScriptKept
        /\ script'.botched /\ txn'.by = txn.by
    BY <1>0, <1>1, <1>6, ScriptTyped DEF Fire
  <2>2. timer # None => script.by = timer
    BY <1>0 DEF TimerInv, InForce
  <2> QED
    BY <1>0, <1>1, <1>2, <1>6, <2>1, <2>2 DEF RecordInv, ScriptKept, Fire
<1>7. CASE Move \/ Stop \/ Restart \/ UNCHANGED vars
  BY <1>3, <1>7 DEF Move, Stop, Restart, vars
<1> QED
  BY <1>4, <1>5, <1>6, <1>7 DEF Next

LEMMA StackedStays == [Next]_vars /\ stacked /\ stacked \in BOOLEAN => stacked'
BY DEF Next, Backend, ReadRevision, Refuse, Plan, Call, Applied, Verify, Commit, GiveUp, Abandon,
   HostProcess, Check, Arm, Persist, Program, RecordTransaction, CommitVerify, CommitCancel, Fire,
   Move, Stop, Restart, vars, OnHost, hostVars

LEMMA HalvesNext == HInv /\ [Next]_vars => HInv'
<1> SUFFICES ASSUME HInv, [Next]_vars PROVE HInv'
  OBVIOUS
<1>0. TypeOK /\ PlanInv /\ UnrecordedInv /\ HalvesInv
  BY DEF HInv
<1>1. TypeOK' /\ PlanInv' /\ UnrecordedInv'
  BY <1>0, BackendTyped, HostTyped, OtherTyped, PlanNext, UnrecordedNext DEF Next
<1>2. SUFFICES ASSUME ~stacked' PROVE TimerInv' /\ RecordInv' /\ WorkInv'
  BY <1>1 DEF HInv, HalvesInv
<1>a. ~stacked
  BY <1>0, <1>2, StackedStays DEF TypeOK
<1>b. RecordInv'
  BY <1>2, <1>a, RecordNext
<1>c. TimerInv /\ RecordInv /\ WorkInv
  BY <1>0, <1>a DEF HalvesInv
<1>3. CASE Fire \/ Move \/ Stop \/ Restart \/ UNCHANGED vars
  <2>1. CASE Fire
    <3>1. timer \in Apply /\ timer # None /\ UNCHANGED <<veth, hosts>> /\ timer' = None
      BY <1>0, <2>1 DEF Fire, TypeOK
    <3>2. \A b \in Apply : hosts[b].pc \notin Working
      BY <1>c, <2>1, <3>1 DEF Fire, WorkInv, Working, Armed
    <3> QED
      BY <1>a, <1>b, <2>1, <3>1, <3>2, HalvesScript DEF Fire
  <2>2. CASE Move \/ Stop \/ Restart \/ UNCHANGED vars
    <3>1. UNCHANGED <<persistent, script, timer, txn, applies, hosts>>
      BY <2>2 DEF Move, Stop, Restart, vars
    <3>2. veth' => (UNCHANGED <<live, veth>>) \/ live' = persistent
      BY <2>2 DEF Move, Stop, Restart, vars
    <3>3. TimerInv'
      BY <1>c, <3>1, <3>2 DEF TimerInv, InForce, Sound
    <3>4. ASSUME txn.by = None \/ Over(txn.by) PROVE txn'.by = None \/ Over(txn.by)'
      BY <3>1, <3>4 DEF Over, Pending, Begun
    <3> QED
      BY <1>b, <1>c, <3>1, <3>2, <3>3, <3>4 DEF WorkInv, Snapshot, Sound
  <2> QED
    BY <1>3, <2>1, <2>2
<1> QED
  BY <1>2, <1>3, <1>b, HalvesHost, HalvesBackend DEF Next

LEMMA HalvesInit == Init => HInv
<1> SUFFICES ASSUME Init PROVE HInv
  OBVIOUS
<1>1. TypeOK /\ PlanInv
  BY TrunkInit DEF TransportInv
<1>2. TimerInv /\ RecordInv /\ WorkInv /\ UnrecordedInv
  BY TrunkAssumption DEF Init, TimerInv, RecordInv, WorkInv, UnrecordedInv, Armed, Working, TrunkAssumption
<1> QED
  BY <1>1, <1>2 DEF HInv, HalvesInv

\* With no timer armed and applies that wait for each other, both halves agree:
\* what a half-done apply changed was put back on both, whoever gave up and
\* whenever the container restarted, unless a command of the restore failed or the
\* apply found them apart.
THEOREM HalvesHold == Spec => []HalvesAgree
<1>1. Init => HInv
  BY HalvesInit
<1>2. HInv => HalvesAgree
  BY DEF HInv, HalvesInv, TimerInv, HalvesAgree, Sound
<1> QED
  BY <1>1, <1>2, HalvesNext, PTL DEF Spec

-----------------------------------------------------------------------------
\* What is recorded as compensated.

\* One apply at most holds the lock, and none waits while another is at work or
\* committed.
TurnInv ==
    \A a, b \in Apply : a # b =>
        /\ ~(applies[a].pc \in Holding /\ applies[b].pc \in Holding)
        /\ hosts[a].pc \in Working \cup {"verify", "cancel"} => ~Pending(b)

\* The list net1 comes back to is the one a pending apply found.
UndoInv ==
    \A a \in Apply : Pending(a) /\ ~HostAt(a, "committed") =>
        \/ script.botched
        \/ (IF timer = None THEN persistent ELSE script.persistent) = hosts[a].before.persistent

CInv == HInv /\ (stacked \/ (TurnInv /\ UndoInv))

LEMMA TurnNext ==
    ASSUME HInv, TurnInv, [Next]_vars, ~stacked'
    PROVE  TurnInv'
<1>0. TypeOK /\ PlanInv
  BY DEF HInv
<1>1. ASSUME NEW h \in Apply, Backend(h) PROVE TurnInv'
  <2>1. \A a, b \in Apply : a # b => ~(applies'[a].pc \in Holding /\ applies'[b].pc \in Holding)
    BY <1>0, <1>1, TakesTurn DEF TurnInv, LockFree
  <2>2. ASSUME NEW a \in Apply, NEW b \in Apply, a # b,
               hosts'[a].pc \in Working \cup {"verify", "cancel"}, Pending(b)'
        PROVE  FALSE
    <3>1. Pending(b)
      BY <1>0, <1>1, <2>2, TakesTurn
    <3>2. hosts'[a].pc = hosts[a].pc \/ (a = h /\ Verify(a))
      BY <1>0, <1>1, <2>2, BackendPaths DEF Working
    <3>3. Verify(a) => applies[a].pc \in Holding
      BY DEF Verify, At, Holding
    <3> QED
      BY <2>2, <3>1, <3>2, <3>3 DEF TurnInv, Pending
  <2> QED
    BY <2>1, <2>2 DEF TurnInv
<1>2. ASSUME NEW h \in Apply, HostProcess(h) PROVE TurnInv'
  <2>0. UNCHANGED applies
    BY <1>2 DEF HostProcess, Check, Arm, Persist, Program, RecordTransaction, CommitVerify,
       CommitCancel, HostOnly
  <2>a. ASSUME NEW c \in Apply, h = c, Check(c), hosts'[c].pc = "arm" PROVE ~Before(c)
    BY <1>0, <2>a, HostMoves DEF Check, Raise, HostStep
  <2>1. ASSUME NEW a \in Apply, NEW b \in Apply, a # b,
               hosts'[a].pc \in Working \cup {"verify", "cancel"}, Pending(b)'
        PROVE  FALSE
    <3>1. CASE hosts[a].pc \in Working \cup {"verify", "cancel"}
      <4>1. CASE Pending(b)
        BY <2>1, <3>1, <4>1 DEF TurnInv
      <4>2. CASE ~Pending(b)
        <5>1. h = b /\ Check(b) /\ hosts'[b].pc = "arm"
          BY <1>0, <1>2, <2>0, <2>1, <4>2, HostPaths
             DEF Pending, Begun, HostProcess, Arm, Persist, Program, RecordTransaction, CommitVerify,
                 CommitCancel, HostAt
        <5>2. UnderWay
          BY <3>1 DEF UnderWay
        <5> QED
          BY <2>a, <5>1, <5>2 DEF Before
      <4> QED
        BY <4>1, <4>2
    <3>2. CASE hosts[a].pc \notin Working \cup {"verify", "cancel"}
      <4>1. h = a /\ Check(a) /\ hosts'[a].pc = "arm"
        BY <1>0, <1>2, <2>1, <3>2, HostPaths
           DEF HostProcess, Arm, Persist, Program, RecordTransaction, CommitVerify, CommitCancel,
               HostAt, Working
      <4>2. hosts'[b] = hosts[b]
        BY <1>0, <1>2, <2>1, <4>1, HostPaths
      <4>3. Pending(b)
        BY <2>0, <2>1, <4>2 DEF Pending, Begun
      <4> QED
        BY <2>1, <2>a, <4>1, <4>3 DEF Before
    <3> QED
      BY <3>1, <3>2
  <2> QED
    BY <2>0, <2>1 DEF TurnInv
<1>3. CASE Fire \/ Move \/ Stop \/ Restart \/ UNCHANGED vars
  BY <1>3 DEF Fire, Move, Stop, Restart, vars, HostOnly, TurnInv, Pending, Begun
<1> QED
  BY <1>1, <1>2, <1>3 DEF Next

LEMMA UndoNext ==
    ASSUME HInv, TurnInv, UndoInv, [Next]_vars, ~stacked, ~stacked'
    PROVE  UndoInv'
<1>0. TypeOK /\ PlanInv /\ TimerInv /\ RecordInv /\ WorkInv
  BY DEF HInv, HalvesInv
<1>1. SUFFICES ASSUME NEW a \in Apply, Pending(a)', hosts'[a].pc # "committed"
               PROVE  \/ script'.botched
                      \/ (IF timer' = None THEN persistent' ELSE script'.persistent)
                            = hosts'[a].before.persistent
  BY DEF UndoInv, HostAt
<1> DEFINE back == IF timer = None THEN persistent ELSE script.persistent
           undone == (IF timer' = None THEN persistent' ELSE script'.persistent)
                        = hosts'[a].before.persistent
<1>2. Pending(a) /\ hosts[a].pc # "committed" => script.botched \/ back = hosts[a].before.persistent
  BY DEF UndoInv, HostAt
<1>a. ASSUME timer # None, RunScript \/ ScriptFails, timer' \in {timer, None},
             hosts'[a].before = hosts[a].before, Pending(a), hosts[a].pc # "committed"
      PROVE  script'.botched \/ undone
  <2>1. ScriptKept
    BY <1>0, <1>a, ScriptTyped
  <2>2. CASE ScriptFails
    BY <1>0, <2>2, ScriptTyped
  <2>3. CASE RunScript
    <3>1. persistent' = script.persistent
      BY <2>3 DEF RunScript
    <3> QED
      BY <1>2, <1>a, <2>1, <3>1 DEF ScriptKept
  <2> QED
    BY <1>a, <2>2, <2>3
<1>3. ASSUME NEW h \in Apply, Backend(h)
      PROVE  script'.botched \/ undone
  <2>1. Pending(a) /\ hosts[a].pc # "committed" /\ hosts'[a].before = hosts[a].before
    BY <1>0, <1>1, <1>3, TakesTurn, BackendPaths DEF HostAt
  <2>2. CASE Abandon(h) /\ Rollback(h)
    <3>1. (RunScript \/ ScriptFails) /\ timer' \in {timer, None} /\ txn.by = h /\ ScriptKept
      BY <1>0, <2>2, RollbackRuns, ScriptTyped
    <3>2. timer # None \/ script.botched
      BY <1>0, <2>2, <3>1, TrunkAssumption
         DEF RecordInv, Abandon, At, PlanInv, Over, Pending, Begun, Holding, TrunkAssumption
    <3> QED
      BY <1>a, <2>1, <3>1, <3>2 DEF ScriptKept
  <2>3. CASE ~(Abandon(h) /\ Rollback(h))
    <3>1. UNCHANGED <<persistent, script, timer>>
      BY <1>3, <2>3 DEF Backend, ReadRevision, Refuse, Plan, Call, Applied, Verify, Commit, GiveUp,
         Abandon, OnHost, hostVars
    <3> QED
      BY <1>2, <2>1, <3>1
  <2> QED
    BY <2>2, <2>3
<1>4. ASSUME NEW h \in Apply, HostProcess(h)
      PROVE  script'.botched \/ undone
  <2>0. UNCHANGED applies /\ h # None
    BY <1>4, TrunkAssumption DEF HostProcess, Check, Arm, Persist, Program, RecordTransaction,
       CommitVerify, CommitCancel, HostOnly, TrunkAssumption
  <2>1. CASE Check(h)
    <3>1. UNCHANGED <<persistent, script, timer>>
      BY <2>1 DEF Check
    <3>2. CASE h = a
      <4>1. /\ hosts'[a].pc = "arm"
            /\ hosts'[a].before = [persistent |-> persistent, live |-> live]
        BY <1>0, <1>1, <1>4, <2>1, <3>2, HostPaths DEF Pending, Begun
      <4>2. timer = None
        BY <1>0, <2>1, <3>2, <4>1, HostMoves DEF Check, Raise, HostStep, Before
      <4> QED
        BY <3>1, <4>1, <4>2
    <3>3. CASE h # a
      <4>1. hosts'[a] = hosts[a]
        BY <1>0, <1>4, <3>3, HostPaths
      <4> QED
        BY <1>1, <1>2, <2>0, <3>1, <4>1 DEF Pending, Begun
    <3> QED
      BY <3>2, <3>3
  <2>2. CASE ~Check(h)
    <3>1. hosts'[a].before = hosts[a].before /\ Pending(a)
      BY <1>0, <1>1, <1>4, <2>0, <2>2, HostPaths
         DEF Pending, Begun, HostProcess, Arm, Persist, Program, RecordTransaction, CommitVerify,
             CommitCancel, HostAt
    <3>2. hosts[a].pc # "committed"
      BY <1>0, <1>1, <1>4, <2>2, HostPaths
         DEF HostProcess, Arm, Persist, Program, RecordTransaction, CommitVerify, CommitCancel, HostAt
    <3>3. script.botched \/ back = hosts[a].before.persistent
      BY <1>2, <3>1, <3>2
    <3>4. ASSUME h # a, hosts[h].pc \in Working PROVE FALSE
      BY <3>1, <3>4 DEF TurnInv
    <3>5. CASE Arm(h)
      <4>1. h = a /\ hosts[a].pc = "arm"
        BY <3>4, <3>5 DEF Arm, HostAt, Working
      <4>2. timer' = a /\ script' = Snapshot(a)
        BY <1>0, <1>1, <3>5, <4>1, HostMoves DEF Arm, Raise, HostStep, Pending, Begun
      <4> QED
        BY <2>0, <3>1, <4>1, <4>2 DEF Snapshot
    <3>6. CASE Persist(h)
      <4>1. timer = h /\ UNCHANGED <<script, timer>>
        BY <1>0, <3>6 DEF Persist, HostAt, WorkInv, Armed
      <4> QED
        BY <2>0, <3>1, <3>3, <4>1
    <3>7. CASE Program(h) \/ RecordTransaction(h) \/ CommitVerify(h)
      <4>1. UNCHANGED <<persistent, script, timer>>
        BY <3>7 DEF Program, RecordTransaction, CommitVerify, OnHost, hostVars
      <4> QED
        BY <3>1, <3>3, <4>1
    <3>8. CASE CommitCancel(h)
      <4>1. h = a
        BY <3>1, <3>8 DEF CommitCancel, HostAt, TurnInv
      <4>2. timer' # None /\ timer' = timer /\ UNCHANGED <<persistent, script>>
        BY <1>0, <1>1, <3>8, <4>1, HostMoves DEF CommitCancel, CancelRollback, HostStep
      <4> QED
        BY <3>1, <3>3, <4>2
    <3> QED
      BY <1>4, <2>2, <3>5, <3>6, <3>7, <3>8 DEF HostProcess
  <2> QED
    BY <2>1, <2>2
<1>5. CASE Fire
  <2>1. /\ Pending(a) /\ UNCHANGED hosts /\ timer # None /\ timer' = None
        /\ RunScript \/ ScriptFails
    BY <1>1, <1>5 DEF Fire, HostOnly, Pending, Begun
  <2> QED
    BY <1>1, <1>a, <2>1
<1>6. CASE Move \/ Stop \/ Restart \/ UNCHANGED vars
  <2>1. Pending(a) /\ UNCHANGED <<hosts, persistent, script, timer>>
    BY <1>1, <1>6 DEF Move, Stop, Restart, vars, Pending, Begun
  <2> QED
    BY <1>1, <1>2, <2>1
<1> QED
  BY <1>3, <1>4, <1>5, <1>6 DEF Next

\* An apply that is recorded as compensated either rolled back at once, or leaves
\* a timer that will, or a script that failed.
LEMMA MadeGood ==
    ASSUME CInv, [Next]_vars, NEW a \in Apply, ~At(a, "compensated"),
           applies'[a].pc = "compensated", ~stacked
    PROVE  timer' # None \/ persistent' = hosts[a].before.persistent \/ script'.botched
<1>0. TypeOK /\ PlanInv /\ TimerInv /\ RecordInv /\ UndoInv
  BY DEF CInv, HInv, HalvesInv
<1>1. Backend(a)
  <2>1. ASSUME NEW h \in Apply, Backend(h) PROVE h = a
    BY <1>0, <2>1, TakesTurn DEF At
  <2> QED
    BY <2>1 DEF Next, At, HostProcess, Check, Arm, Persist, Program, RecordTransaction, CommitVerify,
       CommitCancel, HostOnly, Fire, Move, Stop, Restart, vars
<1>2. CASE Commit(a)
  <2>1. /\ UNCHANGED <<persistent, timer, script>>
        /\ hosts[a].pc = "stillArmed" /\ applies[a].pc = "commit"
    BY <1>0, <1>2, BackendMoves DEF Commit, OnHost, hostVars, At, HostAt, BackendStep
  <2> QED
    BY <1>0, <2>1 DEF UndoInv, Pending, Begun, Holding, HostAt
<1>3. CASE Abandon(a)
  <2>1. Pending(a) /\ ~HostAt(a, "committed")
    BY <1>0, <1>3 DEF Abandon, At, PlanInv, Pending, Begun, Holding, HostAt
  <2>2. CASE Rollback(a)
    <3>1. (RunScript \/ ScriptFails) /\ txn.by = a /\ ScriptKept
      BY <1>0, <2>2, RollbackRuns, ScriptTyped
    <3>2. timer # None \/ script.botched
      BY <1>0, <2>1, <3>1, TrunkAssumption DEF RecordInv, Over, TrunkAssumption
    <3>3. RunScript => persistent' = script.persistent
      BY <1>0, ScriptTyped
    <3>4. ScriptFails => script'.botched
      BY <1>0, ScriptTyped
    <3> QED
      BY <1>0, <2>1, <3>1, <3>2, <3>3, <3>4 DEF UndoInv, ScriptKept
  <2>3. CASE UNCHANGED <<persistent, live, script, timer, failedUnit, txn>>
    BY <1>0, <2>1, <2>3 DEF UndoInv
  <2> QED
    BY <1>3, <2>2, <2>3 DEF Abandon
<1>4. CASE ~Commit(a) /\ ~Abandon(a)
  <2>1. \E step \in BackendStep \ {"compensated"} : applies'[a].pc = step
    <3>1. CASE ReadRevision(a)
      BY <1>0, <3>1 DEF ReadRevision, TypeOK, BackendStep
    <3>2. CASE Plan(a)
      BY <1>0, <3>2 DEF Plan, Goto, TypeOK, BackendStep
    <3>3. CASE Refuse(a) \/ Call(a) \/ Applied(a) \/ Verify(a) \/ GiveUp(a)
      BY <1>0, <3>3, BackendMoves DEF Refuse, Call, Applied, Verify, GiveUp, BackendStep
    <3> QED
      BY <1>1, <1>4, <3>1, <3>2, <3>3 DEF Backend
  <2> QED
    BY <2>1
<1> QED
  BY <1>1, <1>2, <1>3, <1>4

\* An attempt recorded as compensated is: what it did is undone, or under the
\* timer that will undo it, or its restore was tried and failed, however the
\* answers of the host were lost.
THEOREM CompensationHolds == Spec => CompensatedIsOnItsWayOut
<1> DEFINE A == \A a \in Apply :
        (~At(a, "compensated") /\ applies'[a].pc = "compensated" /\ ~stacked) =>
            \/ timer' # None
            \/ persistent' = hosts[a].before.persistent
            \/ script'.botched
<1>1. Init => CInv
  <2> SUFFICES ASSUME Init PROVE CInv
    OBVIOUS
  <2>1. HInv
    BY HalvesInit
  <2>2. TurnInv /\ UndoInv
    BY DEF Init, TurnInv, UndoInv, Pending, Holding
  <2> QED
    BY <2>1, <2>2 DEF CInv
<1>2. CInv /\ [Next]_vars => CInv'
  <2> SUFFICES ASSUME CInv, [Next]_vars PROVE CInv'
    OBVIOUS
  <2>1. HInv'
    BY HalvesNext DEF CInv
  <2>2. ~stacked' => ~stacked
    BY StackedStays DEF CInv, HInv, TypeOK
  <2>3. ~stacked' => TurnInv' /\ UndoInv'
    BY <2>2, TurnNext, UndoNext DEF CInv
  <2> QED
    BY <2>1, <2>3 DEF CInv
<1>3. CInv /\ [Next]_vars => [A]_vars
  BY MadeGood DEF A
<1> QED
  BY <1>1, <1>2, <1>3, PTL DEF Spec, CompensatedIsOnItsWayOut

=============================================================================
