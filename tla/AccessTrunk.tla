------------------------------ MODULE AccessTrunk ------------------------------
(***************************************************************************)
(* The VLAN trunk of the Access container: applied by the backend through  *)
(* a forced command on the hypervisor, under a rollback timer there.       *)
(*                                                                         *)
(*   applies    AccessTrunkApplyRunner and applyAccessTrunk: plan under    *)
(*              the reconciliation lock, apply, prove over another         *)
(*              channel, commit or abandon                                 *)
(*   host       the forced command each apply started, which goes on when  *)
(*              its SSH client is gone; the timer; a restart of the        *)
(*              container                                                  *)
(*                                                                         *)
(* Both halves of the trunk live on the host: the trunks= list of net1     *)
(* survives a restart, the bridge membership is what passes traffic.       *)
(* pct, bridge and systemctl are external: a call works or fails, and pct  *)
(* set may reprogram the running veth from the list it writes.  The script *)
(* of the timer calls them as well, and may fail like anything else.       *)
(*                                                                         *)
(* The timer does not elapse while the apply that armed it is at work:     *)
(* every command it runs has a timeout, the timer a floor.                 *)
(***************************************************************************)
EXTENDS Integers, FiniteSets

CONSTANTS
    Apply,          \* calls of AccessTrunkApplyRunner.apply
    Vlan,           \* allocatable VLANs
    Migration,      \* ACCESS_MIGRATION_VLAN
    None,
    MaxMoves,       \* changes of the operational groups
    MaxRestarts     \* restarts of the container

ASSUME TrunkAssumption ==
    /\ Migration \notin Vlan /\ None \notin Apply
    /\ MaxMoves \in Nat /\ MaxRestarts \in Nat

VARIABLES
    groups,         \* VLANs of the operational groups
    persistent,     \* trunks= of net1
    live,           \* tagged membership of the running veth
    veth,           \* the container runs
    script,         \* rollback.sh: what to restore, written by which apply
    timer,          \* the apply whose timer is armed
    failedUnit,     \* systemd remembers that the service of the timer failed
    txn,            \* transaction.json
    applies,        \* [Apply -> the backend's side]
    hosts,          \* [Apply -> the forced command's side]
    stacked,        \* an apply began while the one before it was not over
    moves, restarts

vars == <<groups, persistent, live, veth, script, timer, failedUnit, txn, applies, hosts,
          stacked, moves, restarts>>
hostVars == <<persistent, live, veth, script, timer, failedUnit, txn, stacked, restarts>>

Trunk == SUBSET (Vlan \cup {Migration})
BackendStep == {"idle", "plan", "call", "wait", "verify", "commit", "abandon",
                "ok", "failed", "compensated"}
HostStep == {"off", "check", "arm", "persist", "live", "record", "verify", "cancel",
             "applied", "unproven", "committed", "stillArmed", "raised"}

\* botched is a ghost: a run of the script has left something undone.
Script == [by : Apply \cup {None}, persistent : Trunk, live : Trunk, desired : Trunk,
           botched : BOOLEAN]

NoScript == [by |-> None, persistent |-> {}, live |-> {}, desired |-> {}, botched |-> FALSE]

TypeOK ==
    /\ groups \subseteq Vlan
    /\ persistent \in Trunk /\ live \in Trunk /\ veth \in BOOLEAN
    /\ script \in Script
    /\ timer \in Apply \cup {None} /\ failedUnit \in BOOLEAN
    /\ txn \in [by : Apply \cup {None}, desired : Trunk]
    /\ applies \in [Apply -> [pc : BackendStep, expected : SUBSET Vlan, desired : Trunk]]
    /\ hosts \in [Apply -> [pc : HostStep, net1 : Trunk, before : [persistent : Trunk, live : Trunk]]]
    /\ timer # None => script.by # None
    /\ stacked \in BOOLEAN

Init ==
    /\ groups = {}
    /\ persistent = {Migration} /\ live = {Migration} /\ veth = TRUE
    /\ script = NoScript /\ timer = None /\ failedUnit = FALSE
    /\ txn = [by |-> None, desired |-> {}]
    /\ applies = [a \in Apply |-> [pc |-> "idle", expected |-> {}, desired |-> {}]]
    /\ hosts = [a \in Apply |-> [pc |-> "off", net1 |-> {}, before |-> [persistent |-> {}, live |-> {}]]]
    /\ stacked = FALSE /\ moves = 0 /\ restarts = 0

At(a, step) == applies[a].pc = step
Goto(a, step) == applies' = [applies EXCEPT ![a].pc = step]
HostAt(a, step) == hosts[a].pc = step
HostGoto(a, step) == hosts' = [hosts EXCEPT ![a].pc = step]
OnHost == UNCHANGED hostVars
Aside == UNCHANGED <<groups, moves>>

Holding == {"call", "wait", "verify", "commit", "abandon"}
LockFree == \A a \in Apply : applies[a].pc \notin Holding

-----------------------------------------------------------------------------
\* The plan.  Every list carries the migration VLAN, whatever the allocator says;
\* planAccessTrunk refuses one that does not, and an absent veth.
AccessVlans(g) == g \cup {Migration}
Plannable(desired) == Migration \in desired /\ veth
\* What the observer's channel finds of one half or the other.
Drift(desired) ==
    {half \in {"persistent", "live"} :
        IF half = "persistent" THEN persistent # desired ELSE ~veth \/ live # desired}

Converged(desired) == veth /\ persistent = desired /\ live = desired

\* The caller read the revision before it asked.
ReadRevision(a) ==
    /\ At(a, "idle")
    /\ applies' = [applies EXCEPT ![a].pc = "plan", ![a].expected = groups]
    /\ OnHost /\ Aside /\ UNCHANGED hosts

\* The mode is not active, the revision has moved, or the host cannot be read:
\* refused before an attempt is written.
Refuse(a) ==
    /\ At(a, "plan") /\ LockFree
    /\ Goto(a, "failed")
    /\ OnHost /\ Aside /\ UNCHANGED hosts

Plan(a) ==
    /\ At(a, "plan") /\ LockFree
    /\ groups = applies[a].expected
    /\ LET desired == AccessVlans(groups) IN
        /\ Plannable(desired)
        /\ IF Converged(desired)
           THEN Goto(a, "ok")
           ELSE applies' = [applies EXCEPT ![a].pc = "call", ![a].desired = desired]
    /\ OnHost /\ Aside /\ UNCHANGED hosts

\* net1 is read over the mutating channel, to be handed back as a precondition.
Call(a) ==
    /\ At(a, "call")
    /\ Goto(a, "wait")
    /\ hosts' = [hosts EXCEPT ![a].pc = "check", ![a].net1 = persistent]
    /\ OnHost /\ Aside

-----------------------------------------------------------------------------
\* operation_apply on the host.

Raise(a) == HostGoto(a, "raised")

HostOnly == Aside /\ UNCHANGED applies

Working == {"arm", "persist", "live", "record"}
UnderWay == \E a \in Apply : hosts[a].pc \in Working \cup {"verify", "cancel"}

\* Its preconditions held, it has not raised, and the backend waits for it.
Begun(a) == hosts[a].pc \notin {"off", "check", "raised"}
Pending(a) == applies[a].pc \in Holding /\ Begun(a)

\* An apply before a is not over: its timer may fire, its command go on, or the
\* backend commit it or roll it back.
Before(a) == timer # None \/ UnderWay \/ \E b \in Apply \ {a} : Pending(b)

\* Preconditions: net1 as expected, the veth present, no recorded transaction
\* whose timer is armed.
Check(a) ==
    /\ HostAt(a, "check")
    /\ IF /\ hosts[a].net1 = persistent
          /\ veth
          /\ txn.by = None \/ timer = None
       THEN /\ hosts' = [hosts EXCEPT ![a].pc = "arm",
                                      ![a].before = [persistent |-> persistent, live |-> live]]
            /\ stacked' = (stacked \/ Before(a))
       ELSE Raise(a) /\ UNCHANGED stacked
    /\ HostOnly /\ UNCHANGED <<persistent, live, veth, script, timer, failedUnit, txn, restarts>>

Snapshot(a) ==
    [by |-> a, persistent |-> hosts[a].before.persistent, live |-> hosts[a].before.live,
     desired |-> applies[a].desired, botched |-> FALSE]

\* Mutant: no timer.
ArmNothing(a) ==
    /\ HostAt(a, "arm")
    /\ script' = Snapshot(a)
    /\ HostGoto(a, "persist")
    /\ HostOnly /\ UNCHANGED <<persistent, live, veth, timer, failedUnit, txn, stacked, restarts>>

\* The script is written over the last one, then systemd-run refuses a unit name
\* that is in use: the timer is armed, or its service failed and was not reset.
Arm(a) ==
    /\ HostAt(a, "arm")
    /\ script' = Snapshot(a)
    /\ IF timer = None /\ ~failedUnit
       THEN timer' = a /\ HostGoto(a, "persist")
       ELSE UNCHANGED timer /\ Raise(a)
    /\ HostOnly /\ UNCHANGED <<persistent, live, veth, failedUnit, txn, stacked, restarts>>

\* pct set: the persistent half first.  It may reprogram the veth, and may raise;
\* it is not called when the list is there already.
Persist(a) ==
    /\ HostAt(a, "persist")
    /\ LET set == applies[a].desired # hosts[a].before.persistent IN
        \/ /\ persistent' = IF set THEN applies[a].desired ELSE persistent
           /\ live' \in {live, IF set /\ veth THEN applies[a].desired ELSE live}
           /\ HostGoto(a, "live")
        \/ set /\ UNCHANGED <<persistent, live>> /\ Raise(a)
    /\ HostOnly /\ UNCHANGED <<veth, script, timer, failedUnit, txn, stacked, restarts>>

Missing(a) == applies[a].desired \ hosts[a].before.live

\* Mutant: what was there is removed and not added again.
SurplusAll(a) == hosts[a].before.live

Surplus(a) == hosts[a].before.live \ applies[a].desired

\* bridge vlan add and then del, one command each: any of them may raise, and the
\* rest is not run.
Program(a) ==
    /\ HostAt(a, "live")
    /\ \/ /\ veth /\ live' = (live \cup Missing(a)) \ Surplus(a) /\ HostGoto(a, "record")
       \/ veth /\ Raise(a) /\ \E some \in SUBSET Missing(a) : live' = live \cup some
       \/ veth /\ Raise(a) /\ \E some \in SUBSET Surplus(a) :
                                live' = (live \cup Missing(a)) \ some
       \/ ~veth /\ Raise(a) /\ UNCHANGED live
    /\ HostOnly /\ UNCHANGED <<persistent, veth, script, timer, failedUnit, txn, stacked, restarts>>

\* Observed once more, and recorded for commit and rollback.
RecordTransaction(a) ==
    /\ HostAt(a, "record")
    /\ txn' = [by |-> a, desired |-> applies[a].desired]
    /\ HostGoto(a, IF Converged(applies[a].desired) /\ timer # None THEN "applied" ELSE "unproven")
    /\ HostOnly /\ UNCHANGED <<persistent, live, veth, script, timer, failedUnit, stacked, restarts>>

Recordless == txn' = [by |-> None, desired |-> {}]

\* Mutant: the live half is left to the next restart.
RunScriptPersistent ==
    /\ persistent' = script.persistent
    /\ UNCHANGED <<live, script>>
    /\ Recordless

\* The live diff backwards, over what pct set left of the veth.
LiveUndone(base) ==
    (base \ (script.desired \ script.live)) \cup (script.live \ script.desired)

\* rollback.sh to its end: net1 verbatim, then the live diff backwards, then the
\* record.  Each bridge command is `|| true`: any of them may fail unnoticed.
RunScript ==
    /\ persistent' = script.persistent
    /\ \E base \in {live, script.persistent},
          removed \in SUBSET (script.desired \ script.live),
          added \in SUBSET (script.live \ script.desired) :
        /\ live' = IF veth THEN (base \ removed) \cup added ELSE live
        /\ script' = [script EXCEPT !.botched = @ \/ (veth /\ live' # LiveUndone(base))]
    /\ Recordless

\* Under set -e the script ends where pct set fails, which comes first.
ScriptFails ==
    /\ script' = [script EXCEPT !.botched = TRUE]
    /\ UNCHANGED <<persistent, live, txn>>

\* The timer runs the script once; systemd remembers a service that failed.
Fire ==
    /\ timer # None /\ hosts[timer].pc \notin Working
    /\ timer' = None
    /\ \/ RunScript /\ UNCHANGED failedUnit
       \/ ScriptFails /\ failedUnit' = TRUE
    /\ HostOnly /\ UNCHANGED <<veth, hosts, stacked, restarts>>

\* commit and rollback find the record of their own apply, or refuse.
OwnTransaction(a) == txn.by = a

\* cancel_rollback: nobody looks whether systemctl stopped the timer, or forgot
\* the failure.
CancelRollback == timer' \in {timer, None} /\ failedUnit' \in {failedUnit, FALSE}

\* operation_rollback: the script of the timer, at once; it raises if that fails.
Rollback(a) ==
    /\ OwnTransaction(a)
    /\ \/ RunScript /\ CancelRollback
       \/ ScriptFails /\ UNCHANGED <<timer, failedUnit>>

\* operation_commit: only a converged trunk, then the timer is stopped.
CommitVerify(a) ==
    /\ HostAt(a, "verify")
    /\ IF OwnTransaction(a) /\ Converged(txn.desired) THEN HostGoto(a, "cancel") ELSE Raise(a)
    /\ HostOnly /\ OnHost

CommitCancel(a) ==
    /\ HostAt(a, "cancel")
    /\ Recordless
    /\ CancelRollback
    /\ HostGoto(a, IF timer' = None THEN "committed" ELSE "stillArmed")
    /\ HostOnly /\ UNCHANGED <<persistent, live, veth, script, stacked, restarts>>

HostProcess(a) ==
    \/ Check(a) \/ Arm(a) \/ Persist(a) \/ Program(a) \/ RecordTransaction(a)
    \/ CommitVerify(a) \/ CommitCancel(a)

-----------------------------------------------------------------------------
\* applyAccessTrunk, once the host answers.

Applied(a) ==
    /\ At(a, "wait") /\ hosts[a].pc \in {"applied", "unproven"}
    /\ Goto(a, IF HostAt(a, "applied") THEN "verify" ELSE "abandon")
    /\ OnHost /\ Aside /\ UNCHANGED hosts

\* The proof over the observer's own channel, which may not answer.
Verify(a) ==
    /\ At(a, "verify")
    /\ \/ /\ Drift(applies[a].desired) = {}
          /\ Goto(a, "commit") /\ HostGoto(a, "verify")
       \/ Goto(a, "abandon") /\ UNCHANGED hosts
    /\ OnHost /\ Aside

\* Committed with the timer stopped, or with a timer that will undo it.
Commit(a) ==
    /\ At(a, "commit") /\ hosts[a].pc \in {"committed", "stillArmed"}
    /\ Goto(a, IF HostAt(a, "committed") THEN "ok" ELSE "compensated")
    /\ OnHost /\ Aside /\ UNCHANGED hosts

\* The host raised, the answer is lost, or the client is killed at its timeout:
\* nothing is rolled back here, the timer is the recovery.
GiveUp(a) ==
    /\ applies[a].pc \in {"wait", "commit"}
    /\ Goto(a, "failed")
    /\ OnHost /\ Aside /\ UNCHANGED hosts

\* abandon: an immediate rollback, best effort.
Abandon(a) ==
    /\ At(a, "abandon")
    /\ Goto(a, "compensated")
    /\ \/ Rollback(a)
       \/ UNCHANGED <<persistent, live, script, timer, failedUnit, txn>>
    /\ Aside /\ UNCHANGED <<veth, stacked, restarts, hosts>>

Backend(a) ==
    \/ ReadRevision(a) \/ Refuse(a) \/ Plan(a) \/ Call(a)
    \/ Applied(a) \/ Verify(a) \/ Commit(a) \/ GiveUp(a) \/ Abandon(a)

-----------------------------------------------------------------------------
\* Groups come and go; the container restarts, from its persistent half.
Move ==
    /\ moves < MaxMoves
    /\ \E g \in SUBSET Vlan : g # groups /\ groups' = g
    /\ moves' = moves + 1
    /\ UNCHANGED <<persistent, live, veth, script, timer, failedUnit, txn, applies, hosts, stacked, restarts>>

Stop ==
    /\ veth /\ restarts < MaxRestarts
    /\ veth' = FALSE /\ live' = {} /\ restarts' = restarts + 1
    /\ UNCHANGED <<groups, persistent, script, timer, failedUnit, txn, applies, hosts, stacked, moves>>

Restart ==
    /\ ~veth
    /\ veth' = TRUE /\ live' = persistent
    /\ UNCHANGED <<groups, persistent, script, timer, failedUnit, txn, applies, hosts, stacked, moves, restarts>>

Next ==
    \/ \E a \in Apply : Backend(a) \/ HostProcess(a)
    \/ Fire \/ Move \/ Stop \/ Restart

Spec == Init /\ [][Next]_vars

-----------------------------------------------------------------------------
\* Properties.

\* The migration VLAN is the container's only tagged transport: no plan, half
\* apply, rollback or restart ever leaves it out of either half.
MigrationStays == Migration \in persistent /\ (veth => Migration \in live)

\* Once nothing is at work on the host and no timer is armed, both halves agree:
\* whatever an apply left half done was put back on both sides.  They do not when
\* an apply began before the last one was over: its snapshot is of a half-done
\* trunk, or it wrote its script over that of an armed timer.  Nor when a command
\* of the last restore itself failed, or the last apply found them apart.
HalvesAgree ==
    (~UnderWay /\ timer = None /\ veth /\ ~stacked) =>
        \/ persistent = live
        \/ script.botched
        \/ script.persistent # script.live

\* An attempt recorded as compensated is: the timer that will restore what was
\* there is armed, or net1 has been restored, or a run of the script was tried and
\* failed; unless applies were stacked (above).
CompensatedIsOnItsWayOut ==
    [][\A a \in Apply :
        (~At(a, "compensated") /\ applies'[a].pc = "compensated" /\ ~stacked) =>
            \/ timer' # None
            \/ persistent' = hosts[a].before.persistent
            \/ script'.botched]_vars

=============================================================================
