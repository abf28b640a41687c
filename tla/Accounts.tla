-------------------------------- MODULE Accounts --------------------------------
(***************************************************************************)
(* Who may hold a VM and for how long.  A student's VM runs until a time    *)
(* that may be renewed up to a cap; the sweeper deletes what has expired;   *)
(* an administrator deletes accounts.  Three handlers delete instances (the *)
(* sweeper, the owner's request, the deletion of the account), each in      *)
(* steps, while a create of the same student claims the group, reserves the *)
(* row and records reconciliation attempts.  Two foreign keys to users are  *)
(* ON DELETE RESTRICT: those of groups and of attempts.                     *)
(***************************************************************************)
EXTENDS Naturals, FiniteSets

CONSTANTS
    User,           \* students, each with one lab profile
    Instance,       \* ids of rows that may exist together
    Stubborn,       \* ids whose VM Proxmox does not delete
    Default,        \* settings.instances.defaultRuntimeHours
    Cap,            \* settings.limits.maxRuntimeHours
    Nobody,
    MaxEvents       \* bound: failed calls, changes of a role

ASSUME AccountAssumption ==
    /\ Stubborn \subseteq Instance /\ Nobody \notin User
    /\ Default \in Nat \ {0} /\ Cap \in Nat /\ Default <= Cap /\ MaxEvents \in Nat

Forever == Cap + Default + 1

\* The handlers that delete instances.
Worker == {"sweep", "request", "account"}

VARIABLES
    users, role,    \* the users table
    claim,          \* [User -> the role its token claims]
    retired,        \* ghost: users who do nothing any more
    row,            \* [Instance -> the row, or NoRow]
    group,          \* [User -> state of the user's group, or "none"]
    attempts,       \* users named by a reconciliation attempt
    job,            \* [Worker -> the handler's local state]
    create,         \* the create handler's local state
    events

accounts == <<users, role, claim, retired>>
vars == <<accounts, row, group, attempts, job, create, events>>

\* age: hours since created_at, up to Cap; left: hours to run_until;
\* exempt (ghost): the last to set run_until was an administrator.
NoRow == [owner |-> Nobody, age |-> 0, left |-> 0, exempt |-> FALSE]
\* calm (ghost): nothing of the user's ran since the deletion began.
\* by: who asked; user: whose instance it is.
Idle == [step |-> "idle", by |-> Nobody, user |-> Nobody, inst |-> {}, todo |-> {},
         calm |-> FALSE]
NoCreate == [step |-> "idle", user |-> Nobody, inst |-> {}]

Rows(u) == {i \in Instance : row[i].owner = u}
Event == events < MaxEvents /\ events' = events + 1
Least(a, b) == IF a < b THEN a ELSE b

\* Ids are not used again: not while somebody remembers them.
Unused(i) == row[i] = NoRow /\ \A w \in Worker : i \notin job[w].inst \cup job[w].todo

-----------------------------------------------------------------------------
Init ==
    /\ users = User /\ role = [u \in User |-> "student"]
    /\ claim = [u \in User |-> "student"] /\ retired = {}
    /\ row = [i \in Instance |-> NoRow] /\ group = [u \in User |-> "none"]
    /\ attempts = {}
    /\ job = [w \in Worker |-> Idle] /\ create = NoCreate /\ events = 0

-----------------------------------------------------------------------------
(* Accounts and tokens. *)

\* The token carries the role whatever becomes of the account.  (That it lasts
\* 24 h is left out: it is used until the next login, or until the user retires.)
PasswordLogin(u) ==
    /\ u \in users \ retired
    /\ claim' = [claim EXCEPT ![u] = role[u]]
    /\ UNCHANGED <<users, role, retired, row, group, attempts, job, create, events>>

\* A row for somebody who had none is a student's.
NewStudent(u) ==
    /\ users' = users \cup {u}
    /\ role' = IF u \in users THEN role ELSE [role EXCEPT ![u] = "student"]

\* SSO makes the account when there is none.  (POST /auth/users makes it, too,
\* and the first login follows; the two are one step here.)
SsoLogin(u) ==
    /\ u \notin retired
    /\ NewStudent(u)
    /\ claim' = [claim EXCEPT ![u] = role'[u]]
    /\ UNCHANGED <<retired, row, group, attempts, job, create, events>>

Update(u) == role' = [role EXCEPT ![u] = IF @ = "admin" THEN "student" ELSE "admin"]

\* PATCH /auth/users/:vu_id; tokens that are out keep their claim.
UpdateRole(u) ==
    /\ u \in users /\ Event
    /\ Update(u)
    /\ UNCHANGED <<users, claim, retired, row, group, attempts, job, create>>

Retire(u) ==
    /\ u \notin retired /\ retired' = retired \cup {u}
    /\ UNCHANGED <<users, role, claim, row, group, attempts, job, create, events>>

-----------------------------------------------------------------------------
(* The deadline. *)

Tick ==
    /\ row' = [i \in Instance |->
            IF row[i] = NoRow THEN NoRow
            ELSE [row[i] EXCEPT !.age = Least(@ + 1, Cap),
                                !.left = IF @ \in {0, Forever} THEN @ ELSE @ - 1]]
    /\ row' # row
    /\ UNCHANGED <<accounts, group, attempts, job, create, events>>

Expired(i) == row[i] # NoRow /\ row[i].left = 0

\* Mutant: the cap is on the increment.
RenewedIncrement(r, capped) ==
    [r EXCEPT !.left = Least(Default, Cap), !.exempt = ~capped]
\* LEAST(now + default, created_at + cap); no ceiling for an administrator.
Renewed(r, capped) ==
    [r EXCEPT !.left = IF capped THEN Least(Default, Cap - r.age) ELSE Default,
              !.exempt = ~capped]

\* By the users table, not by the token.
HasAccessTo(u, i) == u \in users /\ (role[u] = "admin" \/ row[i].owner = u)

\* The ceiling goes by the token.
Renew(u, i) ==
    /\ u \notin retired /\ row[i] # NoRow /\ HasAccessTo(u, i)
    /\ row' = [row EXCEPT ![i] = Renewed(@, claim[u] # "admin")]
    /\ UNCHANGED <<accounts, group, attempts, job, create, events>>

\* Never expires; or expires again, keeping a deadline there is.
Expirable(r, expirable) ==
    IF expirable THEN [r EXCEPT !.left = IF @ = Forever THEN Default ELSE @]
    ELSE [r EXCEPT !.left = Forever, !.exempt = TRUE]

\* By an administrator.
SetExpirable(i) ==
    /\ row[i] # NoRow /\ Event
    /\ \E expirable \in BOOLEAN : row' = [row EXCEPT ![i] = Expirable(@, expirable)]
    /\ UNCHANGED <<accounts, group, attempts, job, create>>

-----------------------------------------------------------------------------
(* POST /instances, as far as accounts are concerned.                        *)

\* A deletion of the account that runs meanwhile is not undisturbed.
Noise(u) == [job EXCEPT !["account"].calm = @ /\ job["account"].user # u]
CreateAt(step) == create' = [create EXCEPT !.step = step]

\* getOrCreatePlannedGroup: the owner has to exist.
Claim(u) ==
    /\ create.step = "idle" /\ u \in users \ retired
    /\ group' = [group EXCEPT ![u] = IF @ = "none" THEN "planned" ELSE @]
    /\ create' = [NoCreate EXCEPT !.step = "claimed", !.user = u]
    /\ job' = Noise(u)
    /\ UNCHANGED <<accounts, row, attempts, events>>

\* allocateNetworkGroup resumes a group in error, and refuses one that is
\* gone or being deleted.
Allocate ==
    LET u == create.user IN
    /\ create.step = "claimed"
    /\ IF group[u] \in {"none", "deleting"} THEN create' = NoCreate /\ UNCHANGED group
       ELSE /\ group' = [group EXCEPT ![u] = IF @ = "active" THEN @ ELSE "creating"]
            /\ CreateAt("allocated")
    /\ job' = Noise(u)
    /\ UNCHANGED <<accounts, row, attempts, events>>

\* The row names the user and the group.
Reserve ==
    LET u == create.user IN
    /\ create.step = "allocated" /\ u \in users /\ group[u] # "none"
    /\ \E i \in Instance :
        /\ Unused(i)
        /\ row' = [row EXCEPT ![i] = [NoRow EXCEPT !.owner = u, !.left = Default]]
        /\ create' = [create EXCEPT !.step = "reserved", !.inst = {i}]
    /\ job' = Noise(u)
    /\ UNCHANGED <<accounts, group, attempts, events>>

\* ensureNetworkGroupInfrastructure: its attempts name the user.
Provision ==
    LET u == create.user IN
    /\ create.step = "reserved" /\ u \in users /\ group[u] \in {"creating", "active"}
    /\ attempts' = attempts \cup {u} /\ CreateAt("provisioned")
    /\ job' = Noise(u)
    /\ UNCHANGED <<accounts, row, group, events>>

Promote ==
    LET u == create.user IN
    /\ create.step = "provisioned" /\ create.inst \subseteq Rows(u)
    /\ group' = [group EXCEPT ![u] = IF @ = "creating" THEN "active" ELSE @]
    /\ create' = NoCreate /\ job' = Noise(u)
    /\ UNCHANGED <<accounts, row, attempts, events>>

\* The row goes; the group is in error when it is left without any; the quota
\* and a lost race end here, too.
CreateFails ==
    LET u == create.user
        left == Rows(u) \ create.inst
    IN
    /\ create.step # "idle" /\ Event
    /\ row' = [i \in Instance |-> IF i \in create.inst THEN NoRow ELSE row[i]]
    /\ group' = [group EXCEPT ![u] =
            IF @ \in {"planned", "creating", "error"} /\ left = {} THEN "error" ELSE @]
    /\ create' = NoCreate /\ job' = Noise(u)
    /\ UNCHANGED <<accounts, attempts>>

\* Its user, group or row went meanwhile.
CreateOvertaken ==
    LET u == create.user IN
    /\ \/ create.step = "allocated" /\ (u \notin users \/ group[u] = "none")
       \/ create.step = "allocated" /\ ~\E i \in Instance : Unused(i)
       \/ create.step = "reserved" /\ (u \notin users \/ group[u] \notin {"creating", "active"})
       \/ create.step = "provisioned" /\ ~(create.inst \subseteq Rows(u))
    /\ row' = [i \in Instance |-> IF i \in create.inst THEN NoRow ELSE row[i]]
    /\ group' = [group EXCEPT ![u] =
            IF @ \in {"planned", "creating", "error"} /\ Rows(u) \subseteq create.inst
            THEN "error" ELSE @]
    /\ create' = NoCreate /\ job' = Noise(u)
    /\ UNCHANGED <<accounts, attempts, events>>

-----------------------------------------------------------------------------
(* Three handlers that delete instances. *)

Put(w, next) ==
    job' = [v \in Worker |->
        IF v = w THEN next
        ELSE IF v = "account" /\ job[v].user \in {next.user, next.by}
        THEN [job[v] EXCEPT !.calm = FALSE]
        ELSE job[v]]

\* removeExpiredInstances: the rows of one query.
Sweep ==
    /\ job["sweep"].step = "idle"
    /\ \E i \in Instance : Expired(i)
    /\ Put("sweep", [Idle EXCEPT !.step = "next", !.todo = {i \in Instance : Expired(i)}])
    /\ UNCHANGED <<accounts, row, group, attempts, create, events>>

\* DELETE /instances/:instanceId, by its owner or an administrator.
DeleteInstance(u, i) ==
    /\ job["request"].step = "idle" /\ u \notin retired /\ row[i] # NoRow
    /\ HasAccessTo(u, i)
    /\ Put("request", [Idle EXCEPT !.step = "take", !.by = u, !.user = row[i].owner,
                                  !.inst = {i}])
    /\ UNCHANGED <<accounts, row, group, attempts, create, events>>

\* A group that no instance is left to release.
Stuck(u) == group[u] # "none" /\ Rows(u) = {}

\* Users.delete.  1. The account is there.
DeleteUser(u) ==
    /\ job["account"].step = "idle" /\ u \in users
    /\ Put("account", [Idle EXCEPT !.step = "reattribute", !.user = u,
            !.calm = /\ ~Stuck(u) /\ create.user # u
                     /\ \A w \in {"sweep", "request"} : job[w].step = "idle"])
    /\ UNCHANGED <<accounts, row, group, attempts, create, events>>

\* 2. The attempts are the tombstone's.
\* Mutant: they stay the user's.
ReattributeNot ==
    /\ job["account"].step = "reattribute"
    /\ job' = [job EXCEPT !["account"].step = "list"]
    /\ UNCHANGED <<accounts, row, group, attempts, create, events>>
Reattribute ==
    /\ job["account"].step = "reattribute"
    /\ attempts' = attempts \ {job["account"].user}
    /\ job' = [job EXCEPT !["account"].step = "list"]
    /\ UNCHANGED <<accounts, row, group, create, events>>

\* 3. One instance after the other.
GetAllForUser ==
    /\ job["account"].step = "list"
    /\ job' = [job EXCEPT !["account"].step = "next",
                          !["account"].todo = Rows(job["account"].user)]
    /\ UNCHANGED <<accounts, row, group, attempts, create, events>>

\* The sweeper's next row, whoever owns its group.
NextRow(w) ==
    /\ job[w].step = "next" /\ job[w].todo # {}
    /\ \E i \in job[w].todo :
        job' = [job EXCEPT ![w].step = "take", ![w].inst = {i}, ![w].todo = @ \ {i}]
    /\ UNCHANGED <<accounts, row, group, attempts, create, events>>

\* The end of the list: the sweeper is done, the account goes.
NoMoreRows(w) ==
    /\ job[w].step = "next" /\ job[w].todo = {}
    /\ job' = [job EXCEPT ![w] = IF w = "sweep" THEN Idle ELSE [@ EXCEPT !.step = "users"]]
    /\ UNCHANGED <<accounts, row, group, attempts, create, events>>

\* A failed deletion ends the request; the sweeper logs it and goes on.
\* Mutant: the sweeper ends, too.
ThrownAway(w) == Put(w, Idle)
Thrown(w) ==
    Put(w, IF w = "sweep" THEN [job[w] EXCEPT !.step = "next", !.inst = {}] ELSE Idle)

\* deleteInstance reads the row, and throws when it is gone.
TakeRow(w) ==
    /\ job[w].step = "take"
    /\ LET i == CHOOSE x \in job[w].inst : TRUE IN
       IF row[i] = NoRow THEN Thrown(w)
       ELSE Put(w, [job[w] EXCEPT !.step = "vm", !.user = row[i].owner])
    /\ UNCHANGED <<accounts, row, group, attempts, create, events>>

\* Stopped and deleted in Proxmox; an absent VM will do.
RemoveVM(w) ==
    /\ job[w].step = "vm"
    /\ \/ job[w].inst \cap Stubborn = {} /\ Put(w, [job[w] EXCEPT !.step = "row"])
          /\ UNCHANGED events
       \/ job[w].inst \subseteq Stubborn /\ Thrown(w) /\ UNCHANGED events
       \/ Event /\ Thrown(w)
    /\ UNCHANGED <<accounts, row, group, attempts, create>>

\* The row, and with it a planned group that has no other.
RemoveRow(w) ==
    LET u == job[w].user IN
    /\ job[w].step = "row"
    /\ row' = [i \in Instance |-> IF i \in job[w].inst THEN NoRow ELSE row[i]]
    /\ group' = [group EXCEPT ![u] =
            IF @ = "planned" /\ Rows(u) \subseteq job[w].inst THEN "none" ELSE @]
    /\ Put(w, [job[w] EXCEPT !.step = "release"])
    /\ UNCHANGED <<accounts, attempts, create, events>>

\* What follows a removal.
After(w) == [job[w] EXCEPT !.step = "next", !.inst = {}]
Done(w) == IF w = "request" THEN Idle ELSE After(w)

\* markNetworkGroupDeleting, when the group holds an allocation and no VM.
Release(w) ==
    LET u == job[w].user IN
    /\ job[w].step = "release"
    /\ IF Rows(u) = {} /\ group[u] \in {"creating", "active", "error", "deleting"}
       THEN /\ group' = [group EXCEPT ![u] = "deleting"]
            /\ Put(w, [job[w] EXCEPT !.step = "reconcile"])
       ELSE Put(w, Done(w)) /\ UNCHANGED group
    /\ UNCHANGED <<accounts, row, attempts, create, events>>

\* Whom the attempts of the teardown name: nobody that lives, when the account
\* is being deleted; the sweeper names the owner of the group.
\* Mutant: the user who departs.
RequesterDeparting(w) == IF w = "request" THEN {job[w].by} ELSE {job[w].user}
Requester(w) ==
    CASE w = "account" -> {} [] w = "request" -> {job[w].by} [] w = "sweep" -> {job[w].user}

\* The reconciliations, or one of them fails and the group stays as it is; all
\* fail when the requester is gone, since their attempts have to name it.
Reconcile(w) ==
    /\ job[w].step = "reconcile"
    /\ attempts' = attempts \cup (Requester(w) \cap users)
    /\ \/ /\ Put(w, IF Requester(w) \subseteq users
                    THEN [job[w] EXCEPT !.step = "record"] ELSE Done(w))
          /\ UNCHANGED events
       \/ Event /\ Put(w, [Done(w) EXCEPT !.calm = FALSE])
    /\ UNCHANGED <<accounts, row, group, create>>

\* deleteNetworkGroupRecord.
DeleteRecord(w) ==
    LET u == job[w].user IN
    /\ job[w].step = "record"
    /\ group' = [group EXCEPT ![u] = IF @ = "deleting" /\ Rows(u) = {} THEN "none" ELSE @]
    /\ Put(w, Done(w))
    /\ UNCHANGED <<accounts, row, attempts, create, events>>

\* The foreign keys of network_groups and of the attempts.
\* Mutant: the group's key lets go.
RestrictedByAttempts(u) == u \in attempts
Restricted(u) == u \in attempts \/ group[u] # "none"

\* DELETE FROM users; instances.owner_id is ON DELETE SET NULL.
DeleteAccount ==
    LET u == job["account"].user IN
    /\ job["account"].step = "users"
    /\ users' = IF Restricted(u) THEN users ELSE users \ {u}
    /\ row' = [i \in Instance |->
            IF row[i].owner = u /\ ~Restricted(u) THEN [row[i] EXCEPT !.owner = Nobody]
            ELSE row[i]]
    /\ job' = [job EXCEPT !["account"] = Idle]
    /\ UNCHANGED <<role, claim, retired, group, attempts, create, events>>

-----------------------------------------------------------------------------
Deletion(w) ==
    \/ NextRow(w) \/ NoMoreRows(w) \/ TakeRow(w) \/ RemoveVM(w) \/ RemoveRow(w)
    \/ Release(w) \/ Reconcile(w) \/ DeleteRecord(w)

AccountStep == Reattribute \/ GetAllForUser \/ DeleteAccount

Creation ==
    \/ Allocate \/ Reserve \/ Provision \/ Promote \/ CreateFails \/ CreateOvertaken

Next ==
    \/ Tick \/ Sweep \/ Creation \/ AccountStep
    \/ \E w \in Worker : Deletion(w)
    \/ \E u \in User :
        \/ PasswordLogin(u) \/ SsoLogin(u) \/ UpdateRole(u) \/ Retire(u)
        \/ Claim(u) \/ DeleteUser(u)
        \/ \E i \in Instance : Renew(u, i) \/ DeleteInstance(u, i)
    \/ \E i \in Instance : SetExpirable(i)

Spec == Init /\ [][Next]_vars

\* Time passes, the sweeper's timer fires, handlers go on; and an administrator
\* who wants a departed account gone asks until it is (the model has one such
\* request at a time, the program any number).
Fairness ==
    /\ WF_vars(Tick) /\ WF_vars(Sweep) /\ WF_vars(Creation) /\ WF_vars(AccountStep)
    /\ \A w \in Worker : WF_vars(Deletion(w))
    /\ \A u \in User : SF_vars(u \in retired /\ DeleteUser(u))
FairSpec == Spec /\ Fairness

-----------------------------------------------------------------------------
TypeOK ==
    /\ users \subseteq User /\ attempts \subseteq users /\ retired \subseteq User
    /\ \A u \in User :
        /\ role[u] \in {"student", "admin"} /\ claim[u] \in {"student", "admin"}
        /\ group[u] \in {"none", "planned", "creating", "active", "error", "deleting"}
    /\ \A i \in Instance :
        row[i].age \in 0..Cap /\ row[i].left \in 0..Default \cup {Forever}
    /\ \A w \in Worker : Cardinality(job[w].inst) <= 1
    /\ events \in 0..MaxEvents

\* A row belongs to an account that exists, although the key of the row lets go
\* of a deleted owner: whoever deletes the account and whoever creates meanwhile,
\* the group stands between them.  (Users.delete, POST /instances.)
RowsHaveOwners == \A i \in Instance : row[i] # NoRow => row[i].owner \in users

\* Unless something else of the user's runs, or a teardown fails, the deletion
\* of the account gets past both foreign keys at the first attempt.
\* (The order of the steps of Users.delete.)
UndisturbedDeletionSucceeds ==
    job["account"].step = "users" /\ job["account"].calm => ~Restricted(job["account"].user)

\* However often its student renews, no VM is held for ever, also beside a VM
\* that cannot be deleted; unless an administrator let it.
\* (updateRuntimeHours and removeExpiredInstances together.)
NoVmIsHeldForever ==
    \A i \in Instance \ Stubborn : []<>(row[i] = NoRow \/ row[i].exempt)

\* Held back for good: by a VM that cannot be deleted, or by a group that is left
\* without an instance to release it.
HeldBack(u) == Stuck(u) \/ Rows(u) \cap Stubborn # {}

\* An account that is not used any more goes, however often its deletion fails on
\* the way, unless something of it holds it back for ever.
\* (Users.delete, asked again until the account is gone.)
RetiredAccountGoes ==
    \A u \in User : u \in retired ~> (u \notin users \/ []HeldBack(u))

\* An account that is not used any more can be deleted, unless a VM of it
\* cannot.  (The comment of Users.delete.)
DeletionSucceedsAtLast ==
    \A u \in User : u \in retired ~> u \notin users \/ Rows(u) \cap Stubborn # {}

=============================================================================
