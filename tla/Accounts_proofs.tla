---------------------------- MODULE Accounts_proofs ----------------------------
(***************************************************************************)
(* For every number of students, instances, ids that Proxmox refuses to    *)
(* delete, every default and every cap:                                    *)
(*   - whoever deletes an account while its creates and removals run, a    *)
(*     row has an owner that exists.  The row's own key does not see to    *)
(*     it, since it lets go of a deleted owner; the group of the row does, *)
(*     whose key restricts;                                                *)
(*   - a deletion that nothing else of the user's disturbs is not stopped  *)
(*     by the two keys that restrict: the attempts have been handed on,    *)
(*     and the group goes with the last row, or by its release.            *)
(***************************************************************************)
EXTENDS Accounts, TLAPS

Row == [owner : User \cup {Nobody}, age : 0..Cap, left : 0..Default \cup {Forever}, exempt : BOOLEAN]

OwnerTypes ==
    /\ users \subseteq User
    /\ row \in [Instance -> Row]
    /\ group \in [User -> {"none", "planned", "creating", "active", "error", "deleting"}]

\* A row's owner is there, and has a group.
Owned(i) == row[i] # NoRow => row[i].owner \in users /\ group[row[i].owner] # "none"

OwnerInv == OwnerTypes /\ \A i \in Instance : Owned(i)

-----------------------------------------------------------------------------
\* A step that adds no row, takes no user away, and leaves its group to every
\* row that stays.
LEMMA OwnersKept ==
    ASSUME OwnerInv, OwnerTypes', users \subseteq users',
           \A i \in Instance :
               \/ row'[i] = NoRow
               \/ /\ row[i] # NoRow /\ row'[i].owner = row[i].owner
                  /\ group'[row[i].owner] # "none"
    PROVE  OwnerInv'
BY DEF OwnerInv, Owned

LEMMA NoRowTyped == NoRow \in Row
BY AccountAssumption DEF NoRow, Row, AccountAssumption

\* A renewal and an administrator change how long a row has, not whose it is.
LEMMA DeadlineTyped ==
    ASSUME NEW r \in Row
    PROVE  /\ \A capped \in BOOLEAN :
                Renewed(r, capped) \in Row /\ Renewed(r, capped).owner = r.owner
           /\ \A expirable \in BOOLEAN :
                Expirable(r, expirable) \in Row /\ Expirable(r, expirable).owner = r.owner
<1>0. Default \in Nat \ {0} /\ Cap \in Nat /\ Default <= Cap
  BY AccountAssumption DEF AccountAssumption
<1>1. r.age \in 0..Cap /\ r.left \in 0..Default \cup {Forever}
  BY DEF Row
<1>2. ASSUME NEW capped \in BOOLEAN
      PROVE  Renewed(r, capped) \in Row /\ Renewed(r, capped).owner = r.owner
  <2> DEFINE l == IF capped THEN Least(Default, Cap - r.age) ELSE Default
  <2>1. l \in 0..Default
    BY <1>0, <1>1 DEF Least
  <2> DEFINE e == ~capped
  <2>2. Renewed(r, capped) = [r EXCEPT !.left = l, !.exempt = e]
    BY DEF Renewed
  <2>3. e \in BOOLEAN
    OBVIOUS
  <2> HIDE DEF l, e
  <2> QED
    BY <2>1, <2>2, <2>3 DEF Row
<1>3. ASSUME NEW expirable \in BOOLEAN
      PROVE  Expirable(r, expirable) \in Row /\ Expirable(r, expirable).owner = r.owner
  <2>1. Default \in 0..Default
    BY <1>0
  <2> QED
    BY <1>1, <2>1 DEF Expirable, Row
<1> QED
  BY <1>2, <1>3

\* Whose a row is has nothing to do with how long it has.
LEMMA DeadlineOwners ==
    ASSUME OwnerInv,
           Tick \/ \E i \in Instance : SetExpirable(i) \/ \E u \in User : Renew(u, i)
    PROVE  /\ row' \in [Instance -> Row]
           /\ \A i \in Instance :
                /\ row'[i].owner = row[i].owner
                /\ row[i] = NoRow => row'[i] = NoRow
<1>0. OwnerTypes
  BY DEF OwnerInv
<1>1. CASE Tick
  <2>1. ASSUME NEW i \in Instance, row[i] # NoRow
        PROVE  row'[i] \in Row /\ row'[i].owner = row[i].owner
    <3> DEFINE a == Least(row[i].age + 1, Cap)
               l == IF row[i].left \in {0, Forever} THEN row[i].left ELSE row[i].left - 1
    <3>1. row'[i] = [row[i] EXCEPT !.age = a, !.left = l]
      BY <1>1, <2>1 DEF Tick
    <3>2. row[i] \in Row /\ row[i].age \in 0..Cap /\ row[i].left \in 0..Default \cup {Forever}
      BY <1>0 DEF OwnerTypes, Row
    <3>3. a \in 0..Cap /\ l \in 0..Default \cup {Forever}
      BY <3>2, AccountAssumption DEF Least, AccountAssumption
    <3> HIDE DEF a, l
    <3> QED
      BY <3>1, <3>2, <3>3 DEF Row
  <2>2. \A i \in Instance : row[i] = NoRow => row'[i] = NoRow
    BY <1>1 DEF Tick
  <2>3. row' = [i \in Instance |-> row'[i]]
    BY <1>1 DEF Tick
  <2> QED
    BY <2>1, <2>2, <2>3, NoRowTyped
<1>2. ASSUME NEW i \in Instance, SetExpirable(i) \/ \E u \in User : Renew(u, i)
      PROVE  row' \in [Instance -> Row]
             /\ \A j \in Instance : /\ row'[j].owner = row[j].owner
                                    /\ row[j] = NoRow => row'[j] = NoRow
  <2>1. row[i] # NoRow /\ row[i] \in Row
    BY <1>0, <1>2 DEF SetExpirable, Renew, OwnerTypes
  <2>2. PICK new \in Row : row' = [row EXCEPT ![i] = new] /\ new.owner = row[i].owner
    <3>1. CASE SetExpirable(i)
      <4>1. PICK expirable \in BOOLEAN : row' = [row EXCEPT ![i] = Expirable(row[i], expirable)]
        BY <1>0, <3>1 DEF SetExpirable, OwnerTypes
      <4> QED
        BY <2>1, <4>1, DeadlineTyped
    <3>2. CASE \E u \in User : Renew(u, i)
      <4>1. PICK u \in User : Renew(u, i)
        BY <3>2
      <4>2. row' = [row EXCEPT ![i] = Renewed(row[i], claim[u] # "admin")]
        BY <1>0, <4>1 DEF Renew, OwnerTypes
      <4>3. (claim[u] # "admin") \in BOOLEAN
        OBVIOUS
      <4> QED
        BY <2>1, <4>2, <4>3, DeadlineTyped
    <3> QED
      BY <1>2, <3>1, <3>2
  <2> QED
    BY <1>0, <2>1, <2>2 DEF OwnerTypes
<1> QED
  BY <1>1, <1>2

LEMMA DeadlineKeepsOwners ==
    ASSUME OwnerInv,
           Tick \/ \E i \in Instance : SetExpirable(i) \/ \E u \in User : Renew(u, i)
    PROVE  OwnerInv'
<1>1. UNCHANGED <<users, group>>
  BY DEF Tick, SetExpirable, Renew, accounts
<1>2. row' \in [Instance -> Row]
      /\ \A i \in Instance : row'[i].owner = row[i].owner /\ (row[i] = NoRow => row'[i] = NoRow)
  BY DeadlineOwners
<1> QED
  BY <1>1, <1>2 DEF OwnerInv, OwnerTypes, Owned

-----------------------------------------------------------------------------
\* The create handler: it claims its group before it writes its row, and a
\* create that fails leaves the group in error, not away.
LEMMA CreateKeepsOwners ==
    ASSUME OwnerInv, Creation \/ \E u \in User : Claim(u)
    PROVE  OwnerInv'
<1>0. OwnerTypes /\ users' = users
  BY DEF OwnerInv, Creation, Claim, Allocate, Reserve, Provision, Promote, CreateFails, CreateOvertaken,
         accounts
<1>1. \A u \in User : group'[u] = "none" => group[u] = "none"
  BY <1>0 DEF Creation, Claim, Allocate, Reserve, Provision, Promote, CreateFails, CreateOvertaken,
              OwnerTypes
<1>2. group' \in [User -> {"none", "planned", "creating", "active", "error", "deleting"}]
  BY <1>0 DEF Creation, Claim, Allocate, Reserve, Provision, Promote, CreateFails, CreateOvertaken,
              OwnerTypes
<1>3. CASE Reserve
  <2>1. PICK i \in Instance : row' = [row EXCEPT ![i] = [NoRow EXCEPT !.owner = create.user, !.left = Default]]
    BY <1>3 DEF Reserve
  <2>2. create.user \in users /\ group[create.user] # "none" /\ group' = group
    BY <1>3 DEF Reserve
  <2> DEFINE new == [NoRow EXCEPT !.owner = create.user, !.left = Default]
  <2>3. new \in Row /\ new.owner = create.user
    <3>1. create.user \in User /\ Default \in 0..Default
      BY <1>0, <2>2, AccountAssumption DEF OwnerTypes, AccountAssumption
    <3>2. NoRow.owner = Nobody /\ NoRow \in Row
      BY NoRowTyped DEF NoRow
    <3> QED
      BY <3>1, <3>2 DEF Row
  <2> HIDE DEF new
  <2>4. row' = [row EXCEPT ![i] = new]
    BY <2>1 DEF new
  <2> QED
    BY <1>0, <2>2, <2>3, <2>4 DEF OwnerInv, OwnerTypes, Owned
<1>4. CASE ~Reserve
  <2>1. row' = row \/ row' = [i \in Instance |-> IF i \in create.inst THEN NoRow ELSE row[i]]
    BY <1>4 DEF Creation, Claim, Allocate, Provision, Promote, CreateFails, CreateOvertaken
  <2>2. row' \in [Instance -> Row] /\ \A i \in Instance : row'[i] \in {row[i], NoRow}
    BY <1>0, <2>1, NoRowTyped DEF OwnerTypes
  <2>3. OwnerTypes'
    BY <1>0, <1>2, <2>2 DEF OwnerTypes
  <2>4. \A i \in Instance : row[i] # NoRow => group'[row[i].owner] # "none"
    BY <1>0, <1>1 DEF OwnerInv, Owned, OwnerTypes
  <2> QED
    BY <1>0, <2>2, <2>3, <2>4, OwnersKept
<1> QED
  BY <1>3, <1>4

\* The deletions: a group goes when it has no row but the one that goes with it.
LEMMA DeletionKeepsOwners ==
    ASSUME OwnerInv, NEW w \in Worker, Deletion(w)
    PROVE  OwnerInv'
<1>0. OwnerTypes /\ users' = users
  BY DEF OwnerInv, Deletion, NextRow, NoMoreRows, TakeRow, RemoveVM, RemoveRow, Release, Reconcile,
         DeleteRecord, accounts
<1>1. CASE RemoveRow(w)
  <2>1. row' = [i \in Instance |-> IF i \in job[w].inst THEN NoRow ELSE row[i]]
    BY <1>1 DEF RemoveRow
  <2>2. group' = [group EXCEPT ![job[w].user] =
            IF @ = "planned" /\ Rows(job[w].user) \subseteq job[w].inst THEN "none" ELSE @]
    BY <1>1 DEF RemoveRow
  <2>3. OwnerTypes'
    BY <1>0, <2>1, <2>2, NoRowTyped DEF OwnerTypes
  <2>4. ASSUME NEW i \in Instance, row[i] # NoRow, i \notin job[w].inst
        PROVE  group'[row[i].owner] # "none"
    <3>1. row[i].owner \in User /\ group[row[i].owner] # "none"
      BY <1>0, <2>4 DEF OwnerInv, Owned, OwnerTypes
    <3>2. row[i].owner = job[w].user => ~(Rows(job[w].user) \subseteq job[w].inst)
      BY <2>4 DEF Rows
    <3> QED
      BY <1>0, <2>2, <3>1, <3>2 DEF OwnerTypes
  <2> QED
    BY <1>0, <2>1, <2>3, <2>4, OwnersKept
<1>2. CASE DeleteRecord(w)
  <2>1. group' = [group EXCEPT ![job[w].user] =
            IF @ = "deleting" /\ Rows(job[w].user) = {} THEN "none" ELSE @]
    BY <1>2 DEF DeleteRecord
  <2>2. row' = row /\ OwnerTypes'
    BY <1>0, <1>2, <2>1 DEF DeleteRecord, OwnerTypes
  <2>3. ASSUME NEW i \in Instance, row[i] # NoRow PROVE group'[row[i].owner] # "none"
    <3>1. row[i].owner \in User /\ group[row[i].owner] # "none"
      BY <1>0, <2>3 DEF OwnerInv, Owned, OwnerTypes
    <3>2. row[i].owner = job[w].user => Rows(job[w].user) # {}
      BY DEF Rows
    <3> QED
      BY <1>0, <2>1, <3>1, <3>2 DEF OwnerTypes
  <2> QED
    BY <1>0, <2>2, <2>3, OwnersKept
<1>3. CASE ~RemoveRow(w) /\ ~DeleteRecord(w)
  <2>1. row' = row /\ (group' = group \/ group' = [group EXCEPT ![job[w].user] = "deleting"])
    BY <1>3 DEF Deletion, NextRow, NoMoreRows, TakeRow, RemoveVM, Release, Reconcile
  <2>2. OwnerTypes' /\ \A u \in User : group'[u] = "none" => group[u] = "none"
    BY <1>0, <2>1 DEF OwnerTypes
  <2>3. \A i \in Instance : row[i] # NoRow => group'[row[i].owner] # "none"
    BY <1>0, <2>2 DEF OwnerInv, Owned, OwnerTypes
  <2> QED
    BY <1>0, <2>1, <2>2, <2>3, OwnersKept
<1> QED
  BY <1>1, <1>2, <1>3

\* An account goes only without a group, and so without rows.
LEMMA AccountKeepsOwners ==
    ASSUME OwnerInv, AccountStep
    PROVE  OwnerInv'
<1>1. CASE DeleteAccount
  <2> DEFINE u == job["account"].user
  <2>1. group' = group /\ users' = IF Restricted(u) THEN users ELSE users \ {u}
    BY <1>1 DEF DeleteAccount
  <2>2. \A i \in Instance : row[i] # NoRow /\ ~Restricted(u) => row[i].owner # u
    BY DEF OwnerInv, Owned, Restricted
  <2>3. u # Nobody \/ \A i \in Instance : row[i].owner = u => row[i] = NoRow
    BY AccountAssumption DEF OwnerInv, Owned, OwnerTypes, AccountAssumption
  <2>4. \A i \in Instance : row'[i] = row[i] \/ (~Restricted(u) /\ row[i] = NoRow /\ u = Nobody)
    BY <1>1, <2>2 DEF DeleteAccount, NoRow
  <2>5. \A i \in Instance : row[i] = NoRow => row'[i] = NoRow
    BY <1>1 DEF DeleteAccount, NoRow
  <2>6. row' = [i \in Instance |-> row'[i]]
    BY <1>1 DEF DeleteAccount
  <2>7. row' = row
    BY <2>4, <2>5, <2>6 DEF OwnerInv, OwnerTypes
  <2> QED
    BY <2>1, <2>2, <2>7 DEF OwnerInv, OwnerTypes, Owned
<1>2. CASE Reattribute \/ GetAllForUser
  BY <1>2 DEF Reattribute, GetAllForUser, OwnerInv, OwnerTypes, Owned, accounts
<1> QED
  BY <1>1, <1>2 DEF AccountStep

LEMMA OwnersInit == Init => OwnerInv
BY NoRowTyped DEF Init, OwnerInv, OwnerTypes, Owned

LEMMA OwnersStep ==
    ASSUME OwnerInv, [Next]_vars
    PROVE  OwnerInv'
<1>1. CASE \E u \in User : SsoLogin(u)
  BY <1>1 DEF SsoLogin, NewStudent, OwnerInv, OwnerTypes, Owned
<1>2. CASE \/ Sweep \/ UNCHANGED vars
           \/ \E u \in User :
               \/ PasswordLogin(u) \/ UpdateRole(u) \/ Retire(u) \/ DeleteUser(u)
               \/ \E i \in Instance : DeleteInstance(u, i)
  <2>1. UNCHANGED <<users, row, group>>
    BY <1>2 DEF Sweep, PasswordLogin, UpdateRole, Retire, DeleteUser, DeleteInstance, vars, accounts
  <2> QED
    BY <2>1 DEF OwnerInv, OwnerTypes, Owned
<1> QED
  BY <1>1, <1>2, DeadlineKeepsOwners, CreateKeepsOwners, DeletionKeepsOwners, AccountKeepsOwners DEF Next

\* A VM's row always belongs to an account that exists.
THEOREM OwnersHold == Spec => []RowsHaveOwners
<1>1. OwnerInv /\ [Next]_vars => OwnerInv'
  BY OwnersStep
<1>2. OwnerInv => RowsHaveOwners
  BY DEF OwnerInv, Owned, RowsHaveOwners
<1> QED
  BY <1>1, <1>2, OwnersInit, PTL DEF Spec

-----------------------------------------------------------------------------
(* An undisturbed deletion.  What stands against it are the two keys: the   *)
(* attempts of the user and its group.                                      *)

Step == {"idle", "reattribute", "list", "next", "take", "vm", "row", "release", "reconcile",
         "record", "users"}
Handler == [step : Step, by : User \cup {Nobody}, user : User \cup {Nobody},
            inst : SUBSET Instance, todo : SUBSET Instance, calm : BOOLEAN]
Creating == [step : {"idle", "claimed", "allocated", "reserved", "provisioned"},
             user : User \cup {Nobody}, inst : SUBSET Instance]

HandlerTypes ==
    /\ job \in [Worker -> Handler]
    /\ create \in Creating
    /\ attempts \subseteq User

Job == job["account"]
Others == {"sweep", "request"}

\* What a deletion remembers of rows is of the user it works for, or gone.
JobOf(w) ==
    /\ job[w].step = "idle" => job[w].user = Nobody /\ job[w].by = Nobody
    /\ job[w].step = "take" => \E i \in Instance : job[w].inst = {i}
    /\ job[w].step \in {"vm", "row"} =>
            \A i \in job[w].inst : row[i].owner \in {Nobody, job[w].user}

AccountOf ==
    /\ \A i \in Job.todo \cup Job.inst : row[i].owner \in {Nobody, Job.user}
    /\ Job.step = "users" => Job.todo = {}
    /\ Job.calm => Job.user \in User

HandlerInv ==
    /\ \A w \in Worker : JobOf(w)
    /\ AccountOf
    /\ \A i \in create.inst : row[i].owner \in {Nobody, create.user}

\* The steps that come after the list of rows.
Listed == {"next", "take", "vm", "row", "release", "reconcile", "record", "users"}

\* The rows it still has before it.
Ahead == IF Job.step \in {"take", "vm", "row"} THEN Job.todo \cup Job.inst ELSE Job.todo

\* Where a calm deletion is with the group: it is none, or a row is left to
\* release it, or the release is under way.
GroupOf(u) ==
    IF Job.step \in {"reconcile", "record"} THEN group[u] = "deleting" /\ Rows(u) = {}
    ELSE IF Job.step = "release" THEN group[u] # "planned" \/ Rows(u) # {}
    ELSE group[u] = "none" \/ Rows(u) # {}

\* Nothing else is of the user.
Alone(u) ==
    /\ create.user # u
    /\ \A w \in Others : job[w].user # u /\ job[w].by # u

CalmOf(u) ==
    /\ Alone(u)
    /\ Job.step # "reattribute" => u \notin attempts
    /\ Job.step \in Listed => Rows(u) \subseteq Ahead
    /\ GroupOf(u)

CalmInv == Job.calm => CalmOf(Job.user)

DepartInv == HandlerTypes /\ HandlerInv /\ CalmInv

\* A step that leaves a handler where it is; whether it is calm may change.
Stays(w) ==
    /\ job'[w].step = job[w].step /\ job'[w].user = job[w].user /\ job'[w].by = job[w].by
    /\ job'[w].inst = job[w].inst /\ job'[w].todo = job[w].todo

\* Rows keep their owner or go.
Kept(i) == row'[i].owner \in {row[i].owner, Nobody}

LEMMA JobStays ==
    ASSUME NEW w \in Worker, JobOf(w), Stays(w),
           \A i \in job[w].inst : Kept(i)
    PROVE  JobOf(w)'
BY DEF JobOf, Stays, Kept

LEMMA AccountStays ==
    ASSUME AccountOf, Stays("account"), Job'.calm => Job.calm,
           \A i \in Job.inst \cup Job.todo : Kept(i)
    PROVE  AccountOf'
BY DEF AccountOf, Stays, Kept, Job

\* What others do leaves a calm deletion as it was, if they do not touch the user.
LEMMA CalmStays ==
    ASSUME CalmInv, Stays("account"), Job'.calm => Job.calm, NEW u, u = Job.user,
           Job'.calm =>
               /\ Alone(u)' /\ Rows(u)' = Rows(u) /\ group'[u] = group[u]
               /\ u \in attempts' => u \in attempts
    PROVE  CalmInv'
<1> SUFFICES ASSUME Job'.calm PROVE CalmOf(u)'
  BY DEF CalmInv, Stays, Job
<1>1. Job'.step = Job.step /\ Job'.inst = Job.inst /\ Job'.todo = Job.todo
  BY DEF Stays, Job
<1>2. CalmOf(u)
  BY DEF CalmInv
<1> QED
  BY <1>1, <1>2 DEF CalmOf, GroupOf, Ahead

\* How the helpers move the handlers.
LEMMA PutMoves ==
    ASSUME HandlerTypes, NEW w \in Worker, NEW next \in Handler, Put(w, next)
    PROVE  /\ job' \in [Worker -> Handler] /\ job'[w] = next
           /\ \A v \in Worker \ {w} : Stays(v)
           /\ \A v \in Others \ {w} : job'[v] = job[v]
           /\ w # "account" /\ Job'.calm =>
                Job.calm /\ Job.user # next.user /\ Job.user # next.by
<1>1. "account" \in Worker /\ "account" \notin Others /\ Others \subseteq Worker
  BY DEF Worker, Others
<1>2. \A v \in Worker : job[v] \in Handler
  BY DEF HandlerTypes
<1> DEFINE disturbed == [job["account"] EXCEPT !.calm = FALSE]
<1>3. disturbed \in Handler /\ ~disturbed.calm
      /\ disturbed.step = Job.step /\ disturbed.user = Job.user /\ disturbed.by = Job.by
      /\ disturbed.inst = Job.inst /\ disturbed.todo = Job.todo
  BY <1>1, <1>2 DEF Handler, Job
<1>4. \A v \in Worker : job'[v] = IF v = w THEN next
        ELSE IF v = "account" /\ Job.user \in {next.user, next.by} THEN disturbed ELSE job[v]
  BY <1>1 DEF Put, Job
<1>5. job' = [v \in Worker |-> job'[v]]
  BY DEF Put
<1> HIDE DEF disturbed
<1> QED
  BY <1>1, <1>2, <1>3, <1>4, <1>5 DEF Stays, Job

LEMMA NoiseMoves ==
    ASSUME HandlerTypes, NEW u, job' = Noise(u)
    PROVE  /\ job' \in [Worker -> Handler]
           /\ \A v \in Worker : Stays(v)
           /\ \A v \in Others : job'[v] = job[v]
           /\ Job'.calm => Job.calm /\ Job.user # u
<1>1. "account" \in Worker /\ "account" \notin Others /\ Others \subseteq Worker
  BY DEF Worker, Others
<1> DEFINE c == Job.calm /\ Job.user # u
           new == [job["account"] EXCEPT !.calm = c]
<1>2. c \in BOOLEAN /\ job' = [job EXCEPT !["account"] = new]
  BY DEF Noise, Job, HandlerTypes
<1>3. c => Job.calm /\ Job.user # u
  OBVIOUS
<1> HIDE DEF c
<1>4. new \in Handler /\ new.calm = c
      /\ new.step = Job.step /\ new.user = Job.user /\ new.by = Job.by
      /\ new.inst = Job.inst /\ new.todo = Job.todo
  BY <1>1, <1>2 DEF Handler, HandlerTypes, Job
<1> HIDE DEF new
<1> QED
  BY <1>1, <1>2, <1>3, <1>4 DEF HandlerTypes, Stays, Job

-----------------------------------------------------------------------------
\* Steps of the users and of the create handler.

LEMMA UsersDepart ==
    ASSUME DepartInv, UNCHANGED <<group, attempts, job, create>>,
           \A i \in Instance : row'[i].owner = row[i].owner
    PROVE  DepartInv'
<1>1. HandlerTypes' /\ (\A w \in Worker : Stays(w)) /\ Job' = Job
  BY DEF DepartInv, HandlerTypes, Stays, Job
<1>2. HandlerInv'
  <2>1. \A i \in Instance : Kept(i)
    BY DEF Kept
  <2>2. \A w \in Worker : job[w].inst \subseteq Instance /\ job[w].todo \subseteq Instance
    BY DEF DepartInv, HandlerTypes, Handler
  <2>3. "account" \in Worker /\ create.inst \subseteq Instance
    BY DEF Worker, DepartInv, HandlerTypes, Creating
  <2>4. \A w \in Worker : JobOf(w)'
    BY <1>1, <2>1, <2>2, JobStays DEF DepartInv, HandlerInv
  <2>5. AccountOf'
    BY <1>1, <2>1, <2>2, <2>3, AccountStays DEF DepartInv, HandlerInv, Job
  <2> QED
    BY <2>1, <2>3, <2>4, <2>5 DEF DepartInv, HandlerInv, Kept
<1>3. CalmInv'
  <2> SUFFICES ASSUME Job.calm, NEW u, u = Job.user PROVE CalmOf(u)'
    BY <1>1 DEF CalmInv
  <2>1. Rows(u)' = Rows(u)
    BY DEF Rows
  <2> QED
    BY <1>1, <2>1 DEF CalmOf, GroupOf, Ahead, Alone, DepartInv, CalmInv
<1> QED
  BY <1>1, <1>2, <1>3 DEF DepartInv

\* A create is of one user, whom it disturbs, and its rows are those it reserves.
LEMMA CreateMoves ==
    ASSUME OwnerInv, DepartInv, NEW u, job' = Noise(u),
           \/ Creation /\ u = create.user
           \/ u \in User /\ Claim(u)
    PROVE  /\ create' \in Creating
           /\ create'.user \in {u, Nobody}
           /\ \A i \in create'.inst : row'[i].owner \in {Nobody, create'.user}
           /\ attempts' \subseteq (attempts \cup {u}) \cap User
           /\ \A x \in User \ {u} : group'[x] = group[x] /\ Rows(x)' = Rows(x)
           /\ \A w \in Worker : \A i \in job[w].inst \cup job[w].todo : Kept(i)
<1>0. /\ HandlerTypes /\ OwnerTypes /\ users \subseteq User /\ Nobody \notin User
      /\ create \in Creating
      /\ \A w \in Worker : job[w].inst \subseteq Instance /\ job[w].todo \subseteq Instance
      /\ \A i \in create.inst : row[i].owner \in {Nobody, create.user}
  BY AccountAssumption DEF DepartInv, OwnerInv, OwnerTypes, HandlerTypes, HandlerInv, Handler, AccountAssumption
<1>1. NoCreate \in Creating
      /\ NoCreate.inst = {} /\ NoCreate.user = Nobody
  BY DEF NoCreate, Creating
<1>2. CASE u \in User /\ Claim(u)
  <2>1. row' = row /\ attempts' = attempts /\ \A x \in User \ {u} : group'[x] = group[x]
    BY <1>0, <1>2 DEF Claim, OwnerTypes
  <2>2. create' = [step |-> "claimed", user |-> u, inst |-> {}]
    BY <1>2 DEF Claim, NoCreate
  <2> QED
    <3>1. create' \in Creating /\ create'.user = u /\ create'.inst = {}
      BY <1>2, <2>2 DEF Creating
    <3> HIDE <2>2
    <3> QED
      BY <1>0, <1>2, <2>1, <3>1 DEF Kept, Rows, HandlerTypes
<1>3. CASE (Allocate \/ Promote \/ Provision) /\ u = create.user
  <2>1. /\ row' = row /\ attempts' \subseteq (attempts \cup {u}) \cap User
        /\ \A x \in User \ {u} : group'[x] = group[x]
    <3>1. CASE Allocate
      BY <1>0, <1>3, <3>1 DEF Allocate, OwnerTypes, HandlerTypes
    <3>2. CASE Promote
      BY <1>0, <1>3, <3>2 DEF Promote, OwnerTypes, HandlerTypes
    <3>3. CASE Provision
      BY <1>0, <1>3, <3>3 DEF Provision, OwnerTypes, HandlerTypes
    <3> QED
      BY <1>3, <3>1, <3>2, <3>3
  <2>2. create' = NoCreate \/ \E step \in {"allocated", "provisioned"} : CreateAt(step)
    BY <1>3 DEF Allocate, Promote, Provision
  <2>3. create' \in Creating
        /\ (create'.user = Nobody \/ create'.user = u) /\ create'.inst \subseteq create.inst
        /\ (create'.inst # {} => create'.user = create.user)
    BY <1>0, <1>1, <1>3, <2>2 DEF CreateAt, Creating
  <2> QED
    BY <1>0, <2>1, <2>3 DEF Kept, Rows
<1>4. CASE Reserve /\ u = create.user
  <2>1. PICK i \in Instance :
            /\ Unused(i) /\ row' = [row EXCEPT ![i] = [NoRow EXCEPT !.owner = u, !.left = Default]]
            /\ create' = [create EXCEPT !.step = "reserved", !.inst = {i}]
    BY <1>4 DEF Reserve
  <2>2. create' \in Creating
        /\ create'.user = u /\ create'.inst = {i}
    BY <1>0, <1>4, <2>1 DEF Creating
  <2>3. row'[i].owner = u /\ \A j \in Instance \ {i} : row'[j] = row[j]
    <3> DEFINE new == [NoRow EXCEPT !.owner = u, !.left = Default]
    <3>1. new.owner = u /\ row' = [row EXCEPT ![i] = new]
      BY <2>1 DEF NoRow
    <3> HIDE DEF new
    <3> QED
      BY <1>0, <3>1 DEF OwnerTypes
  <2>4. row[i].owner = Nobody /\ \A w \in Worker : i \notin job[w].inst \cup job[w].todo
    BY <2>1 DEF Unused, NoRow
  <2>5. \A x \in User \ {u} : Rows(x)' = Rows(x)
    BY <1>0, <2>3, <2>4 DEF Rows
  <2>6. \A w \in Worker : \A j \in job[w].inst \cup job[w].todo : Kept(j)
    BY <1>0, <2>3, <2>4 DEF Kept
  <2>7. group' = group /\ attempts' = attempts
    BY <1>4 DEF Reserve
  <2> QED
    BY <1>0, <2>2, <2>3, <2>5, <2>6, <2>7 DEF HandlerTypes
<1>5. CASE (CreateFails \/ CreateOvertaken) /\ u = create.user
  <2>1. /\ row' = [i \in Instance |-> IF i \in create.inst THEN NoRow ELSE row[i]]
        /\ attempts' = attempts /\ create' = NoCreate
        /\ \A x \in User \ {u} : group'[x] = group[x]
    BY <1>0, <1>5 DEF CreateFails, CreateOvertaken, OwnerTypes
  <2>2. \A i \in Instance : row'[i].owner \in {row[i].owner, Nobody}
        /\ (row'[i].owner # row[i].owner => row[i].owner = u)
    BY <1>0, <1>5, <2>1 DEF NoRow
  <2>3. \A x \in User \ {u} : Rows(x)' = Rows(x)
    BY <1>0, <2>2 DEF Rows
  <2> QED
    BY <1>0, <1>1, <2>1, <2>2, <2>3 DEF Kept, HandlerTypes
<1> QED
  BY <1>2, <1>3, <1>4, <1>5 DEF Creation

LEMMA CreateDeparts ==
    ASSUME OwnerInv, DepartInv, Creation \/ \E u \in User : Claim(u)
    PROVE  DepartInv'
<1>0. /\ "account" \in Worker /\ "account" \notin Others /\ Others \subseteq Worker
      /\ HandlerTypes /\ HandlerInv /\ CalmInv /\ Nobody \notin User
  BY AccountAssumption DEF Worker, Others, DepartInv, AccountAssumption
<1>1. PICK u : /\ job' = Noise(u)
               /\ (Creation /\ u = create.user) \/ (u \in User /\ Claim(u))
  BY DEF Creation, Claim, Allocate, Reserve, Provision, Promote, CreateFails, CreateOvertaken
<1>2. /\ create' \in Creating
      /\ create'.user \in {u, Nobody}
      /\ \A i \in create'.inst : row'[i].owner \in {Nobody, create'.user}
      /\ attempts' \subseteq (attempts \cup {u}) \cap User
      /\ \A x \in User \ {u} : group'[x] = group[x] /\ Rows(x)' = Rows(x)
      /\ \A w \in Worker : \A i \in job[w].inst \cup job[w].todo : Kept(i)
  BY <1>1, CreateMoves
<1>3. /\ job' \in [Worker -> Handler] /\ \A v \in Worker : Stays(v)
      /\ \A v \in Others : job'[v] = job[v]
      /\ Job'.calm => Job.calm /\ Job.user # u
  BY <1>0, <1>1, NoiseMoves
<1>4. HandlerTypes'
  BY <1>2, <1>3 DEF HandlerTypes
<1>5. HandlerInv'
  <2>1. \A w \in Worker : JobOf(w)'
    BY <1>0, <1>2, <1>3, JobStays DEF HandlerInv
  <2>2. AccountOf'
    BY <1>0, <1>2, <1>3, AccountStays DEF HandlerInv, Job
  <2> QED
    BY <1>2, <2>1, <2>2 DEF HandlerInv
<1>6. CalmInv'
  <2> SUFFICES ASSUME NEW a, a = Job.user PROVE CalmInv'
    OBVIOUS
  <2>1. ASSUME Job'.calm PROVE /\ Alone(a)' /\ Rows(a)' = Rows(a) /\ group'[a] = group[a]
                               /\ a \in attempts' => a \in attempts
    <3>1. a \in User /\ a # u /\ Alone(a)
      BY <1>0, <1>3, <2>1 DEF HandlerInv, AccountOf, CalmInv, CalmOf
    <3> QED
      BY <1>0, <1>2, <1>3, <3>1 DEF Alone
  <2> QED
    BY <1>0, <1>3, <2>1, CalmStays
<1> QED
  BY <1>4, <1>5, <1>6 DEF DepartInv

-----------------------------------------------------------------------------
\* The sweeper and the request: a row of the user they take up disturbs it.

\* Whoever is told of is disturbed; the handler's rows are of the user it names.
LEMMA OtherMoves ==
    ASSUME OwnerInv, DepartInv, NEW w \in Others, NEW next \in Handler, job'[w] = next,
           job' \in [Worker -> Handler],
           \A v \in Worker \ {w} : Stays(v), \A v \in Others \ {w} : job'[v] = job[v],
           Job'.calm => Job.calm /\ Job.user # next.user /\ Job.user # next.by,
           create' = create, JobOf(w)', attempts' \subseteq User,
           \A i \in Instance : Kept(i) /\ (row'[i].owner # row[i].owner => row[i].owner = job[w].user),
           \A x \in User \ {job[w].user} : group'[x] = group[x],
           \A x \in User : x \notin {job[w].user, job[w].by} /\ x \in attempts' => x \in attempts
    PROVE  DepartInv'
<1>0. /\ "account" \in Worker /\ w \in Worker /\ w # "account" /\ Others \subseteq Worker
      /\ HandlerTypes /\ HandlerInv /\ CalmInv /\ Nobody \notin User
      /\ create.inst \subseteq Instance
      /\ \A v \in Worker : job[v].inst \subseteq Instance /\ job[v].todo \subseteq Instance
  BY AccountAssumption DEF Worker, Others, DepartInv, AccountAssumption, HandlerTypes, Handler, Creating
<1>1. /\ job' \in [Worker -> Handler] /\ job'[w] = next
      /\ \A v \in Worker \ {w} : Stays(v)
      /\ \A v \in Others \ {w} : job'[v] = job[v]
      /\ Job'.calm => Job.calm /\ Job.user # next.user /\ Job.user # next.by
  OBVIOUS
<1>2. HandlerTypes'
  BY <1>0, <1>1 DEF HandlerTypes
<1>3. HandlerInv'
  <2>1. \A v \in Worker \ {w} : JobOf(v)'
    BY <1>0, <1>1, JobStays DEF HandlerInv
  <2>2. AccountOf'
    BY <1>0, <1>1, AccountStays DEF HandlerInv, Job
  <2>3. \A i \in create'.inst : row'[i].owner \in {Nobody, create'.user}
    BY <1>0 DEF HandlerInv, Kept
  <2> QED
    BY <2>1, <2>2, <2>3 DEF HandlerInv
<1>4. CalmInv'
  <2> SUFFICES ASSUME NEW a, a = Job.user PROVE CalmInv'
    OBVIOUS
  <2>1. ASSUME Job'.calm PROVE /\ Alone(a)' /\ Rows(a)' = Rows(a) /\ group'[a] = group[a]
                               /\ a \in attempts' => a \in attempts
    <3>1. a \in User /\ Alone(a) /\ a # next.user /\ a # next.by
      BY <1>0, <1>1, <2>1 DEF HandlerInv, AccountOf, CalmInv, CalmOf
    <3>2. a # job[w].user /\ a # job[w].by
      BY <3>1 DEF Alone
    <3>3. Alone(a)'
      BY <1>0, <1>1, <3>1 DEF Alone
    <3>4. Rows(a)' = Rows(a)
      BY <1>0, <3>1, <3>2 DEF Rows, Kept
    <3> QED
      BY <3>1, <3>2, <3>3, <3>4
  <2> QED
    BY <1>0, <1>1, <2>1, CalmStays
<1> QED
  BY <1>2, <1>3, <1>4 DEF DepartInv

\* The shapes a handler takes.
LEMMA IdleTyped ==
    /\ Idle \in Handler /\ Idle.step = "idle" /\ Idle.user = Nobody /\ Idle.by = Nobody
    /\ Idle.inst = {} /\ Idle.todo = {} /\ ~Idle.calm
BY DEF Idle, Handler, Step

LEMMA StepTyped ==
    ASSUME HandlerTypes, NEW w \in Worker, NEW step \in Step
    PROVE  LET next == [job[w] EXCEPT !.step = step] IN
           /\ next \in Handler /\ next.step = step
           /\ next.user = job[w].user /\ next.by = job[w].by
           /\ next.inst = job[w].inst /\ next.todo = job[w].todo /\ next.calm = job[w].calm
BY DEF HandlerTypes, Handler

LEMMA AfterTyped ==
    ASSUME HandlerTypes, NEW w \in Worker
    PROVE  /\ After(w) \in Handler /\ After(w).step = "next"
           /\ After(w).user = job[w].user /\ After(w).by = job[w].by
           /\ After(w).inst = {} /\ After(w).todo = job[w].todo /\ After(w).calm = job[w].calm
BY DEF HandlerTypes, Handler, After, Step

\* What becomes of a handler that is thrown out of a row.
LEMMA ThrownTyped ==
    ASSUME HandlerTypes, NEW w \in Worker, Thrown(w)
    PROVE  \E next \in {Idle, After(w)} : Put(w, next) /\ (w = "account" => next = Idle)
BY DEF Thrown, After

LEMMA OtherPuts ==
    ASSUME OwnerInv, DepartInv, NEW w \in Others, NEW next \in Handler, Put(w, next),
           create' = create, JobOf(w)', attempts' \subseteq User,
           \A i \in Instance : Kept(i) /\ (row'[i].owner # row[i].owner => row[i].owner = job[w].user),
           \A x \in User \ {job[w].user} : group'[x] = group[x],
           \A x \in User : x \notin {job[w].user, job[w].by} /\ x \in attempts' => x \in attempts
    PROVE  DepartInv'
<1>1. w \in Worker /\ w # "account" /\ HandlerTypes
  BY DEF Others, Worker, DepartInv
<1> QED
  BY <1>1, PutMoves, OtherMoves

LEMMA OthersDepart ==
    ASSUME OwnerInv, DepartInv,
           \/ Sweep \/ \E u \in User, i \in Instance : DeleteInstance(u, i)
           \/ \E w \in Others : Deletion(w)
    PROVE  DepartInv'
<1>0. /\ HandlerTypes /\ HandlerInv /\ OwnerTypes /\ CalmInv /\ Others \subseteq Worker
      /\ "account" \notin Others /\ "sweep" \in Others /\ "request" \in Others
      /\ job \in [Worker -> Handler] /\ attempts \subseteq User
  BY DEF DepartInv, OwnerInv, Others, Worker, HandlerTypes
<1>1. CASE Sweep
  <2> DEFINE todo == {i \in Instance : Expired(i)}
             next == [Idle EXCEPT !.step = "next", !.todo = todo]
  <2>1. next \in Handler /\ next.step = "next"
    BY DEF Idle, Handler, Step
  <2>2. Put("sweep", next) /\ UNCHANGED <<row, group, attempts, create>>
    BY <1>1 DEF Sweep
  <2> HIDE DEF next
  <2>3. JobOf("sweep")'
    BY <1>0, <2>1, <2>2, PutMoves DEF JobOf
  <2> QED
    BY <1>0, <2>1, <2>2, <2>3, OtherPuts DEF Kept
<1>2. ASSUME NEW u \in User, NEW i \in Instance, DeleteInstance(u, i) PROVE DepartInv'
  <2> DEFINE next == [Idle EXCEPT !.step = "take", !.by = u, !.user = row[i].owner, !.inst = {i}]
  <2>1. next \in Handler /\ next.step = "take" /\ next.inst = {i}
    BY <1>0 DEF Idle, Handler, Step, OwnerTypes, Row
  <2>2. Put("request", next) /\ UNCHANGED <<row, group, attempts, create>>
    BY <1>2 DEF DeleteInstance
  <2> HIDE DEF next
  <2>3. JobOf("request")'
    BY <1>0, <2>1, <2>2, PutMoves DEF JobOf
  <2> QED
    BY <1>0, <2>1, <2>2, <2>3, OtherPuts DEF Kept
<1>3. ASSUME NEW w \in Others, Deletion(w) PROVE DepartInv'
  <2>0. w \in Worker /\ w # "account" /\ JobOf(w) /\ job[w] \in Handler
    BY <1>0 DEF HandlerInv
  <2>1. CASE NextRow(w) \/ NoMoreRows(w)
    <3>1. /\ UNCHANGED <<row, group, attempts, create>>
          /\ job' = [job EXCEPT ![w] = job'[w]]
          /\ job'[w] \in Handler /\ JobOf(w)'
          /\ job'[w].user \in {job[w].user, Nobody} /\ job'[w].by \in {job[w].by, Nobody}
      <4>1. CASE NextRow(w)
        <5>1. PICK i \in job[w].todo :
                job' = [job EXCEPT ![w].step = "take", ![w].inst = {i}, ![w].todo = @ \ {i}]
          BY <4>1 DEF NextRow
        <5> DEFINE todo == job[w].todo \ {i}
                   new == [job[w] EXCEPT !.step = "take", !.inst = {i}, !.todo = todo]
        <5>2. job' = [job EXCEPT ![w] = new] /\ i \in Instance /\ todo \subseteq Instance
          BY <1>0, <2>0, <5>1 DEF Handler
        <5> HIDE DEF todo
        <5>3. new \in Handler /\ new.step = "take" /\ new.inst = {i} /\ new.user = job[w].user
              /\ new.by = job[w].by
          BY <2>0, <5>2 DEF Handler, Step
        <5> HIDE DEF new
        <5> QED
          BY <1>0, <2>0, <4>1, <5>2, <5>3 DEF NextRow, JobOf
      <4>2. CASE NoMoreRows(w)
        <5>1. job' = [job EXCEPT ![w] = IF w = "sweep" THEN Idle ELSE [job[w] EXCEPT !.step = "users"]]
          BY <1>0, <2>0, <4>2 DEF NoMoreRows
        <5> DEFINE gone == [job[w] EXCEPT !.step = "users"]
                   new == IF w = "sweep" THEN Idle ELSE gone
        <5>2. gone \in Handler /\ gone.step = "users" /\ gone.user = job[w].user /\ gone.by = job[w].by
          BY <2>0 DEF Handler, Step
        <5>3. job' = [job EXCEPT ![w] = new]
          BY <5>1
        <5> HIDE DEF gone
        <5>4. /\ new \in Handler
              /\ (new = Idle \/ (new.step = "users" /\ new.user = job[w].user /\ new.by = job[w].by))
          BY <5>2, IdleTyped
        <5> HIDE DEF new
        <5> QED
          BY <1>0, <2>0, <4>2, <5>3, <5>4, IdleTyped DEF NoMoreRows, JobOf
      <4> QED
        BY <2>1, <4>1, <4>2
    <3>2. /\ job' \in [Worker -> Handler] /\ \A v \in Worker \ {w} : job'[v] = job[v]
          /\ Job' = Job /\ \A v \in Worker \ {w} : Stays(v)
      BY <1>0, <2>0, <3>1 DEF Job, Stays, Worker
    <3>3. Job.calm => Job.user # job'[w].user /\ Job.user # job'[w].by
      BY <1>0, <3>1, AccountAssumption
         DEF CalmInv, CalmOf, Alone, HandlerInv, AccountOf, AccountAssumption
    <3> QED
      BY <1>0, <3>1, <3>2, <3>3, OtherMoves DEF Kept
  <2>2. CASE TakeRow(w)
    <3>1. PICK i \in Instance : job[w].inst = {i} /\ i = CHOOSE x \in job[w].inst : TRUE
      BY <2>0, <2>2 DEF TakeRow, JobOf
    <3>2. UNCHANGED <<row, group, attempts, create>>
          /\ (Thrown(w) \/ Put(w, [job[w] EXCEPT !.step = "vm", !.user = row[i].owner]))
      BY <2>2, <3>1 DEF TakeRow
    <3>3. PICK next \in Handler : Put(w, next) /\ (job'[w] = next => JobOf(w)')
      <4>1. CASE Thrown(w)
        <5>1. PICK next \in {Idle, After(w)} : Put(w, next)
          BY <1>0, <2>0, <4>1, ThrownTyped
        <5>2. next \in Handler /\ (job'[w] = next => JobOf(w)')
          BY <1>0, <2>0, <5>1, IdleTyped, AfterTyped DEF JobOf
        <5> QED
          BY <5>1, <5>2
      <4>2. CASE Put(w, [job[w] EXCEPT !.step = "vm", !.user = row[i].owner])
        <5> DEFINE o == row[i].owner
                   next == [job[w] EXCEPT !.step = "vm", !.user = o]
        <5>1. o \in User \cup {Nobody} /\ Put(w, next)
          BY <1>0, <4>2 DEF OwnerTypes, Row
        <5>2. next \in Handler /\ next.step = "vm" /\ next.user = row[i].owner /\ next.inst = {i}
          <6> HIDE DEF o
          <6>1. next \in Handler /\ next.step = "vm" /\ next.user = o /\ next.inst = job[w].inst
            BY <2>0, <5>1 DEF Handler, Step
          <6> QED
            BY <3>1, <6>1 DEF o
        <5> HIDE DEF next
        <5>3. job'[w] = next => JobOf(w)'
          BY <3>2, <5>2 DEF JobOf
        <5> QED
          BY <5>1, <5>2, <5>3
      <4> QED
        BY <3>2, <4>1, <4>2
    <3> QED
      BY <1>0, <2>0, <3>2, <3>3, OtherPuts, PutMoves DEF Kept
  <2>3. CASE RemoveVM(w)
    <3>1. UNCHANGED <<row, group, attempts, create>> /\ job[w].step = "vm"
          /\ (Thrown(w) \/ Put(w, [job[w] EXCEPT !.step = "row"]))
      BY <2>3 DEF RemoveVM
    <3>2. PICK next \in Handler : Put(w, next) /\ (job'[w] = next => JobOf(w)')
      <4>1. CASE Thrown(w)
        <5>1. PICK next \in {Idle, After(w)} : Put(w, next)
          BY <1>0, <2>0, <4>1, ThrownTyped
        <5>2. next \in Handler /\ (job'[w] = next => JobOf(w)')
          BY <1>0, <2>0, <5>1, IdleTyped, AfterTyped DEF JobOf
        <5> QED
          BY <5>1, <5>2
      <4>2. CASE Put(w, [job[w] EXCEPT !.step = "row"])
        <5> DEFINE next == [job[w] EXCEPT !.step = "row"]
        <5>1. next \in Handler /\ next.step = "row" /\ next.user = job[w].user /\ next.inst = job[w].inst
          BY <2>0 DEF Handler, Step
        <5> HIDE DEF next
        <5>2. job'[w] = next => JobOf(w)'
          BY <2>0, <3>1, <5>1 DEF JobOf
        <5> QED
          BY <4>2, <5>1, <5>2 DEF next
      <4> QED
        BY <3>1, <4>1, <4>2
    <3> QED
      BY <1>0, <2>0, <3>1, <3>2, OtherPuts, PutMoves DEF Kept
  <2>4. CASE RemoveRow(w)
    <3> DEFINE next == [job[w] EXCEPT !.step = "release"]
    <3>1. /\ Put(w, next) /\ UNCHANGED <<attempts, create>> /\ job[w].step = "row"
          /\ row' = [i \in Instance |-> IF i \in job[w].inst THEN NoRow ELSE row[i]]
          /\ group' = [group EXCEPT ![job[w].user] =
                IF @ = "planned" /\ Rows(job[w].user) \subseteq job[w].inst THEN "none" ELSE @]
      BY <2>4 DEF RemoveRow
    <3>2. next \in Handler /\ next.step = "release"
      BY <2>0 DEF Handler, Step
    <3> HIDE DEF next
    <3>3. JobOf(w)'
      BY <1>0, <2>0, <3>1, <3>2, PutMoves DEF JobOf
    <3>4. \A i \in Instance : Kept(i) /\ (row'[i].owner # row[i].owner => row[i].owner = job[w].user)
      BY <2>0, <3>1 DEF Kept, NoRow, JobOf
    <3>5. \A x \in User \ {job[w].user} : group'[x] = group[x]
      BY <1>0, <3>1 DEF OwnerTypes
    <3> QED
      BY <1>0, <3>1, <3>2, <3>3, <3>4, <3>5, OtherPuts
  <2>5. CASE Release(w) \/ Reconcile(w) \/ DeleteRecord(w)
    <3>1. /\ UNCHANGED <<row, create>>
          /\ \A x \in User \ {job[w].user} : group'[x] = group[x]
          /\ attempts' \subseteq attempts \cup ({job[w].user, job[w].by} \cap User)
      <4>1. CASE Reconcile(w)
        <5>1. Requester(w) \subseteq {job[w].user, job[w].by}
          BY DEF Requester, Others
        <5> QED
          BY <1>0, <4>1, <5>1 DEF Reconcile, OwnerTypes
      <4>2. CASE Release(w) \/ DeleteRecord(w)
        BY <1>0, <4>2 DEF Release, DeleteRecord, OwnerTypes
      <4> QED
        BY <2>5, <4>1, <4>2
    <3>2. \/ \E step \in {"reconcile", "record"} : Put(w, [job[w] EXCEPT !.step = step])
          \/ Put(w, Done(w)) \/ Put(w, [Done(w) EXCEPT !.calm = FALSE])
      BY <2>5 DEF Release, Reconcile, DeleteRecord
    <3>3. PICK next \in Handler : Put(w, next) /\ (job'[w] = next => JobOf(w)')
      <4>1. ASSUME NEW step \in {"reconcile", "record"}, Put(w, [job[w] EXCEPT !.step = step])
            PROVE  \E next \in Handler : Put(w, next) /\ (job'[w] = next => JobOf(w)')
        <5> DEFINE next == [job[w] EXCEPT !.step = step]
        <5>1. next \in Handler /\ next.step = step
          BY <2>0 DEF Handler, Step
        <5> HIDE DEF next
        <5>2. job'[w] = next => JobOf(w)'
          BY <5>1 DEF JobOf
        <5> QED
          BY <4>1, <5>1, <5>2 DEF next
      <4>2. ASSUME NEW next \in Handler, next.step \in {"idle", "next"},
                   next.step = "idle" => next.user = Nobody /\ next.by = Nobody, job'[w] = next
            PROVE  JobOf(w)'
        BY <4>2 DEF JobOf
      <4>3. /\ Done(w) \in Handler /\ Done(w).step \in {"idle", "next"}
            /\ Done(w).step = "idle" => Done(w).user = Nobody /\ Done(w).by = Nobody
        BY <1>0, <2>0, IdleTyped, AfterTyped DEF Done
      <4>4. CASE Put(w, Done(w))
        BY <4>2, <4>3, <4>4
      <4>5. CASE Put(w, [Done(w) EXCEPT !.calm = FALSE])
        <5> DEFINE next == [Done(w) EXCEPT !.calm = FALSE]
        <5>1. next \in Handler /\ next.step = Done(w).step /\ next.user = Done(w).user /\ next.by = Done(w).by
          BY <4>3 DEF Handler
        <5> HIDE DEF next
        <5> QED
          BY <4>2, <4>3, <4>5, <5>1 DEF next
      <4> QED
        BY <3>2, <4>1, <4>4, <4>5
    <3> QED
      BY <1>0, <2>0, <3>1, <3>3, OtherPuts, PutMoves DEF Kept
  <2> QED
    BY <1>3, <2>1, <2>2, <2>3, <2>4, <2>5 DEF Deletion
<1> QED
  BY <1>1, <1>2, <1>3

-----------------------------------------------------------------------------
\* The deletion itself, one step after the other.

LEMMA AccountMoves ==
    ASSUME DepartInv, NEW next \in Handler, create' = create, attempts' \subseteq User,
           \/ Put("account", next)
           \/ job' = [job EXCEPT !["account"] = next],
           \A i \in Instance : Kept(i),
           Job' = next => JobOf("account")' /\ AccountOf' /\ CalmInv'
    PROVE  DepartInv'
<1>0. /\ "account" \in Worker /\ "account" \notin Others /\ Worker = Others \cup {"account"}
      /\ HandlerTypes /\ HandlerInv /\ job \in [Worker -> Handler]
      /\ create.inst \subseteq Instance
      /\ \A v \in Worker : job[v].inst \subseteq Instance
  BY DEF Worker, Others, DepartInv, HandlerTypes, Handler, Creating
<1>1. job' \in [Worker -> Handler] /\ Job' = next /\ \A v \in Others : job'[v] = job[v]
  BY <1>0, PutMoves DEF Job
<1>2. HandlerTypes'
  BY <1>0, <1>1 DEF HandlerTypes
<1>3. HandlerInv'
  <2>1. \A v \in Others : JobOf(v)'
    BY <1>0, <1>1, JobStays DEF HandlerInv, Stays
  <2> QED
    BY <1>0, <1>1, <2>1 DEF HandlerInv, Kept
<1> QED
  BY <1>1, <1>2, <1>3 DEF DepartInv

\* Whoever was not there stays away.
LEMMA StillAlone ==
    ASSUME DepartInv, NEW next \in Handler, create' = create,
           \/ Put("account", next)
           \/ job' = [job EXCEPT !["account"] = next],
           NEW u
    PROVE  Job' = next /\ Alone(u)' = Alone(u)
<1>0. "account" \in Worker /\ "account" \notin Others /\ Others \subseteq Worker
      /\ HandlerTypes /\ job \in [Worker -> Handler]
  BY DEF Worker, Others, DepartInv, HandlerTypes
<1>1. Job' = next /\ \A v \in Others : job'[v] = job[v]
  BY <1>0, PutMoves DEF Job
<1> QED
  BY <1>1 DEF Alone

LEMMA AccountDeparts ==
    ASSUME OwnerInv, DepartInv, AccountStep \/ \E u \in User : DeleteUser(u)
    PROVE  DepartInv'
<1>0. /\ HandlerTypes /\ HandlerInv /\ OwnerTypes /\ CalmInv /\ "account" \in Worker
      /\ job \in [Worker -> Handler] /\ attempts \subseteq User
      /\ Job \in Handler /\ JobOf("account") /\ AccountOf /\ Nobody \notin User
  BY AccountAssumption DEF DepartInv, OwnerInv, Worker, HandlerTypes, HandlerInv, Job, AccountAssumption
<1>1. ASSUME NEW u \in User, DeleteUser(u) PROVE DepartInv'
  <2> DEFINE c == /\ ~Stuck(u) /\ create.user # u
                  /\ \A w \in {"sweep", "request"} : job[w].step = "idle"
             next == [Idle EXCEPT !.step = "reattribute", !.user = u, !.calm = c]
  <2>1. Put("account", next) /\ UNCHANGED <<row, group, attempts, create>>
    BY <1>1 DEF DeleteUser
  <2>2. next \in Handler /\ next.step = "reattribute" /\ next.user = u /\ next.inst = {}
        /\ next.todo = {} /\ next.calm = c
    <3>1. c \in BOOLEAN
      OBVIOUS
    <3> HIDE DEF c
    <3> QED
      BY <3>1 DEF Idle, Handler, Step
  <2>3. c => Alone(u) /\ (group[u] = "none" \/ Rows(u) # {})
    <3>1. \A w \in Others : job[w].step = "idle" => job[w].user = Nobody /\ job[w].by = Nobody
      BY <1>0 DEF HandlerInv, JobOf, Others, Worker
    <3> QED
      BY <1>0, <3>1 DEF Alone, Stuck, Others
  <2> HIDE DEF next, c
  <2>4. ASSUME Job' = next PROVE JobOf("account")' /\ AccountOf' /\ CalmInv'
    <3>1. JobOf("account")' /\ AccountOf'
      BY <2>2, <2>4 DEF JobOf, AccountOf, Job
    <3>2. Alone(u)' = Alone(u) /\ Rows(u)' = Rows(u)
      BY <2>1, <2>2, StillAlone DEF Rows
    <3>3. next.calm => CalmOf(u)'
      BY <2>1, <2>2, <2>3, <2>4, <3>2 DEF CalmOf, GroupOf, Listed
    <3> QED
      BY <2>2, <2>4, <3>1, <3>3 DEF CalmInv
  <2> QED
    BY <1>0, <2>1, <2>2, <2>4, AccountMoves DEF Kept
<1>2. CASE Reattribute \/ GetAllForUser
  <2> SUFFICES ASSUME NEW u, u = Job.user PROVE DepartInv'
    OBVIOUS
  <2>1. PICK next \in Handler :
            /\ job' = [job EXCEPT !["account"] = next]
            /\ next.user = u /\ next.calm = Job.calm /\ next.inst = Job.inst
            /\ \/ next.step = "list" /\ next.todo = Job.todo
               \/ next.step = "next" /\ next.todo = Rows(u)
            /\ next.step = "next" => Job.step = "list" /\ attempts' = attempts
            /\ next.step = "list" => attempts' = attempts \ {u} /\ Job.step = "reattribute"
    <3>1. CASE Reattribute
      <4> DEFINE next == [job["account"] EXCEPT !.step = "list"]
      <4>1. next \in Handler /\ next.user = u /\ next.calm = Job.calm /\ next.inst = Job.inst
            /\ next.todo = Job.todo /\ next.step = "list"
        BY <1>0 DEF Handler, Step, Job
      <4>2. job' = [job EXCEPT !["account"] = next] /\ attempts' = attempts \ {u} /\ Job.step = "reattribute"
        BY <1>0, <3>1 DEF Reattribute, Job
      <4> HIDE DEF next
      <4> QED
        BY <4>1, <4>2
    <3>2. CASE GetAllForUser
      <4> DEFINE todo == Rows(u)
                 next == [job["account"] EXCEPT !.step = "next", !.todo = todo]
      <4>1. job' = [job EXCEPT !["account"] = next] /\ attempts' = attempts /\ Job.step = "list"
        BY <1>0, <3>2 DEF GetAllForUser, Job
      <4>2. todo \subseteq Instance
        BY DEF Rows
      <4> HIDE DEF todo
      <4>3. next \in Handler /\ next.user = u /\ next.calm = Job.calm /\ next.inst = Job.inst
            /\ next.todo = todo /\ next.step = "next"
        BY <1>0, <4>2 DEF Handler, Step, Job
      <4> HIDE DEF next
      <4> QED
        BY <4>1, <4>3 DEF todo
    <3> QED
      BY <1>2, <3>1, <3>2
  <2>2. UNCHANGED <<row, group, create>> /\ attempts' \subseteq User
    BY <1>0, <1>2 DEF Reattribute, GetAllForUser
  <2>3. Job' = next /\ Alone(u)' = Alone(u) /\ Rows(u)' = Rows(u)
    BY <2>1, <2>2, StillAlone DEF Rows
  <2>4. JobOf("account")'
    BY <2>1, <2>3 DEF JobOf, Job
  <2>5. AccountOf'
    BY <1>0, <2>1, <2>2, <2>3 DEF AccountOf, Rows
  <2>6. CalmInv'
    <3>1. Job.calm => CalmOf(u) /\ u \in User
      BY <1>0 DEF CalmInv, AccountOf
    <3> QED
      BY <2>1, <2>2, <2>3, <3>1 DEF CalmInv, CalmOf, GroupOf, Listed, Ahead
  <2> QED
    BY <1>0, <2>1, <2>2, <2>3, <2>4, <2>5, <2>6, AccountMoves DEF Kept
<1>3. CASE DeleteAccount
  <2>1. job' = [job EXCEPT !["account"] = Idle] /\ UNCHANGED <<attempts, create>>
    BY <1>3 DEF DeleteAccount
  <2>2. \A i \in Instance : Kept(i)
    <3>1. \A i \in Instance : row'[i] = row[i] \/ row'[i] = [row[i] EXCEPT !.owner = Nobody]
      BY <1>3 DEF DeleteAccount
    <3> QED
      BY <1>0, <3>1 DEF OwnerTypes, Row, Kept
  <2>3. ASSUME Job' = Idle PROVE JobOf("account")' /\ AccountOf' /\ CalmInv'
    BY <2>3, IdleTyped DEF JobOf, AccountOf, CalmInv, Job
  <2> QED
    BY <1>0, <2>1, <2>2, <2>3, IdleTyped, AccountMoves
<1> QED
  BY <1>1, <1>2, <1>3 DEF AccountStep

\* A calm deletion has the user it began with; the next row is that user's.
LEMMA RowsDepart ==
    ASSUME OwnerInv, DepartInv, NextRow("account") \/ NoMoreRows("account")
                                \/ TakeRow("account") \/ RemoveVM("account")
    PROVE  DepartInv'
<1>0. /\ HandlerTypes /\ HandlerInv /\ OwnerTypes /\ CalmInv /\ "account" \in Worker
      /\ job \in [Worker -> Handler] /\ attempts \subseteq User
      /\ Job \in Handler /\ JobOf("account") /\ AccountOf /\ Nobody \notin User
      /\ UNCHANGED <<row, group, attempts, create>>
  BY AccountAssumption DEF DepartInv, OwnerInv, Worker, HandlerTypes, HandlerInv, Job, AccountAssumption,
     NextRow, NoMoreRows, TakeRow, RemoveVM
<1> SUFFICES ASSUME NEW u, u = Job.user PROVE DepartInv'
  OBVIOUS
<1>1. PICK next \in Handler :
          /\ Put("account", next) \/ job' = [job EXCEPT !["account"] = next]
          /\ \/ next = Idle
             \/ /\ next.user = u /\ next.calm = Job.calm
                /\ \/ /\ Job.step = "next" /\ next.step = "take"
                      /\ \E i \in Job.todo : next.inst = {i} /\ next.todo = Job.todo \ {i}
                   \/ /\ Job.step = "next" /\ next.step = "users" /\ Job.todo = {}
                      /\ next.inst = Job.inst /\ next.todo = {}
                   \/ /\ Job.step = "take" /\ next.step = "vm"
                      /\ next.inst = Job.inst /\ next.todo = Job.todo
                   \/ /\ Job.step = "vm" /\ next.step = "row"
                      /\ next.inst = Job.inst /\ next.todo = Job.todo
  <2>1. CASE NextRow("account")
    <3>1. PICK i \in Job.todo :
            job' = [job EXCEPT !["account"].step = "take", !["account"].inst = {i},
                               !["account"].todo = @ \ {i}]
      BY <2>1 DEF NextRow, Job
    <3> DEFINE todo == Job.todo \ {i}
               next == [Job EXCEPT !.step = "take", !.inst = {i}, !.todo = todo]
    <3>2. job' = [job EXCEPT !["account"] = next] /\ i \in Instance /\ todo \subseteq Instance
      BY <1>0, <3>1 DEF Handler, Job
    <3> HIDE DEF todo
    <3>3. next \in Handler /\ next.step = "take" /\ next.user = u /\ next.calm = Job.calm
          /\ next.inst = {i} /\ next.todo = todo
      BY <1>0, <3>2 DEF Handler, Step
    <3>4. Job.step = "next"
      BY <2>1 DEF NextRow, Job
    <3> HIDE DEF next
    <3> QED
      BY <3>2, <3>3, <3>4 DEF todo
  <2>2. CASE NoMoreRows("account")
    <3> DEFINE next == [Job EXCEPT !.step = "users"]
    <3>1. job' = [job EXCEPT !["account"] = next] /\ Job.step = "next" /\ Job.todo = {}
      BY <1>0, <2>2 DEF NoMoreRows, Job
    <3>2. next \in Handler /\ next.step = "users" /\ next.user = u /\ next.calm = Job.calm
          /\ next.inst = Job.inst /\ next.todo = Job.todo
      BY <1>0 DEF Handler, Step
    <3> HIDE DEF next
    <3> QED
      BY <3>1, <3>2
  <2>3. CASE Thrown("account")
    <3>1. Put("account", Idle)
      BY <1>0, <2>3, ThrownTyped
    <3> QED
      BY <3>1, IdleTyped
  <2>4. CASE TakeRow("account") /\ ~Thrown("account")
    <3>1. PICK i \in Instance : Job.inst = {i} /\ i = CHOOSE x \in job["account"].inst : TRUE
      BY <1>0, <2>4 DEF TakeRow, JobOf, Job
    <3>2. /\ row[i] # NoRow /\ Job.step = "take"
          /\ Put("account", [Job EXCEPT !.step = "vm", !.user = row[i].owner])
      <4>1. /\ job["account"].step = "take"
            /\ IF row[i] = NoRow THEN Thrown("account")
               ELSE Put("account", [job["account"] EXCEPT !.step = "vm", !.user = row[i].owner])
        BY <2>4, <3>1 DEF TakeRow
      <4> QED
        BY <2>4, <4>1 DEF Job
    <3>3. row[i].owner = u
      BY <1>0, <3>1, <3>2 DEF OwnerInv, OwnerTypes, Owned, AccountOf
    <3> DEFINE next == [Job EXCEPT !.step = "vm", !.user = u]
    <3>4. next \in Handler /\ next.step = "vm" /\ next.user = u /\ next.calm = Job.calm
          /\ next.inst = Job.inst /\ next.todo = Job.todo
      BY <1>0 DEF Handler, Step
    <3>5. Put("account", next)
      BY <3>2, <3>3
    <3> HIDE DEF next
    <3> QED
      BY <3>2, <3>4, <3>5
  <2>5. CASE RemoveVM("account") /\ ~Thrown("account")
    <3> DEFINE next == [Job EXCEPT !.step = "row"]
    <3>1. Put("account", next) /\ Job.step = "vm"
      BY <2>5 DEF RemoveVM, Job
    <3>2. next \in Handler /\ next.step = "row" /\ next.user = u /\ next.calm = Job.calm
          /\ next.inst = Job.inst /\ next.todo = Job.todo
      BY <1>0 DEF Handler, Step
    <3> HIDE DEF next
    <3> QED
      BY <3>1, <3>2
  <2> QED
    BY <2>1, <2>2, <2>3, <2>4, <2>5
<1>2. Job' = next /\ Alone(u)' = Alone(u) /\ Rows(u)' = Rows(u)
  BY <1>0, <1>1, StillAlone DEF Rows
<1>3. JobOf("account")'
  BY <1>0, <1>1, <1>2, IdleTyped DEF JobOf, AccountOf, Job, Handler
<1>4. AccountOf'
  BY <1>0, <1>1, <1>2, IdleTyped DEF AccountOf
<1>5. CalmInv'
  <2>1. Job.calm => CalmOf(u) /\ u \in User
    BY <1>0 DEF CalmInv, AccountOf
  <2> QED
    BY <1>0, <1>1, <1>2, <2>1, IdleTyped DEF CalmInv, CalmOf, GroupOf, Listed, Ahead
<1> QED
  BY <1>0, <1>1, <1>2, <1>3, <1>4, <1>5, AccountMoves DEF Kept

\* Its row gone, the group follows: planned, it goes with the row; otherwise it is
\* released, unless rows are left.
LEMMA GroupDeparts ==
    ASSUME OwnerInv, DepartInv, RemoveRow("account") \/ Release("account")
                                \/ Reconcile("account") \/ DeleteRecord("account")
    PROVE  DepartInv'
<1>0. /\ HandlerTypes /\ HandlerInv /\ OwnerTypes /\ CalmInv /\ "account" \in Worker
      /\ job \in [Worker -> Handler] /\ attempts \subseteq User
      /\ Job \in Handler /\ JobOf("account") /\ AccountOf /\ Nobody \notin User
  BY AccountAssumption DEF DepartInv, OwnerInv, Worker, HandlerTypes, HandlerInv, Job, AccountAssumption
<1> SUFFICES ASSUME NEW u, u = Job.user PROVE DepartInv'
  OBVIOUS
<1>1. ASSUME NEW step \in {"release", "reconcile", "record"}
      PROVE  LET next == [Job EXCEPT !.step = step] IN
             /\ next \in Handler /\ next.step = step /\ next.user = u
             /\ next.calm = Job.calm /\ next.inst = Job.inst /\ next.todo = Job.todo
  BY <1>0 DEF Handler, Step
<1>2. LET next == Done("account") IN
      /\ next \in Handler /\ next.step = "next" /\ next.user = u
      /\ next.calm = Job.calm /\ next.inst = {} /\ next.todo = Job.todo
  BY <1>0, AfterTyped DEF Done, Job
<1>3. Job.calm => CalmOf(u) /\ u \in User
  BY <1>0 DEF CalmInv, AccountOf
<1>4. CASE RemoveRow("account")
  <2> DEFINE next == [Job EXCEPT !.step = "release"]
  <2>1. /\ Put("account", next) /\ UNCHANGED <<attempts, create>> /\ Job.step = "row"
        /\ row' = [i \in Instance |-> IF i \in Job.inst THEN NoRow ELSE row[i]]
        /\ group' = [group EXCEPT ![u] = IF @ = "planned" /\ Rows(u) \subseteq Job.inst THEN "none" ELSE @]
    BY <1>4 DEF RemoveRow, Job
  <2>2. next \in Handler /\ next.step = "release" /\ next.user = u
        /\ next.calm = Job.calm /\ next.inst = Job.inst /\ next.todo = Job.todo
    BY <1>1
  <2> HIDE DEF next
  <2>3. Job' = next /\ Alone(u)' = Alone(u)
    BY <2>1, <2>2, StillAlone
  <2>4. \A i \in Instance : Kept(i) /\ row'[i].owner = IF i \in Job.inst THEN Nobody ELSE row[i].owner
    BY <2>1 DEF Kept, NoRow
  <2>5. AccountOf' /\ JobOf("account")'
    BY <1>0, <2>2, <2>3, <2>4 DEF AccountOf, JobOf, Job, Handler
  <2>6. CalmInv'
    <3>1. u \in User => Rows(u)' = Rows(u) \ Job.inst
      BY <1>0, <2>4 DEF Rows
    <3>2. u \in User => group'[u] = IF group[u] = "planned" /\ Rows(u) \subseteq Job.inst THEN "none" ELSE group[u]
      BY <1>0, <2>1 DEF OwnerTypes
    <3> QED
      BY <1>3, <2>1, <2>2, <2>3, <3>1, <3>2 DEF CalmInv, CalmOf, GroupOf, Listed, Ahead
  <2> QED
    BY <1>0, <2>1, <2>2, <2>4, <2>5, <2>6, AccountMoves
<1>5. CASE Release("account")
  <2>1. PICK next \in Handler :
          /\ Put("account", next) /\ next.user = u /\ next.calm = Job.calm /\ next.todo = Job.todo
          /\ next.inst \subseteq Job.inst /\ Job.step = "release"
          /\ \/ /\ next.step = "reconcile" /\ Rows(u) = {}
                /\ group[u] \in {"creating", "active", "error", "deleting"}
                /\ group' = [group EXCEPT ![u] = "deleting"]
             \/ /\ next.step = "next" /\ group' = group
                /\ ~(Rows(u) = {} /\ group[u] \in {"creating", "active", "error", "deleting"})
    <3>1. CASE Rows(u) = {} /\ group[u] \in {"creating", "active", "error", "deleting"}
      BY <1>1, <1>5, <3>1 DEF Release, Job
    <3>2. CASE ~(Rows(u) = {} /\ group[u] \in {"creating", "active", "error", "deleting"})
      BY <1>2, <1>5, <3>2 DEF Release, Job
    <3> QED
      BY <3>1, <3>2
  <2>2. UNCHANGED <<row, attempts, create>>
    BY <1>5 DEF Release
  <2>3. Job' = next /\ Alone(u)' = Alone(u) /\ Rows(u)' = Rows(u)
    BY <2>1, <2>2, StillAlone DEF Rows
  <2>4. AccountOf' /\ JobOf("account")'
    BY <1>0, <2>1, <2>2, <2>3 DEF AccountOf, JobOf, Job
  <2>5. CalmInv'
    <3>1. u \in User => group[u] \in {"none", "planned", "creating", "active", "error", "deleting"}
          /\ (next.step = "reconcile" => group'[u] = "deleting")
      BY <1>0, <2>1 DEF OwnerTypes
    <3> QED
      BY <1>3, <2>1, <2>2, <2>3, <3>1 DEF CalmInv, CalmOf, GroupOf, Listed, Ahead
  <2> QED
    BY <1>0, <2>1, <2>2, <2>4, <2>5, AccountMoves DEF Kept
<1>6. CASE Reconcile("account")
  <2>1. UNCHANGED <<row, group, create>> /\ attempts' = attempts /\ Job.step = "reconcile"
    BY <1>6 DEF Reconcile, Requester, Job
  <2>2. PICK next \in Handler :
          /\ Put("account", next) /\ next.user = u /\ next.todo = Job.todo
          /\ next.inst \subseteq Job.inst
          /\ \/ ~next.calm /\ next.step = "next"
             \/ next.calm = Job.calm /\ next.step = "record"
    <3>1. \/ Put("account", [Job EXCEPT !.step = "record"])
          \/ Put("account", [Done("account") EXCEPT !.calm = FALSE])
      BY <1>6 DEF Reconcile, Requester, Job
    <3>2. CASE Put("account", [Job EXCEPT !.step = "record"])
      BY <1>1, <3>2
    <3>3. CASE Put("account", [Done("account") EXCEPT !.calm = FALSE])
      <4> DEFINE next == [Done("account") EXCEPT !.calm = FALSE]
      <4>1. next \in Handler /\ next.user = u /\ next.todo = Job.todo /\ next.inst = {}
            /\ ~next.calm /\ next.step = "next"
        BY <1>2 DEF Handler
      <4>2. Put("account", next)
        BY <3>3
      <4> HIDE DEF next
      <4> QED
        BY <4>1, <4>2
    <3> QED
      BY <3>1, <3>2, <3>3
  <2>3. Job' = next /\ Alone(u)' = Alone(u) /\ Rows(u)' = Rows(u)
    BY <2>1, <2>2, StillAlone DEF Rows
  <2>4. AccountOf' /\ JobOf("account")'
    BY <1>0, <1>3, <2>1, <2>2, <2>3 DEF AccountOf, JobOf, Job
  <2>5. CalmInv'
    BY <1>3, <2>1, <2>2, <2>3 DEF CalmInv, CalmOf, GroupOf, Listed, Ahead
  <2> QED
    BY <1>0, <2>1, <2>2, <2>4, <2>5, AccountMoves DEF Kept
<1>7. CASE DeleteRecord("account")
  <2> DEFINE next == Done("account")
  <2>1. /\ Put("account", next) /\ UNCHANGED <<row, attempts, create>> /\ Job.step = "record"
        /\ group' = [group EXCEPT ![u] = IF @ = "deleting" /\ Rows(u) = {} THEN "none" ELSE @]
    BY <1>7 DEF DeleteRecord, Job
  <2>2. next \in Handler /\ next.step = "next" /\ next.user = u
        /\ next.calm = Job.calm /\ next.inst = {} /\ next.todo = Job.todo
    BY <1>2
  <2> HIDE DEF next
  <2>3. Job' = next /\ Alone(u)' = Alone(u) /\ Rows(u)' = Rows(u)
    BY <2>1, <2>2, StillAlone DEF Rows
  <2>4. AccountOf' /\ JobOf("account")'
    BY <1>0, <2>1, <2>2, <2>3 DEF AccountOf, JobOf, Job
  <2>5. CalmInv'
    <3>1. u \in User => group'[u] = IF group[u] = "deleting" /\ Rows(u) = {} THEN "none" ELSE group[u]
      BY <1>0, <2>1 DEF OwnerTypes
    <3> QED
      BY <1>3, <2>1, <2>2, <2>3, <3>1 DEF CalmInv, CalmOf, GroupOf, Listed, Ahead
  <2> QED
    BY <1>0, <2>1, <2>2, <2>4, <2>5, AccountMoves DEF Kept
<1> QED
  BY <1>4, <1>5, <1>6, <1>7

LEMMA DepartHolds == Spec => [](OwnerInv /\ DepartInv)
<1>1. Init => OwnerInv /\ DepartInv
  <2> SUFFICES ASSUME Init PROVE DepartInv
    BY OwnersInit
  <2>1. HandlerTypes
    BY IdleTyped DEF Init, HandlerTypes, NoCreate, Creating
  <2>2. HandlerInv /\ CalmInv
    BY IdleTyped DEF Init, HandlerInv, JobOf, AccountOf, CalmInv, NoCreate, Job, Worker
  <2> QED
    BY <2>1, <2>2 DEF DepartInv
<1>2. OwnerInv /\ DepartInv /\ [Next]_vars => OwnerInv' /\ DepartInv'
  <2> SUFFICES ASSUME OwnerInv, DepartInv, [Next]_vars PROVE DepartInv'
    BY OwnersStep
  <2>1. CASE Tick \/ \E i \in Instance : SetExpirable(i) \/ \E u \in User : Renew(u, i)
    <3>1. UNCHANGED <<group, attempts, job, create>>
      BY <2>1 DEF Tick, SetExpirable, Renew
    <3> QED
      BY <2>1, <3>1, DeadlineOwners, UsersDepart
  <2>2. CASE \/ UNCHANGED vars
             \/ \E u \in User : PasswordLogin(u) \/ SsoLogin(u) \/ UpdateRole(u) \/ Retire(u)
    <3>1. UNCHANGED <<row, group, attempts, job, create>>
      BY <2>2 DEF PasswordLogin, SsoLogin, UpdateRole, Retire, vars
    <3> QED
      BY <3>1, UsersDepart
  <2>3. CASE Creation \/ \E u \in User : Claim(u)
    BY <2>3, CreateDeparts
  <2>4. CASE AccountStep \/ \E u \in User : DeleteUser(u)
    BY <2>4, AccountDeparts
  <2>5. CASE Deletion("account")
    BY <2>5, RowsDepart, GroupDeparts DEF Deletion
  <2>6. CASE \/ Sweep \/ \E u \in User, i \in Instance : DeleteInstance(u, i)
             \/ \E w \in Others : Deletion(w)
    BY <2>6, OthersDepart
  <2> QED
    BY <2>1, <2>2, <2>3, <2>4, <2>5, <2>6 DEF Next, Worker, Others
<1> QED
  BY <1>1, <1>2, PTL DEF Spec

\* An account's deletion meets neither foreign key, unless something else of the
\* user's ran meanwhile or a teardown failed.
THEOREM DeletionSucceeds == Spec => []UndisturbedDeletionSucceeds
<1>1. OwnerInv /\ DepartInv => UndisturbedDeletionSucceeds
  <2> SUFFICES ASSUME DepartInv, job["account"].step = "users", job["account"].calm,
                      NEW u, u = job["account"].user
               PROVE  ~Restricted(u)
    BY DEF UndisturbedDeletionSucceeds
  <2>1. Job.step = "users" /\ Job.calm /\ Job.user = u
    BY DEF Job
  <2>2. CalmOf(u) /\ Job.todo = {}
    BY <2>1 DEF DepartInv, CalmInv, HandlerInv, AccountOf
  <2> QED
    BY <2>1, <2>2 DEF CalmOf, GroupOf, Listed, Ahead, Restricted
<1> QED
  BY <1>1, DepartHolds, PTL

=============================================================================
