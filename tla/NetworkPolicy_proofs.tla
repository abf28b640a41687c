-------------------------- MODULE NetworkPolicy_proofs --------------------------
(***************************************************************************)
(* For every number of groups, VLANs, profiles, handlers in flight, edits  *)
(* and failed applies: the policy of an appliance keeps the interface of   *)
(* every VM that was handed over, for its own group alone, and the Gateway *)
(* forwards between two of them only what was peered.                      *)
(***************************************************************************)
EXTENDS NetworkPolicy, SequenceTheorems, TLAPS

-----------------------------------------------------------------------------
\* The forward chain, and the tuples the jobs are made of.

LEMMA ChainOrder ==
    ASSUME NEW pairs
    PROVE  LET c == ForwardChain(pairs) IN
           \/ /\ pairs = {} /\ DOMAIN c = 1..3
              /\ c[1] = "cross-group-denied" /\ c[2] = "established" /\ c[3] = "lab-egress-denied"
           \/ /\ DOMAIN c = 1..4 /\ c[1] = "allowed-pairs"
              /\ c[2] = "cross-group-denied" /\ c[3] = "established" /\ c[4] = "lab-egress-denied"
<1> DEFINE tail == <<"cross-group-denied", "established", "lab-egress-denied">>
           Rule == {"allowed-pairs", "cross-group-denied", "established", "lab-egress-denied"}
<1>1. tail \in Seq(Rule) /\ <<"allowed-pairs">> \in Seq(Rule) /\ <<>> \in Seq(Rule)
      /\ Len(tail) = 3 /\ Len(<<"allowed-pairs">>) = 1
  OBVIOUS
<1>2. CASE pairs = {}
  <2>1. ForwardChain(pairs) = tail
    BY <1>1, <1>2, ConcatEmptySeq DEF ForwardChain
  <2> QED
    BY <1>2, <2>1
<1>3. CASE pairs # {}
  <2>1. ForwardChain(pairs) = <<"allowed-pairs">> \o tail
    BY <1>3 DEF ForwardChain
  <2>2. /\ ForwardChain(pairs) \in Seq(Rule) /\ Len(ForwardChain(pairs)) = 4
        /\ \A i \in 1..4 : ForwardChain(pairs)[i] =
                IF i <= 1 THEN <<"allowed-pairs">>[i] ELSE tail[i - 1]
    BY <1>1, <2>1, ConcatProperties
  <2>3. DOMAIN ForwardChain(pairs) = 1..4
    BY <2>2, LenProperties
  <2>4. /\ ForwardChain(pairs)[1] = "allowed-pairs" /\ ForwardChain(pairs)[2] = tail[1]
        /\ ForwardChain(pairs)[3] = tail[2] /\ ForwardChain(pairs)[4] = tail[3]
    BY <2>2
  <2> QED
    BY <2>3, <2>4
<1> QED
  BY <1>2, <1>3

\* Between two VLANs of the lab only the pairs decide, replies included.
LEMMA OnlyPairsForward ==
    ASSUME NEW lab, NEW pairs, NEW from \in lab, NEW to \in lab, NEW reply \in BOOLEAN,
           Forwards(RenderNftables(lab, pairs), from, to, reply)
    PROVE  <<from, to>> \in pairs
<1> DEFINE table == RenderNftables(lab, pairs)
           c == ForwardChain(pairs)
<1>1. table.forward = c /\ table.lab = lab /\ table.pairs = pairs
  BY DEF RenderNftables
<1>2. PICK k \in DOMAIN c :
        /\ c[k] \in {"allowed-pairs", "established"}
        /\ Matches(table, c[k], from, to, reply)
        /\ \A j \in 1..(k - 1) : ~Matches(table, c[j], from, to, reply)
  BY <1>1 DEF Forwards
<1>3. Matches(table, "cross-group-denied", from, to, reply)
  BY <1>1 DEF Matches
<1>4. Matches(table, "allowed-pairs", from, to, reply) => <<from, to>> \in pairs
  BY <1>1 DEF Matches
<1> HIDE DEF c, table
<1>5. \/ /\ DOMAIN c = 1..3
         /\ c[1] = "cross-group-denied" /\ c[2] = "established" /\ c[3] = "lab-egress-denied"
      \/ /\ DOMAIN c = 1..4 /\ c[1] = "allowed-pairs"
         /\ c[2] = "cross-group-denied" /\ c[3] = "established" /\ c[4] = "lab-egress-denied"
  BY ChainOrder DEF c
<1>6. c[k] # "established"
  BY <1>2, <1>3, <1>5
<1> QED
  BY <1>2, <1>4, <1>6

-----------------------------------------------------------------------------
(* What a job may hold, and what each of its outcomes leaves of it. *)

\* The components a handler or a pass has before it.
Todo == {<<>>, <<"access">>, <<"gateway">>, <<"access", "gateway">>, <<"gateway", "access">>}

LEMMA TodoEnds ==
    \A todo \in Todo : todo # <<>> =>
        /\ Head(todo) \in Appliance /\ Tail(todo) \in Todo
        /\ Tail(todo) \in {<<>>, <<"access">>, <<"gateway">>}
<1>1. /\ Head(<<"access">>) = "access" /\ Tail(<<"access">>) = <<>>
      /\ Head(<<"gateway">>) = "gateway" /\ Tail(<<"gateway">>) = <<>>
      /\ Head(<<"access", "gateway">>) = "access" /\ Tail(<<"access", "gateway">>) = <<"gateway">>
      /\ Head(<<"gateway", "access">>) = "gateway" /\ Tail(<<"gateway", "access">>) = <<"access">>
  OBVIOUS
<1> QED
  BY <1>1 DEF Todo, Appliance

LEMMA TodoOfCreate ==
    /\ Head(<<"access", "gateway">>) = "access" /\ Tail(<<"access", "gateway">>) = <<"gateway">>
    /\ Head(<<"gateway">>) = "gateway" /\ Tail(<<"gateway">>) = <<>>
    /\ <<"access", "gateway">> # <<>> /\ <<"gateway">> # <<>>
    /\ <<"access", "gateway">> # <<"gateway">> /\ <<"gateway", "access">> # <<>>
  OBVIOUS

LEMMA AccessFirst ==
    /\ <<"access">> \o <<"gateway">> = <<"access", "gateway">>
    /\ <<"access">> \o <<>> = <<"access">>
<1>1. <<"access">> \o <<"gateway">> = <<"access", "gateway">>
  <2>1. <<"access">> \in Seq(Appliance) /\ <<"gateway">> \in Seq(Appliance)
        /\ <<"access", "gateway">> \in Seq(Appliance)
        /\ Len(<<"access">>) = 1 /\ Len(<<"gateway">>) = 1 /\ Len(<<"access", "gateway">>) = 2
    BY DEF Appliance
  <2>2. /\ <<"access">> \o <<"gateway">> \in Seq(Appliance)
        /\ Len(<<"access">> \o <<"gateway">>) = 2
        /\ \A i \in 1..2 : (<<"access">> \o <<"gateway">>)[i] =
                IF i <= 1 THEN <<"access">>[i] ELSE <<"gateway">>[i - 1]
    BY <2>1, ConcatProperties
  <2>3. \A i \in 1..2 : (<<"access">> \o <<"gateway">>)[i] = <<"access", "gateway">>[i]
    BY <2>2
  <2> QED
    BY <2>1, <2>2, <2>3, SeqEqual
<1>2. <<"access">> \o <<>> = <<"access">>
  <2>1. <<"access">> \in Seq(Appliance)
    BY DEF Appliance
  <2> QED
    BY <2>1, ConcatEmptySeq
<1> QED
  BY <1>1, <1>2

Net == Vlan \cup {None}
Iface == [group : Group, vlan : Net, domains : SUBSET Domain]
Doc == [interfaces : SUBSET Iface, edges : SUBSET (Net \X Net)]
Applying == {"revision", "lock", "plan", "apply"}
Step == Applying \cup {"idle", "attached", "vnet", "failed", "last",
                       "stranded", "gateway", "access"}
Job == [op : {"none", "create", "teardown", "pass"}, group : Group \cup {None},
        todo : Todo, step : Step, expected : Doc, interfaces : SUBSET Iface,
        clean : BOOLEAN, pair : Pair \cup {None}]

\* The steps and components that go with what the actor is and does.
Regular(a, j) ==
    /\ j \in Job
    /\ j.op = "none" <=> j.step = "idle"
    /\ a \in Pass => j.op \in {"none", "pass"}
    /\ a \in Worker => j.op \in {"none", "create", "teardown"}
    /\ j.op \in {"create", "teardown"} => j.group \in Group
    /\ j.step \in {"attached", "vnet", "failed"} => j.op = "create"
    /\ j.step \in {"stranded", "gateway", "access"} => j.op = "pass"
    /\ j.step = "access" => j.todo \in {<<>>, <<"gateway">>}
    /\ j.step \in Applying =>
        /\ j.todo # <<>>
        /\ j.op = "create" => j.todo \in {<<"access", "gateway">>, <<"gateway">>}
    /\ j.step = "plan" => Head(j.todo) = "gateway"

\* A create that applies, or has applied, the documents of both appliances.
PlacedBy(j) == j.op = "create" /\ j.step \in Applying \cup {"last"}

\* A create has applied the document of x: Access goes first.
DoneBy(j, x) ==
    j.op = "create" /\ \/ j.step = "last"
                       \/ j.step \in Applying /\ x = "access" /\ j.todo = <<"gateway">>

\* It does not hold the lock.
Released(j) == j.step \notin {"plan", "apply"}

\* n is what job j became: it stands for nothing j did not stand for, but for
\* the component x it may have applied.
Follows(n, j, x) ==
    /\ PlacedBy(n) => PlacedBy(j) /\ n.group = j.group
    /\ \A y \in Appliance : DoneBy(n, y) => DoneBy(j, y) \/ y = x

JobInv ==
    /\ job \in [Actor -> Job]
    /\ \A a \in Actor : Regular(a, job[a])

LEMMA IdleRegular ==
    ASSUME PolicyAssumption, NEW a \in Actor
    PROVE  Regular(a, Idle) /\ ~PlacedBy(Idle) /\ \A x \in Appliance : ~DoneBy(Idle, x)
<1>1. Idle \in Job
  BY DEF Idle, Job, Doc, Nothing, Step, Todo
<1>2. Idle.op = "none" /\ Idle.step = "idle"
  BY DEF Idle
<1> QED
  BY <1>1, <1>2 DEF Regular, PlacedBy, DoneBy, Applying, Pass

\* Between attempts a job keeps what it is for.
LEMMA Restarts ==
    ASSUME JobInv, NEW a \in Actor, NEW todo \in Todo, NEW step \in Step
    PROVE  \E n \in Job : /\ At(a, todo, step) = [job EXCEPT ![a] = n]
                          /\ n.op = job[a].op /\ n.group = job[a].group
                          /\ n.todo = todo /\ n.step = step
<1> DEFINE j == job[a]
           n == [j EXCEPT !.todo = todo, !.step = step, !.expected = Nothing, !.interfaces = {}]
<1>1. At(a, todo, step) = [job EXCEPT ![a] = n]
  BY DEF At
<1>2. j \in Job /\ Nothing \in Doc
  BY DEF JobInv, Nothing, Doc
<1> HIDE DEF j
<1>3. n \in Job /\ n.op = j.op /\ n.group = j.group /\ n.todo = todo /\ n.step = step
  BY <1>2 DEF Job
<1> QED
  BY <1>1, <1>3 DEF j

\* The outcomes of a component: it threw, or has to be tried again.
LEMMA Outcomes ==
    ASSUME PolicyAssumption, JobInv, NEW a \in Actor, job[a].step \in Applying \cup {"vnet"},
           NEW o, o = Thrown(a) \/ (job[a].step \in Applying /\ o \in Conflicted(a))
    PROVE  \E n \in Job : o = [job EXCEPT ![a] = n] /\ Regular(a, n) /\ Follows(n, job[a], "neither") /\ Released(n)
<1> DEFINE j == job[a]
<1>1. j \in Job /\ Regular(a, j) /\ j.todo \in Todo
  BY DEF JobInv, Job
<1>2. CASE o = [job EXCEPT ![a] = Idle]
  <2>1. Idle \in Job /\ Regular(a, Idle) /\ Follows(Idle, j, "neither") /\ Released(Idle)
    BY IdleRegular DEF Regular, Follows, Idle, Released
  <2> QED
    BY <1>2, <2>1
<1>3. CASE j.op = "create" /\ o = At(a, <<>>, "failed")
  <2>1. PICK n \in Job : /\ o = [job EXCEPT ![a] = n]
                         /\ n.op = "create" /\ n.group = j.group /\ n.step = "failed"
    BY <1>3, Restarts DEF Todo, Step
  <2>2. Regular(a, n) /\ Follows(n, j, "neither") /\ Released(n)
    BY <1>1, <1>3, <2>1 DEF Regular, Follows, Released, PlacedBy, DoneBy, Applying
  <2> QED
    BY <2>1, <2>2
<1>4. CASE j.step \in Applying /\ o = At(a, j.todo, "revision")
  <2>1. PICK n \in Job : /\ o = [job EXCEPT ![a] = n] /\ n.op = j.op /\ n.group = j.group
                         /\ n.todo = j.todo /\ n.step = "revision"
    <3>1. j.todo \in Todo /\ "revision" \in Step
      BY <1>1 DEF Step, Applying
    <3> QED
      BY <1>4, <3>1, Restarts
  <2>2. Regular(a, n) /\ Follows(n, j, "neither") /\ Released(n)
    BY <1>1, <1>4, <2>1 DEF Regular, Follows, Released, PlacedBy, DoneBy, Applying
  <2> QED
    BY <2>1, <2>2
<1>5. CASE a \in Pass /\ o = [Advanced(a) EXCEPT ![a].clean = FALSE]
  <2>1. j.op = "pass" /\ j.step \in Applying /\ j.todo # <<>>
    BY <1>1, <1>5 DEF Regular, Applying
  <2>2. Tail(j.todo) \in Todo /\ <<>> \in Todo
    BY <1>1, <2>1, TodoEnds DEF Todo
  <2>3. PICK todo \in Todo, step \in {"revision", "last"} :
            /\ Advanced(a) = At(a, todo, step)
            /\ step = "revision" => todo # <<>>
    BY <2>2 DEF Advanced
  <2>4. PICK m \in Job : /\ Advanced(a) = [job EXCEPT ![a] = m]
                         /\ m.op = "pass" /\ m.todo = todo /\ m.step = step
    BY <2>1, <2>3, Restarts DEF Step, Applying
  <2> DEFINE n == [m EXCEPT !.clean = FALSE]
  <2>5. n \in Job /\ n.op = "pass" /\ n.todo = todo /\ n.step = step
    BY <2>4 DEF Job
  <2>6. o = [job EXCEPT ![a] = n]
    BY <1>5, <2>4 DEF JobInv
  <2>7. a \notin Worker
    BY <1>5 DEF PolicyAssumption, Pass
  <2> HIDE DEF n
  <2>8. Regular(a, n) /\ Follows(n, j, "neither") /\ Released(n)
    BY <2>3, <2>5, <2>7 DEF Regular, Follows, Released, PlacedBy, DoneBy, Applying
  <2> QED
    BY <2>5, <2>6, <2>8
<1>6. \/ o = Thrown(a)
      \/ j.step \in Applying /\ o = At(a, j.todo, "revision")
  BY DEF Conflicted
<1>7. \/ a \in Pass /\ o = [Advanced(a) EXCEPT ![a].clean = FALSE]
      \/ j.op = "create" /\ o = At(a, <<>>, "failed")
      \/ o = [job EXCEPT ![a] = Idle]
      \/ j.step \in Applying /\ o = At(a, j.todo, "revision")
  BY <1>6 DEF Thrown
<1> QED
  BY <1>2, <1>3, <1>4, <1>5, <1>7

\* The component it was about is applied.
LEMMA Advances ==
    ASSUME PolicyAssumption, JobInv, NEW a \in Actor, job[a].step = "apply"
    PROVE  \E n \in Job : /\ Advanced(a) = [job EXCEPT ![a] = n]
                          /\ Regular(a, n) /\ Follows(n, job[a], Target(a)) /\ Released(n)
<1> DEFINE j == job[a]
<1>1. j \in Job /\ Regular(a, j) /\ j.todo \in Todo /\ j.step \in Applying
  BY DEF JobInv, Job, Applying
<1>2. j.todo # <<>> /\ Tail(j.todo) \in Todo /\ j.op # "none"
  BY <1>1, TodoEnds DEF Regular, Applying
<1>3. PICK todo \in Todo, step \in {"revision", "last"} :
        /\ Advanced(a) = At(a, todo, step)
        /\ todo = Tail(j.todo)
        /\ step = "revision" <=> todo # <<>>
  BY <1>2 DEF Advanced
<1>4. PICK n \in Job : /\ Advanced(a) = [job EXCEPT ![a] = n]
                       /\ n.op = j.op /\ n.group = j.group
                       /\ n.todo = todo /\ n.step = step
  <2>1. todo \in Todo /\ step \in Step
    BY <1>3 DEF Step, Applying
  <2>2. \E n \in Job : /\ At(a, todo, step) = [job EXCEPT ![a] = n]
                      /\ n.op = job[a].op /\ n.group = job[a].group
                      /\ n.todo = todo /\ n.step = step
    BY <2>1, Restarts
  <2> QED
    BY <1>3, <2>2
<1>5. j.op = "create" =>
        \/ j.todo = <<"access", "gateway">> /\ todo = <<"gateway">> /\ Target(a) = "access"
        \/ j.todo = <<"gateway">> /\ todo = <<>> /\ Target(a) = "gateway"
  <2>1. j.op = "create" => j.todo \in {<<"access", "gateway">>, <<"gateway">>}
    BY <1>1 DEF Regular
  <2> QED
    BY <1>3, <2>1, TodoOfCreate DEF Target
<1> HIDE DEF j
<1>6. Regular(a, n)
  BY <1>1, <1>2, <1>3, <1>4, <1>5, TodoOfCreate DEF Regular, Applying
<1>7. Follows(n, j, Target(a)) /\ Released(n)
  BY <1>1, <1>3, <1>4, <1>5, TodoOfCreate DEF Follows, Released, PlacedBy, DoneBy, Applying, Appliance, j
<1> QED
  BY <1>4, <1>6, <1>7 DEF j

-----------------------------------------------------------------------------
(* The invariants. *)

\* A group whose VM, or whose create, counts on the operational plan.
Placed(acc, jobs, g) == acc[g] \/ \E b \in Actor : PlacedBy(jobs[b]) /\ jobs[b].group = g

\* Appliance x has to serve g: its VM was handed over, or its create has
\* applied x on the way there.
Secured(acc, jobs, g, x) ==
    acc[g] \/ \E b \in Actor : DoneBy(jobs[b], x) /\ jobs[b].group = g

\* The VLAN v is in the document for group g, and for no other.
Serves(interfaces, v, g) == {i.group : i \in {j \in interfaces : j.vlan = v}} = {g}

\* The edges of a document are between groups that were peered.
OfPairs(plan, pairs) == \E P \in SUBSET pairs : plan.edges = PeeringEdges(plan.interfaces, P)

\* What the holder of the lock has read so far.
ReadBy(j) == IF j.step = "plan" THEN j.interfaces ELSE j.expected.interfaces

RowType ==
    /\ state \in [Group -> {"planned", "creating", "active", "error", "deleting", "gone"}]
    /\ vlan \in [Group -> Net]
    /\ accepted \in [Group -> BOOLEAN]
    /\ peerings \subseteq approved /\ approved \subseteq Pair
    /\ domains \in [Profile -> SUBSET Domain]
    /\ events \in 0..MaxEvents

LockType ==
    /\ lock \in Actor \cup {None}
    /\ \A a \in Actor : lock = a <=> ~Released(job[a])

\* No two groups share a VLAN, and a row in one of these states has one.
Allocated ==
    /\ \A g, h \in Group : vlan[g] = vlan[h] /\ vlan[g] # None => g = h
    /\ \A g \in Group : state[g] \in {"creating", "active", "deleting"} => vlan[g] # None

\* A group that is counted on is in the plan, whatever tears it down.
PlanInv ==
    \A g \in Group : Placed(accepted, job, g) => Operational(g) /\ vlan[g] # None

\* What the holder of the lock is about to put in force serves every group
\* that the appliance has to serve, its own among them.
DocInv ==
    \A b \in Actor : ~Released(job[b]) =>
        /\ \A g \in Group, x \in Appliance :
            /\ x = Head(job[b].todo)
            /\ \/ Secured(accepted, job, g, x)
               \/ PlacedBy(job[b]) /\ job[b].group = g
            => Serves(ReadBy(job[b]), vlan[g], g)
        /\ job[b].step = "apply" /\ Head(job[b].todo) = "gateway"
            => OfPairs(job[b].expected, approved)

\* What is in force serves every group it has to.
LiveInv ==
    /\ live = [x \in Appliance |-> live[x]]
    /\ \A x \in Appliance :
        live[x].files.networkd = {i.vlan : i \in live[x].revision.interfaces}
    /\ live["gateway"].files.nftables =
        RenderNftables(live["gateway"].files.networkd, live["gateway"].revision.edges)
    /\ OfPairs(live["gateway"].revision, approved)
    /\ \A g \in Group, x \in Appliance : Secured(accepted, job, g, x)
        => Serves(live[x].revision.interfaces, vlan[g], g)

IInv == RowType /\ LockType /\ JobInv /\ Allocated /\ PlanInv /\ DocInv /\ LiveInv

LEMMA Typed == IInv => TypeOK
BY DEF IInv, RowType, LockType, TypeOK, Net, Released

-----------------------------------------------------------------------------
\* An actor's job becomes n; it gives the lock up or had none.
Becomes(a, n) == job' = [job EXCEPT ![a] = n] /\ Regular(a, n)
Calm(a, n) ==
    /\ Becomes(a, n) /\ Follows(n, job[a], "neither")
    /\ \/ n = job[a] /\ lock' = lock
       \/ Released(n) /\ Released(job[a]) /\ lock' = lock
       \/ Released(n) /\ lock = a /\ lock' = None

LEMMA Becoming ==
    ASSUME PolicyAssumption, JobInv, NEW a \in Actor, NEW n \in Job, Becomes(a, n)
    PROVE  JobInv' /\ job'[a] = n /\ \A b \in Actor \ {a} : job'[b] = job[b]
BY DEF JobInv, Becomes

\* What was secured after the step was before, or is the component x of a's.
LEMMA Fewer ==
    ASSUME PolicyAssumption, JobInv, NEW a \in Actor, NEW n \in Job, Becomes(a, n),
           NEW x, Follows(n, job[a], x),
           \A g \in Group : accepted'[g] => accepted[g]
                \/ (job[a].op = "create" /\ job[a].step = "last" /\ job[a].group = g)
    PROVE  \A g \in Group :
        /\ Placed(accepted', job', g) => Placed(accepted, job, g)
        /\ \A y \in Appliance : Secured(accepted', job', g, y) =>
            \/ Secured(accepted, job, g, y)
            \/ (y = x /\ PlacedBy(job[a]) /\ job[a].group = g)
<1>1. job'[a] = n /\ \A b \in Actor \ {a} : job'[b] = job[b]
  BY Becoming
<1>2. \A y : DoneBy(n, y) => PlacedBy(n)
  BY DEF DoneBy, PlacedBy
<1>3. SUFFICES ASSUME NEW g \in Group
               PROVE  /\ Placed(accepted', job', g) => Placed(accepted, job, g)
                      /\ \A y \in Appliance : Secured(accepted', job', g, y) =>
                            \/ Secured(accepted, job, g, y)
                            \/ (y = x /\ PlacedBy(job[a]) /\ job[a].group = g)
  OBVIOUS
<1>4. CASE accepted'[g]
  <2>1. accepted[g] \/ (PlacedBy(job[a]) /\ job[a].group = g)
    BY <1>4 DEF PlacedBy
  <2>2. \A y \in Appliance : accepted[g] \/ (DoneBy(job[a], y) /\ job[a].group = g)
    BY <1>4 DEF DoneBy
  <2> QED
    BY <2>1, <2>2 DEF Placed, Secured
<1>5. ASSUME NEW b \in Actor, job'[b].group = g
      PROVE  /\ PlacedBy(job'[b]) => Placed(accepted, job, g)
             /\ \A y \in Appliance : DoneBy(job'[b], y) =>
                    \/ Secured(accepted, job, g, y)
                    \/ (y = x /\ PlacedBy(job[a]) /\ job[a].group = g)
  <2>1. CASE b # a
    BY <1>1, <1>5, <2>1 DEF Placed, Secured
  <2>2. CASE b = a
    <3>1. PlacedBy(n) => PlacedBy(job[a]) /\ job[a].group = g
      BY <1>1, <1>5, <2>2 DEF Follows
    <3>2. \A y \in Appliance : DoneBy(n, y) => DoneBy(job[a], y) \/ y = x
      BY DEF Follows
    <3> QED
      BY <1>1, <1>2, <2>2, <3>1, <3>2 DEF Placed, Secured
  <2> QED
    BY <2>1, <2>2
<1> QED
  BY <1>4, <1>5 DEF Placed, Secured

\* Secured or held, a group is counted on.
LEMMA Counted ==
    ASSUME NEW acc, NEW jobs, NEW g
    PROVE  /\ \A x : Secured(acc, jobs, g, x) => Placed(acc, jobs, g)
           /\ \A b \in Actor : PlacedBy(jobs[b]) /\ jobs[b].group = g => Placed(acc, jobs, g)
BY DEF Secured, Placed, DoneBy, PlacedBy

\* Who holds the lock after a calm step, and with what.
LEMMA CalmLock ==
    ASSUME PolicyAssumption, JobInv, LockType, NEW a \in Actor, NEW n \in Job, Calm(a, n)
    PROVE  LockType' /\ \A b \in Actor : ~Released(job'[b]) => job'[b] = job[b]
<1>1. job'[a] = n /\ \A b \in Actor \ {a} : job'[b] = job[b]
  BY Becoming DEF Calm
<1>2. a # None
  BY DEF PolicyAssumption, Actor, Pass
<1>3. CASE n = job[a] /\ lock' = lock
  BY <1>1, <1>3 DEF LockType
<1>4. CASE Released(n) /\ Released(job[a]) /\ lock' = lock
  BY <1>1, <1>4 DEF LockType
<1>5. CASE Released(n) /\ lock = a /\ lock' = None
  <2>1. \A b \in Actor \ {a} : Released(job[b])
    BY <1>5 DEF LockType
  <2>2. None \notin Actor
    BY DEF PolicyAssumption, Actor, Pass
  <2> QED
    BY <1>1, <1>5, <2>1, <2>2 DEF LockType
<1> QED
  BY <1>3, <1>4, <1>5 DEF Calm

\* A calm step that leaves the appliances alone keeps what was read and what
\* is in force good for every group that is still counted on.
LEMMA Keeps ==
    ASSUME PolicyAssumption, IInv, NEW a \in Actor, NEW n \in Job, Calm(a, n),
           RowType', Allocated', live' = live, approved \subseteq approved',
           \A g \in Group : accepted'[g] => accepted[g]
                \/ (job[a].op = "create" /\ job[a].step = "last" /\ job[a].group = g),
           \A g \in Group : Placed(accepted', job', g) =>
                vlan'[g] = vlan[g] /\ (Operational(g) => Operational(g)')
    PROVE  IInv'
<1>1. JobInv' /\ LockType' /\ \A b \in Actor : ~Released(job'[b]) => job'[b] = job[b]
  BY Becoming, CalmLock DEF Calm, IInv
<1>2. \A g \in Group :
        /\ Placed(accepted', job', g) => Placed(accepted, job, g)
        /\ \A y \in Appliance : Secured(accepted', job', g, y) => Secured(accepted, job, g, y)
  <2>1. \A g \in Group :
        /\ Placed(accepted', job', g) => Placed(accepted, job, g)
        /\ \A y \in Appliance : Secured(accepted', job', g, y) =>
            \/ Secured(accepted, job, g, y)
            \/ (y = "neither" /\ PlacedBy(job[a]) /\ job[a].group = g)
    BY Fewer DEF Calm, IInv
  <2> QED
    BY <2>1 DEF Appliance
<1>3. \A g \in Group, y \in Appliance :
        Secured(accepted', job', g, y) => Secured(accepted, job, g, y) /\ vlan'[g] = vlan[g]
  BY <1>2, Counted
<1>4. PlanInv'
  <2>1. \A g \in Group : Placed(accepted', job', g) => Operational(g)' /\ vlan'[g] # None
    BY <1>2 DEF IInv, PlanInv
  <2> QED
    BY <2>1 DEF PlanInv
<1>5. DocInv'
  <2>1. ASSUME NEW b \in Actor, ~Released(job'[b])
        PROVE  /\ \A g \in Group, x \in Appliance :
                    /\ x = Head(job'[b].todo)
                    /\ \/ Secured(accepted', job', g, x)
                       \/ PlacedBy(job'[b]) /\ job'[b].group = g
                    => Serves(ReadBy(job'[b]), vlan'[g], g)
               /\ job'[b].step = "apply" /\ Head(job'[b].todo) = "gateway"
                    => OfPairs(job'[b].expected, approved')
    <3>1. job'[b] = job[b] /\ ~Released(job[b])
      BY <1>1, <2>1
    <3>2. \A g \in Group : PlacedBy(job[b]) /\ job[b].group = g => vlan'[g] = vlan[g]
      BY <3>1, Counted
    <3>3. OfPairs(job[b].expected, approved) => OfPairs(job[b].expected, approved')
      BY DEF OfPairs
    <3> QED
      BY <1>3, <3>1, <3>2, <3>3 DEF IInv, DocInv
  <2> QED
    BY <2>1 DEF DocInv
<1>6. LiveInv'
  <2>1. OfPairs(live["gateway"].revision, approved) => OfPairs(live["gateway"].revision, approved')
    BY DEF OfPairs
  <2> QED
    BY <1>3, <2>1 DEF IInv, LiveInv
<1> QED
  BY <1>1, <1>4, <1>5, <1>6 DEF IInv

-----------------------------------------------------------------------------
(* The documents. *)

\* Every operational group that holds a VLAN is served by a plan made now.
LEMMA GroupsServed ==
    ASSUME PolicyAssumption, RowType, Allocated
    PROVE  /\ GroupsRead \in SUBSET Iface
           /\ \A g \in Group : Operational(g) /\ vlan[g] # None => Serves(GroupsRead, vlan[g], g)
<1>1. GroupsRead \in SUBSET Iface
  BY DEF GroupsRead, Interface, Iface, RowType, PolicyAssumption
<1>2. ASSUME NEW g \in Group, Operational(g), vlan[g] # None
      PROVE  Serves(GroupsRead, vlan[g], g)
  <2>1. Interface(g) \in GroupsRead /\ Interface(g).group = g /\ Interface(g).vlan = vlan[g]
    BY <1>2 DEF GroupsRead, Interface
  <2>2. \A j \in GroupsRead : j.vlan = vlan[g] => j.group = g
    BY <1>2 DEF GroupsRead, Interface, Allocated
  <2> QED
    BY <2>1, <2>2 DEF Serves
<1> QED
  BY <1>1, <1>2

\* An edge joins the VLANs of two interfaces whose groups are a pair.
LEMMA EdgeEnds ==
    ASSUME NEW interfaces, NEW pairs, NEW e \in PeeringEdges(interfaces, pairs)
    PROVE  \E i \in interfaces, j \in interfaces :
                e = <<i.vlan, j.vlan>> /\ {i.group, j.group} \in pairs
BY DEF PeeringEdges

LEMMA PlanTyped ==
    ASSUME NEW interfaces \in SUBSET Iface, NEW pairs
    PROVE  GatewayPlan(interfaces, pairs) \in Doc /\ AccessPlan(interfaces) \in Doc
<1>1. PeeringEdges(interfaces, pairs) \in SUBSET (Net \X Net)
  <2>1. \A i \in interfaces : i.vlan \in Net
    BY DEF Iface
  <2>2. ASSUME NEW e \in PeeringEdges(interfaces, pairs)
        PROVE  e \in Net \X Net
    <3>1. PICK i \in interfaces, j \in interfaces :
                e = <<i.vlan, j.vlan>> /\ {i.group, j.group} \in pairs
      BY EdgeEnds
    <3> QED
      BY <2>1, <3>1
  <2> QED
    BY <2>2
<1> QED
  BY <1>1 DEF GatewayPlan, AccessPlan, Doc

\* What an appliance serves once it loaded the files of a plan.
LEMMA RenderedServes ==
    ASSUME NEW x \in Appliance, NEW plan \in Doc
    PROVE  LET r == Rendered(x, plan) IN
           /\ r.files.networkd = {i.vlan : i \in r.revision.interfaces}
           /\ \A v, g : Serves(plan.interfaces, v, g) => Serves(r.revision.interfaces, v, g)
           /\ x = "gateway" => /\ r.revision = plan
                               /\ r.files.nftables = RenderNftables(r.files.networkd, plan.edges)
<1>1. CASE x = "gateway"
  BY <1>1 DEF Rendered, GatewayFiles, RenderNetworkd
<1>2. CASE x = "access"
  <2> DEFINE stripped == {[i EXCEPT !.domains = {}] : i \in plan.interfaces}
             bare == [plan EXCEPT !.interfaces = {[i EXCEPT !.domains = {}] : i \in @}]
  <2>1. bare.interfaces = stripped
    BY DEF Doc
  <2> DEFINE Strip(i) == [i EXCEPT !.domains = {}]
  <2>2. \A i \in plan.interfaces : Strip(i).group = i.group /\ Strip(i).vlan = i.vlan
    BY DEF Doc, Iface
  <2>3. stripped = {Strip(i) : i \in plan.interfaces}
    OBVIOUS
  <2> HIDE DEF Strip, stripped
  <2>4. /\ \A s \in stripped : \E i \in plan.interfaces : s.group = i.group /\ s.vlan = i.vlan
        /\ \A i \in plan.interfaces : \E s \in stripped : s.group = i.group /\ s.vlan = i.vlan
    BY <2>2, <2>3
  <2>5. Rendered(x, plan).revision = bare /\ Rendered(x, plan).files = AccessFiles(bare)
    BY <1>2 DEF Rendered
  <2>6. Rendered(x, plan).files.networkd = {i.vlan : i \in bare.interfaces}
    BY <2>5 DEF AccessFiles, RenderNetworkd
  <2> HIDE DEF bare
  <2>7. ASSUME NEW v, NEW g, Serves(plan.interfaces, v, g)
        PROVE  Serves(stripped, v, g)
    <3>1. /\ \A i \in plan.interfaces : i.vlan = v => i.group = g
          /\ \E i \in plan.interfaces : i.vlan = v /\ i.group = g
      BY <2>7 DEF Serves
    <3>2. /\ \A s \in stripped : s.vlan = v => s.group = g
          /\ \E s \in stripped : s.vlan = v /\ s.group = g
      BY <2>4, <3>1
    <3> QED
      BY <3>2 DEF Serves
  <2> QED
    BY <1>2, <2>1, <2>5, <2>6, <2>7
<1> QED
  BY <1>1, <1>2 DEF Appliance

-----------------------------------------------------------------------------
(* Steps of the rows and of the jobs that leave the appliances alone. *)

\* Rows that stay where they are need no further argument.
LEMMA KeepsRows ==
    ASSUME PolicyAssumption, IInv, NEW a \in Actor, NEW n \in Job, Calm(a, n),
           RowType', UNCHANGED <<state, vlan, live>>, approved \subseteq approved',
           \A g \in Group : accepted'[g] => accepted[g]
    PROVE  IInv'
<1>1. Allocated'
  BY DEF IInv, Allocated
<1>2. \A g \in Group : vlan'[g] = vlan[g] /\ (Operational(g) => Operational(g)')
  BY DEF Operational
<1> QED
  BY <1>1, <1>2, Keeps

LEMMA Stutters ==
    ASSUME PolicyAssumption, JobInv, job' = job, lock' = lock
    PROVE  Timer \in Actor /\ job[Timer] \in Job /\ Calm(Timer, job[Timer])
<1>1. Timer \in Actor
  BY DEF Actor, Pass
<1>2. job' = [job EXCEPT ![Timer] = job[Timer]] /\ Regular(Timer, job[Timer])
  BY <1>1 DEF JobInv
<1>3. Follows(job[Timer], job[Timer], "neither")
  BY DEF Follows
<1> QED
  BY <1>1, <1>2, <1>3 DEF Calm, Becomes, JobInv

\* The edits that start nothing, and a removal.
LEMMA EditKeeps ==
    ASSUME PolicyAssumption, IInv,
           \/ AddPeering \/ AddDomain \/ EditProfile \/ UNCHANGED vars
           \/ \E g \in Group : RemoveInstance(g)
    PROVE  IInv'
<1>1. /\ job' = job /\ lock' = lock
      /\ UNCHANGED <<state, vlan, live>>
  BY DEF AddPeering, AddDomain, EditProfile, RemoveInstance, vars, rows, policy
<1>2. approved \subseteq approved' /\ \A g \in Group : accepted'[g] => accepted[g]
  BY DEF AddPeering, AddDomain, EditProfile, RemoveInstance, vars, rows, policy,
         InsertPeering, InsertDomain, ReplaceDomains, IInv, RowType
<1>3. RowType'
  <2>1. CASE AddPeering
    BY <2>1 DEF AddPeering, InsertPeering, Event, rows, IInv, RowType, PolicyAssumption
  <2>2. CASE AddDomain
    BY <2>2 DEF AddDomain, InsertDomain, Event, rows, IInv, RowType, PolicyAssumption
  <2>3. CASE EditProfile
    BY <2>3 DEF EditProfile, ReplaceDomains, Event, rows, IInv, RowType, PolicyAssumption
  <2>4. CASE UNCHANGED vars
    BY <2>4 DEF vars, rows, policy, IInv, RowType
  <2>5. CASE \E g \in Group : RemoveInstance(g)
    BY <2>5 DEF RemoveInstance, rows, policy, IInv, RowType
  <2> QED
    BY <2>1, <2>2, <2>3, <2>4, <2>5
<1>4. Timer \in Actor /\ job[Timer] \in Job /\ Calm(Timer, job[Timer])
  BY <1>1, Stutters DEF IInv
<1> QED
  BY <1>1, <1>2, <1>3, <1>4, KeepsRows

LEMMA StartedCalm ==
    ASSUME PolicyAssumption, JobInv, NEW a \in Pass, NEW pair \in Pair \cup {None},
           job[a].op = "none", Started(a, pair), lock' = lock
    PROVE  a \in Actor /\ \E n \in Job : Calm(a, n)
<1> DEFINE n == [Idle EXCEPT !.op = "pass", !.step = "stranded", !.pair = pair]
<1>1. a \in Actor /\ a \notin Worker
  BY DEF Actor, Pass, PolicyAssumption
<1>2. n \in Job /\ n.op = "pass" /\ n.step = "stranded"
  BY DEF Idle, Job, Doc, Nothing, Step, Todo
<1>3. job' = [job EXCEPT ![a] = n]
  BY DEF Started
<1> HIDE DEF n
<1>4. Regular(a, n) /\ Follows(n, job[a], "neither") /\ Released(n)
  BY <1>1, <1>2 DEF Regular, Follows, Released, PlacedBy, DoneBy, Applying
<1>5. Released(job[a])
  BY <1>1 DEF JobInv, Regular, Released
<1> QED
  BY <1>1, <1>2, <1>3, <1>4, <1>5 DEF Calm, Becomes

\* The edits that start a pass, and the passes that are asked for.
LEMMA PassStartKeeps ==
    ASSUME PolicyAssumption, IInv,
           RemovePeering \/ RemoveDomain \/ TimerPass \/ RequestedPass
    PROVE  IInv'
<1>1. UNCHANGED <<state, vlan, accepted, live, approved>> /\ lock' = lock
  BY DEF RemovePeering, RemoveDomain, TimerPass, RequestedPass, DeletePeering, rows, policy
<1>2. RowType'
  <2>1. CASE RemovePeering
    BY <2>1 DEF RemovePeering, DeletePeering, Event, rows, IInv, RowType, PolicyAssumption
  <2>2. CASE RemoveDomain
    BY <2>2 DEF RemoveDomain, DeleteDomain, Event, rows, IInv, RowType, PolicyAssumption
  <2>3. CASE TimerPass \/ RequestedPass
    BY <2>3 DEF TimerPass, RequestedPass, Event, rows, policy, IInv, RowType, PolicyAssumption
  <2> QED
    BY <2>1, <2>2, <2>3
<1>3. \E a \in Pass, pair \in Pair \cup {None} : job[a].op = "none" /\ Started(a, pair)
  <2>1. \A p \in peerings : p \in Pair
    BY DEF IInv, RowType
  <2> QED
    BY <2>1 DEF RemovePeering, RemoveDomain, TimerPass, RequestedPass, Pass
<1>4. PICK a \in Actor, n \in Job : Calm(a, n)
  BY <1>1, <1>3, StartedCalm DEF IInv
<1> QED
  BY <1>1, <1>2, <1>4, KeepsRows

\* The steps of a handler or a pass that decide what it does next.
LEMMA ReadKeeps ==
    ASSUME PolicyAssumption, IInv, NEW a \in Actor,
           ReadRevision(a) \/ LockRefused(a) \/ ObserveGateway(a) \/ ObserveAccess(a) \/ Report(a)
    PROVE  IInv'
<1> DEFINE j == job[a]
<1>1. /\ UNCHANGED <<state, vlan, accepted, peerings, domains, approved, live, events>>
      /\ lock' = lock
  BY DEF ReadRevision, LockRefused, ObserveGateway, ObserveAccess, Report, rows, policy
<1>2. RowType'
  BY <1>1 DEF IInv, RowType
<1>3. j \in Job /\ Regular(a, j) /\ JobInv /\ j.todo \in Todo
  BY DEF IInv, JobInv, Job
<1>4. \E n \in Job : Calm(a, n)
  <2>1. CASE j.step \in {"revision", "lock"} /\ job' = Thrown(a)
    <3>1. PICK n \in Job : Thrown(a) = [job EXCEPT ![a] = n] /\ Regular(a, n)
                           /\ Follows(n, job[a], "neither") /\ Released(n)
      BY <1>3, <2>1, Outcomes DEF Applying
    <3> QED
      BY <1>1, <2>1, <3>1 DEF Calm, Becomes, Released
  <2>2. CASE Released(j) /\ job' = [job EXCEPT ![a] = Idle]
    <3>1. Idle \in Job /\ Regular(a, Idle) /\ Follows(Idle, j, "neither") /\ Released(Idle)
      BY IdleRegular DEF Regular, Follows, Idle, Released
    <3> QED
      BY <1>1, <2>2, <3>1 DEF Calm, Becomes
  <2>3. CASE ReadRevision(a) /\ PlanExists(Target(a))
    <3> DEFINE n == [j EXCEPT !.step = "lock", !.expected = PlanNow(Target(a))]
    <3>1. PlanNow(Target(a)) \in Doc
      BY GroupsServed, PlanTyped DEF IInv, PlanNow
    <3>2. n \in Job /\ n.op = j.op /\ n.group = j.group /\ n.todo = j.todo /\ n.step = "lock"
      <4> HIDE DEF j
      <4> QED
        BY <1>3, <3>1 DEF Job, Step, Applying
    <3>3. job' = [job EXCEPT ![a] = n] /\ j.step = "revision"
      BY <2>3 DEF ReadRevision
    <3> HIDE DEF n
    <3>4. Regular(a, n) /\ Follows(n, j, "neither") /\ Released(n) /\ Released(j)
      BY <1>3, <3>2, <3>3 DEF Regular, Follows, Released, PlacedBy, DoneBy, Applying
    <3> QED
      BY <1>1, <3>2, <3>3, <3>4 DEF Calm, Becomes
  <2>4. CASE ObserveGateway(a) /\ job' # [job EXCEPT ![a] = Idle]
    <3>1. PICK todo \in {<<>>, <<"gateway">>} :
            job' = [job EXCEPT ![a] = [@ EXCEPT !.step = "access", !.todo = todo]]
      BY <2>4 DEF ObserveGateway
    <3> DEFINE n == [j EXCEPT !.step = "access", !.todo = todo]
    <3>2. n \in Job /\ n.op = j.op /\ n.group = j.group /\ n.todo = todo /\ n.step = "access"
      <4> HIDE DEF j
      <4> QED
        BY <1>3, <3>1 DEF Job, Step, Todo
    <3>3. job' = [job EXCEPT ![a] = n] /\ j.step = "gateway"
      BY <2>4, <3>1 DEF ObserveGateway
    <3> HIDE DEF n
    <3>4. Regular(a, n) /\ Follows(n, j, "neither") /\ Released(n) /\ Released(j)
      BY <1>3, <3>2, <3>3 DEF Regular, Follows, Released, PlacedBy, DoneBy, Applying
    <3> QED
      BY <1>1, <3>2, <3>3, <3>4 DEF Calm, Becomes
  <2>5. CASE ObserveAccess(a)
    <3>1. j.step = "access" /\ j.op = "pass" /\ j.todo \in {<<>>, <<"gateway">>}
      BY <1>3, <2>5 DEF ObserveAccess, Regular
    <3>2. PICK todo \in Todo, step \in {"last", "revision"} :
            /\ job' = [job EXCEPT ![a] = [@ EXCEPT !.todo = todo, !.step = step]]
            /\ step = "revision" => todo # <<>>
      <4>1. j.todo \in Todo /\ <<"access">> \o j.todo \in Todo
        BY <3>1, AccessFirst DEF Todo
      <4> QED
        BY <2>5, <4>1 DEF ObserveAccess
    <3> DEFINE n == [j EXCEPT !.todo = todo, !.step = step]
    <3>3. n \in Job /\ n.op = j.op /\ n.group = j.group /\ n.todo = todo /\ n.step = step
      <4> HIDE DEF j
      <4> QED
        BY <1>3, <3>2 DEF Job, Step, Applying
    <3>4. job' = [job EXCEPT ![a] = n]
      BY <3>2
    <3> HIDE DEF n
    <3>5. Regular(a, n) /\ Follows(n, j, "neither") /\ Released(n) /\ Released(j)
      BY <1>3, <3>1, <3>2, <3>3 DEF Regular, Follows, Released, PlacedBy, DoneBy, Applying
    <3> QED
      BY <1>1, <3>3, <3>4, <3>5 DEF Calm, Becomes
  <2>6. \/ j.step \in {"revision", "lock"} /\ job' = Thrown(a)
        \/ Released(j) /\ job' = [job EXCEPT ![a] = Idle]
        \/ ReadRevision(a) /\ PlanExists(Target(a))
        \/ ObserveGateway(a) /\ job' # [job EXCEPT ![a] = Idle]
        \/ ObserveAccess(a)
    BY DEF ReadRevision, LockRefused, ObserveGateway, Report, Released
  <2> QED
    BY <2>1, <2>2, <2>3, <2>4, <2>5, <2>6
<1> QED
  BY <1>1, <1>2, <1>4, KeepsRows

-----------------------------------------------------------------------------
(* Steps that move the rows. *)

\* Counted on is reserved or handed over: what a teardown asks of the rows.
LEMMA PlacedHasInstance ==
    ASSUME PolicyAssumption, JobInv, NEW g \in Group, Placed(accepted, job, g)
    PROVE  HasInstance(g)
<1>1. CASE accepted[g]
  BY <1>1 DEF HasInstance
<1>2. ASSUME NEW b \in Actor, PlacedBy(job[b]), job[b].group = g
      PROVE  HasInstance(g)
  <2>1. job[b].op = "create" /\ job[b].step # "attached"
    BY <1>2 DEF PlacedBy, Applying
  <2>2. b \in Worker
    BY <2>1 DEF JobInv, Regular, Actor
  <2> QED
    BY <1>2, <2>1, <2>2 DEF HasInstance, Reserved
<1> QED
  BY <1>1, <1>2 DEF Placed

\* A handler that is free takes up a job that counts on nothing yet.
LEMMA TakesUp ==
    ASSUME PolicyAssumption, JobInv, NEW w \in Worker, NEW g \in Group, Free(w), lock' = lock,
           \/ job' = [job EXCEPT ![w] = [Idle EXCEPT !.op = "create", !.group = g,
                                                    !.step = "attached"]]
           \/ job' = [job EXCEPT ![w] = [Idle EXCEPT !.op = "teardown", !.group = g,
                                            !.todo = <<"gateway", "access">>,
                                            !.step = "revision"]]
    PROVE  w \in Actor /\ \E n \in Job : Calm(w, n)
<1>1. w \in Actor /\ w \notin Pass
  BY DEF Actor, Pass, PolicyAssumption
<1>2. PICK n \in Job :
        /\ job' = [job EXCEPT ![w] = n] /\ n.group = g
        /\ \/ n.op = "create" /\ n.step = "attached"
           \/ n.op = "teardown" /\ n.step = "revision" /\ n.todo = <<"gateway", "access">>
  <2> DEFINE created == [Idle EXCEPT !.op = "create", !.group = g, !.step = "attached"]
             torn == [Idle EXCEPT !.op = "teardown", !.group = g,
                                  !.todo = <<"gateway", "access">>, !.step = "revision"]
  <2>1. /\ created \in Job /\ created.group = g
        /\ created.op = "create" /\ created.step = "attached"
    BY DEF Idle, Job, Doc, Nothing, Todo, Step, Applying
  <2>2. /\ torn \in Job /\ torn.group = g /\ torn.op = "teardown"
        /\ torn.step = "revision" /\ torn.todo = <<"gateway", "access">>
    BY DEF Idle, Job, Doc, Nothing, Todo, Step, Applying
  <2>3. job' = [job EXCEPT ![w] = created] \/ job' = [job EXCEPT ![w] = torn]
    OBVIOUS
  <2> HIDE DEF created, torn
  <2> QED
    BY <2>1, <2>2, <2>3
<1>3. Regular(w, n) /\ Follows(n, job[w], "neither") /\ Released(n)
  BY <1>1, <1>2, TodoOfCreate DEF Regular, Follows, Released, PlacedBy, DoneBy, Applying
<1>4. Released(job[w])
  BY <1>1 DEF JobInv, Regular, Free, Released
<1> QED
  BY <1>1, <1>2, <1>3, <1>4 DEF Calm, Becomes

LEMMA AttachKeeps ==
    ASSUME PolicyAssumption, IInv, NEW w \in Worker, NEW g \in Group, Attach(w, g)
    PROVE  IInv'
<1>1. UNCHANGED <<accepted, peerings, domains, approved, live, lock>> /\ Event
  BY DEF Attach, policy
<1>2. /\ vlan' \in [Group -> Net]
      /\ \A h \in Group \ {g} : vlan'[h] = vlan[h]
      /\ vlan'[g] # None
      /\ \/ vlan[g] # None /\ vlan'[g] = vlan[g]
         \/ vlan[g] = None /\ \A h \in Group : vlan[h] # vlan'[g]
  <2>1. CASE vlan[g] # None
    BY <2>1 DEF Attach, IInv, RowType
  <2>2. CASE vlan[g] = None
    <3>1. PICK v \in Vlan \ Held : vlan' = [vlan EXCEPT ![g] = v]
      BY <2>2 DEF Attach
    <3>2. v # None /\ \A h \in Group : vlan[h] # v
      BY <3>1 DEF Held, PolicyAssumption
    <3>3. vlan' \in [Group -> Net]
      BY <3>1 DEF IInv, RowType, Net
    <3> QED
      BY <2>2, <3>1, <3>2, <3>3 DEF IInv, RowType
  <2> QED
    BY <2>1, <2>2
<1>3. /\ state' = [state EXCEPT ![g] = IF @ = "active" THEN @ ELSE "creating"]
      /\ state[g] \in {"planned", "creating", "active", "error"}
  BY DEF Attach
<1>4. RowType'
  <2>1. events' \in 0..MaxEvents
    BY <1>1 DEF Event, IInv, RowType, PolicyAssumption
  <2> QED
    BY <1>1, <1>2, <1>3, <2>1 DEF IInv, RowType
<1>5. Allocated'
  BY <1>2, <1>3 DEF IInv, RowType, Allocated
<1>6. \A h \in Group : Placed(accepted', job', h) /\ Placed(accepted, job, h) =>
            vlan'[h] = vlan[h] /\ (Operational(h) => Operational(h)')
  BY <1>2, <1>3 DEF IInv, RowType, PlanInv, Operational
<1>7. PICK n \in Job : w \in Actor /\ Calm(w, n)
  BY <1>1, TakesUp DEF Attach, IInv
<1>8. \A h \in Group : Placed(accepted', job', h) => Placed(accepted, job, h)
  BY <1>1, <1>7, Fewer DEF Calm, IInv
<1> QED
  BY <1>1, <1>4, <1>5, <1>6, <1>7, <1>8, Keeps

LEMMA MarkDeletingKeeps ==
    ASSUME PolicyAssumption, IInv, NEW w \in Worker, NEW g \in Group, MarkDeleting(w, g)
    PROVE  IInv'
<1>1. UNCHANGED <<vlan, accepted, peerings, domains, approved, live, lock>> /\ Event
  BY DEF MarkDeleting, policy
<1>2. state' = [state EXCEPT ![g] = "deleting"] /\ vlan[g] # None /\ ~HasInstance(g)
  BY DEF MarkDeleting
<1>3. RowType'
  <2>1. events' \in 0..MaxEvents
    BY <1>1 DEF Event, IInv, RowType, PolicyAssumption
  <2> QED
    BY <1>1, <1>2, <2>1 DEF IInv, RowType
<1>4. Allocated'
  BY <1>1, <1>2 DEF IInv, RowType, Allocated
<1>5. PICK n \in Job : w \in Actor /\ Calm(w, n)
  BY <1>1, TakesUp DEF MarkDeleting, IInv
<1>6. \A h \in Group : Placed(accepted', job', h) => Placed(accepted, job, h)
  BY <1>1, <1>5, Fewer DEF Calm, IInv
<1>7. \A h \in Group : Placed(accepted, job, h) => h # g
  BY <1>2, PlacedHasInstance DEF IInv
<1>8. \A h \in Group : Placed(accepted', job', h) =>
            vlan'[h] = vlan[h] /\ (Operational(h) => Operational(h)')
  BY <1>1, <1>2, <1>6, <1>7 DEF IInv, RowType, Operational
<1> QED
  BY <1>1, <1>3, <1>4, <1>5, <1>8, Keeps

\* A handler's job ends.
LEMMA EndsCalm ==
    ASSUME PolicyAssumption, JobInv, NEW a \in Actor, Released(job[a]),
           job' = [job EXCEPT ![a] = Idle], lock' = lock
    PROVE  Idle \in Job /\ Calm(a, Idle)
<1>1. Idle \in Job /\ Regular(a, Idle) /\ Follows(Idle, job[a], "neither") /\ Released(Idle)
  BY IdleRegular DEF Regular, Follows, Idle, Released
<1> QED
  BY <1>1 DEF Calm, Becomes

LEMMA AcceptKeeps ==
    ASSUME PolicyAssumption, IInv, NEW w \in Worker, Accept(w)
    PROVE  IInv'
<1> DEFINE g == job[w].group
<1>1. w \in Actor /\ job[w].op = "create" /\ job[w].step = "last" /\ Released(job[w]) /\ g \in Group
  BY DEF Accept, Actor, Released, IInv, JobInv, Regular
<1>2. /\ UNCHANGED <<vlan, peerings, domains, approved, live, lock, events>>
      /\ job' = [job EXCEPT ![w] = Idle]
      /\ accepted' = [accepted EXCEPT ![g] = TRUE]
      /\ state' = [state EXCEPT ![g] = IF @ \in {"creating", "deleting"} THEN "active" ELSE @]
  BY DEF Accept, policy
<1>3. Idle \in Job /\ Calm(w, Idle)
  BY <1>1, <1>2, EndsCalm DEF IInv
<1> HIDE DEF g
<1>4. RowType'
  BY <1>1, <1>2 DEF IInv, RowType
<1>5. Allocated'
  BY <1>1, <1>2 DEF IInv, RowType, Allocated
<1>6. \A h \in Group : accepted'[h] => accepted[h]
            \/ (job[w].op = "create" /\ job[w].step = "last" /\ job[w].group = h)
  BY <1>1, <1>2 DEF IInv, RowType, g
<1>7. \A h \in Group : vlan'[h] = vlan[h] /\ (Operational(h) => Operational(h)')
  BY <1>1, <1>2 DEF IInv, RowType, Operational
<1> QED
  BY <1>1, <1>2, <1>3, <1>4, <1>5, <1>6, <1>7, Keeps

LEMMA CompensateKeeps ==
    ASSUME PolicyAssumption, IInv, NEW w \in Worker, Compensate(w)
    PROVE  IInv'
<1> DEFINE g == job[w].group
<1>1. w \in Actor /\ Released(job[w]) /\ g \in Group
  BY DEF Compensate, Actor, Released, IInv, JobInv, Regular
<1>2. /\ UNCHANGED <<vlan, accepted, peerings, domains, approved, live, lock, events>>
      /\ job' = [job EXCEPT ![w] = Idle]
      /\ state' = [state EXCEPT ![g] = IF @ = "creating" /\ ~accepted[g] THEN "error" ELSE @]
  BY DEF Compensate, policy
<1>3. Idle \in Job /\ Calm(w, Idle)
  BY <1>1, <1>2, EndsCalm DEF IInv
<1> HIDE DEF g
<1>4. RowType'
  BY <1>1, <1>2 DEF IInv, RowType
<1>5. Allocated'
  BY <1>1, <1>2 DEF IInv, RowType, Allocated
<1>6. \A h \in Group : vlan'[h] = vlan[h] /\ (Operational(h) => Operational(h)')
  BY <1>1, <1>2 DEF IInv, RowType, Operational, Allocated
<1> QED
  BY <1>1, <1>2, <1>3, <1>4, <1>5, <1>6, Keeps

LEMMA DeleteRecordKeeps ==
    ASSUME PolicyAssumption, IInv, NEW w \in Worker, DeleteRecord(w)
    PROVE  IInv'
<1> DEFINE g == job[w].group
<1>1. w \in Actor /\ job[w].op = "teardown" /\ Released(job[w]) /\ g \in Group
  BY DEF DeleteRecord, Actor, Released, IInv, JobInv, Regular
<1>2. UNCHANGED <<accepted, domains, approved, live, lock, events>>
      /\ job' = [job EXCEPT ![w] = Idle]
  BY DEF DeleteRecord
<1>3. \/ UNCHANGED <<state, vlan, peerings>>
      \/ /\ ~HasInstance(g) /\ state' = [state EXCEPT ![g] = "gone"]
         /\ vlan' = [vlan EXCEPT ![g] = None] /\ peerings' \subseteq peerings
  BY DEF DeleteRecord
<1>4. Idle \in Job /\ Calm(w, Idle)
  BY <1>1, <1>2, EndsCalm DEF IInv
<1> HIDE DEF g
<1>5. RowType'
  BY <1>1, <1>2, <1>3 DEF IInv, RowType, Net
<1>6. Allocated'
  BY <1>1, <1>3 DEF IInv, RowType, Allocated
<1>7. \A h \in Group : Placed(accepted', job', h) => Placed(accepted, job, h)
  BY <1>1, <1>2, <1>4, Fewer DEF Calm, IInv
<1>8. \A h \in Group : Placed(accepted, job, h) => HasInstance(h)
  BY PlacedHasInstance DEF IInv
<1>9. \A h \in Group : Placed(accepted', job', h) =>
            vlan'[h] = vlan[h] /\ (Operational(h) => Operational(h)')
  BY <1>1, <1>3, <1>7, <1>8 DEF IInv, RowType, Operational
<1> QED
  BY <1>1, <1>2, <1>4, <1>5, <1>6, <1>9, Keeps

LEMMA RecoverStrandedKeeps ==
    ASSUME PolicyAssumption, IInv, NEW a \in Actor, RecoverStranded(a)
    PROVE  IInv'
<1> DEFINE j == job[a]
           n == [j EXCEPT !.step = "gateway"]
<1>1. /\ UNCHANGED <<vlan, accepted, peerings, domains, approved, live, lock, events>>
      /\ job' = [job EXCEPT ![a] = n]
      /\ state' = [h \in Group |-> IF state[h] = "deleting" /\ HasInstance(h)
                                   THEN "creating" ELSE state[h]]
      /\ j.step = "stranded"
  BY DEF RecoverStranded, policy
<1>2. j \in Job /\ Regular(a, j)
  BY DEF IInv, JobInv
<1>3. n \in Job /\ n.op = j.op /\ n.group = j.group /\ n.todo = j.todo /\ n.step = "gateway"
  <2> HIDE DEF j
  <2> QED
    BY <1>2 DEF Job, Step
<1> HIDE DEF n
<1>4. Regular(a, n) /\ Follows(n, j, "neither") /\ Released(n) /\ Released(j)
  BY <1>1, <1>2, <1>3 DEF Regular, Follows, Released, PlacedBy, DoneBy, Applying
<1>5. Calm(a, n)
  BY <1>1, <1>4 DEF Calm, Becomes
<1>6. RowType'
  BY <1>1 DEF IInv, RowType
<1>7. Allocated'
  BY <1>1 DEF IInv, RowType, Allocated
<1>8. \A h \in Group : vlan'[h] = vlan[h] /\ (Operational(h) => Operational(h)')
  BY <1>1 DEF IInv, RowType, Operational
<1> QED
  BY <1>1, <1>3, <1>5, <1>6, <1>7, <1>8, Keeps

-----------------------------------------------------------------------------
(* Steps of a create that lead to its documents. *)

LEMMA ReserveKeeps ==
    ASSUME PolicyAssumption, IInv, NEW w \in Worker, Reserve(w)
    PROVE  IInv'
<1> DEFINE j == job[w]
           n == [j EXCEPT !.step = "vnet"]
<1>1. /\ UNCHANGED <<state, vlan, accepted, peerings, domains, approved, live, lock, events>>
      /\ j.step = "attached" /\ w \in Actor
  BY DEF Reserve, rows, policy, Actor
<1>2. RowType'
  BY <1>1 DEF IInv, RowType
<1>3. CASE job' = [job EXCEPT ![w] = Idle]
  <2>1. Idle \in Job /\ Calm(w, Idle)
    BY <1>1, <1>3, EndsCalm DEF IInv, Released
  <2> QED
    BY <1>1, <1>2, <2>1, KeepsRows
<1>4. CASE job' = [job EXCEPT ![w] = n]
  <2>1. j \in Job /\ Regular(w, j)
    BY <1>1 DEF IInv, JobInv
  <2>2. n \in Job /\ n.op = j.op /\ n.group = j.group /\ n.todo = j.todo /\ n.step = "vnet"
    <3> HIDE DEF j
    <3> QED
      BY <2>1 DEF Job, Step
  <2> HIDE DEF n
  <2>3. Regular(w, n) /\ Follows(n, j, "neither") /\ Released(n) /\ Released(j)
    BY <1>1, <2>1, <2>2 DEF Regular, Follows, Released, PlacedBy, DoneBy, Applying
  <2>4. Calm(w, n)
    BY <1>1, <1>4, <2>3 DEF Calm, Becomes
  <2> QED
    BY <1>1, <1>2, <2>2, <2>4, KeepsRows
<1> QED
  BY <1>3, <1>4 DEF Reserve

\* A group is counted on from here: it is in the plan, and no appliance has
\* been brought to it yet.
LEMMA EnsureVnetKeeps ==
    ASSUME PolicyAssumption, IInv, NEW w \in Worker, EnsureVnet(w)
    PROVE  IInv'
<1> DEFINE j == job[w]
<1>1. /\ UNCHANGED <<state, vlan, accepted, peerings, domains, approved, live, lock, events>>
      /\ j.step = "vnet" /\ w \in Actor
  BY DEF EnsureVnet, rows, policy, Actor
<1>2. RowType'
  BY <1>1 DEF IInv, RowType
<1>3. j \in Job /\ Regular(w, j) /\ Released(j) /\ j.op = "create" /\ j.group \in Group
  BY <1>1 DEF IInv, JobInv, Regular, Released
<1>4. CASE job' = Thrown(w)
  <2>1. PICK n \in Job : job' = [job EXCEPT ![w] = n] /\ Regular(w, n)
                         /\ Follows(n, j, "neither") /\ Released(n)
    BY <1>1, <1>4, Outcomes DEF IInv
  <2>2. Calm(w, n)
    BY <1>1, <1>3, <2>1 DEF Calm, Becomes
  <2> QED
    BY <1>1, <1>2, <2>2, KeepsRows
<1>5. CASE Operational(j.group) /\ job' = At(w, <<"access", "gateway">>, "revision")
  <2>1. PICK n \in Job : /\ job' = [job EXCEPT ![w] = n]
                         /\ n.op = "create" /\ n.group = j.group
                         /\ n.todo = <<"access", "gateway">> /\ n.step = "revision"
    <3>1. <<"access", "gateway">> \in Todo /\ "revision" \in Step
      BY DEF Todo, Step, Applying
    <3>2. JobInv /\ w \in Actor
      BY <1>1 DEF IInv
    <3>3. PICK n \in Job :
            /\ At(w, <<"access", "gateway">>, "revision") = [job EXCEPT ![w] = n]
            /\ n.op = job[w].op /\ n.group = job[w].group
            /\ n.todo = <<"access", "gateway">> /\ n.step = "revision"
      BY <3>1, <3>2, Restarts
    <3> QED
      BY <1>3, <1>5, <3>3
  <2>2. Regular(w, n) /\ Released(n) /\ \A x \in Appliance : ~DoneBy(n, x)
    BY <1>1, <1>3, <2>1, TodoOfCreate DEF Regular, Released, DoneBy, Applying, Appliance
  <2>3. JobInv' /\ job'[w] = n /\ \A b \in Actor \ {w} : job'[b] = job[b]
    BY <1>1, <2>1, <2>2, Becoming DEF Becomes, IInv
  <2>4. LockType'
    BY <1>1, <1>3, <2>2, <2>3 DEF IInv, LockType
  <2>5. \A g \in Group :
          /\ Placed(accepted', job', g) => Placed(accepted, job, g) \/ g = j.group
          /\ \A x \in Appliance : Secured(accepted', job', g, x) => Secured(accepted, job, g, x)
    BY <1>1, <2>1, <2>2, <2>3 DEF Placed, Secured
  <2>6. Allocated'
    BY <1>1 DEF IInv, Allocated
  <2>7. vlan[j.group] # None
    BY <1>3, <1>5 DEF IInv, Allocated, Operational
  <2>8. PlanInv'
    <3>1. \A g \in Group : Placed(accepted', job', g) => Operational(g) /\ vlan[g] # None
      BY <1>5, <2>5, <2>7 DEF IInv, PlanInv
    <3> QED
      BY <1>1, <3>1 DEF PlanInv, Operational
  <2>9. DocInv'
    <3>1. \A b \in Actor : ~Released(job'[b]) => job'[b] = job[b]
      BY <2>2, <2>3
    <3> QED
      BY <1>1, <2>5, <3>1 DEF IInv, DocInv
  <2>10. LiveInv'
    BY <1>1, <2>5 DEF IInv, LiveInv
  <2> QED
    BY <1>2, <2>3, <2>4, <2>6, <2>8, <2>9, <2>10 DEF IInv
<1> QED
  BY <1>4, <1>5 DEF EnsureVnet

-----------------------------------------------------------------------------
(* Inside the lock. *)

\* The lock is given back with nothing done.
LEMMA GivesUp ==
    ASSUME PolicyAssumption, IInv, NEW a \in Actor, job[a].step \in Applying,
           UNCHANGED <<state, vlan, accepted, peerings, domains, approved, live, events>>,
           lock \in {a, None}, lock' = None, lock = None => Released(job[a]),
           job' = Thrown(a) \/ job' \in Conflicted(a)
    PROVE  IInv'
<1>1. PICK n \in Job : job' = [job EXCEPT ![a] = n] /\ Regular(a, n)
                       /\ Follows(n, job[a], "neither") /\ Released(n)
  BY Outcomes DEF IInv
<1>2. Calm(a, n)
  BY <1>1 DEF Calm, Becomes
<1>3. RowType'
  BY DEF IInv, RowType
<1> QED
  BY <1>2, <1>3, KeepsRows

\* The holder a has read its document, or half of it: n serves every group
\* the appliance has to serve.
LEMMA Holds ==
    ASSUME PolicyAssumption, IInv, NEW a \in Actor, NEW n \in Job,
           UNCHANGED <<state, vlan, accepted, peerings, domains, approved, live, events>>,
           lock \in {a, None}, lock' = a, Becomes(a, n), Follows(n, job[a], "neither"), ~Released(n),
           \A g \in Group : /\ \/ Secured(accepted, job, g, Head(n.todo))
                               \/ PlacedBy(n) /\ n.group = g
                            /\ Head(n.todo) \in Appliance
                => Serves(ReadBy(n), vlan[g], g),
           n.step = "apply" /\ Head(n.todo) = "gateway" => OfPairs(n.expected, approved)
    PROVE  IInv'
<1>1. JobInv' /\ job'[a] = n /\ \A b \in Actor \ {a} : job'[b] = job[b]
  BY Becoming DEF IInv
<1>2. \A b \in Actor \ {a} : Released(job'[b])
  <2>1. \A b \in Actor : b # None
    BY DEF PolicyAssumption, Actor, Pass
  <2> QED
    BY <1>1, <2>1 DEF IInv, LockType
<1>3. LockType'
  BY <1>1, <1>2 DEF LockType
<1>4. \A g \in Group :
        /\ Placed(accepted', job', g) => Placed(accepted, job, g)
        /\ \A y \in Appliance : Secured(accepted', job', g, y) => Secured(accepted, job, g, y)
  <2>1. \A g \in Group :
        /\ Placed(accepted', job', g) => Placed(accepted, job, g)
        /\ \A y \in Appliance : Secured(accepted', job', g, y) =>
            \/ Secured(accepted, job, g, y)
            \/ (y = "neither" /\ PlacedBy(job[a]) /\ job[a].group = g)
    BY Fewer DEF IInv
  <2> QED
    BY <2>1 DEF Appliance
<1>5. RowType' /\ Allocated'
  BY DEF IInv, RowType, Allocated
<1>6. PlanInv'
  BY <1>4 DEF IInv, PlanInv, Operational
<1>7. DocInv'
  BY <1>1, <1>2, <1>4 DEF DocInv
<1>8. LiveInv'
  BY <1>4 DEF IInv, LiveInv
<1> QED
  BY <1>1, <1>3, <1>5, <1>6, <1>7, <1>8 DEF IInv

LEMMA TakeLockKeeps ==
    ASSUME PolicyAssumption, IInv, NEW a \in Actor, TakeLock(a)
    PROVE  IInv'
<1> DEFINE j == job[a]
<1>1. /\ UNCHANGED <<state, vlan, accepted, peerings, domains, approved, live, events>>
      /\ j.step = "lock" /\ lock = None
  BY DEF TakeLock, rows, policy
<1>2. /\ j \in Job /\ Regular(a, j) /\ Released(j) /\ j.step \in Applying
      /\ j.todo \in Todo /\ j.todo # <<>> /\ Head(j.todo) \in Appliance
  BY <1>1, TodoEnds DEF IInv, JobInv, Regular, Released, Applying, Job
<1>3. /\ GroupsRead \in SUBSET Iface
      /\ \A g \in Group : Placed(accepted, job, g) => Serves(GroupsRead, vlan[g], g)
  BY GroupsServed DEF IInv, PlanInv
<1>4. \A g \in Group, x \in Appliance :
        \/ Secured(accepted, job, g, x)
        \/ PlacedBy(j) /\ j.group = g
        => Serves(GroupsRead, vlan[g], g)
  BY <1>3, Counted
<1>5. ASSUME NEW n \in Job, job' = [job EXCEPT ![a] = n], lock' = a,
             n.op = j.op, n.group = j.group, n.todo = j.todo,
             n.step \in {"plan", "apply"}, ReadBy(n) = GroupsRead,
             n.step = "plan" <=> Head(j.todo) = "gateway"
      PROVE  IInv'
  <2>1. Regular(a, n) /\ Follows(n, j, "neither") /\ ~Released(n) /\ PlacedBy(n) = PlacedBy(j)
    BY <1>1, <1>2, <1>5 DEF Regular, Follows, Released, PlacedBy, DoneBy, Applying
  <2>2. n.step = "apply" => Head(n.todo) # "gateway"
    BY <1>5
  <2>3. \A g \in Group : /\ \/ Secured(accepted, job, g, Head(n.todo))
                            \/ PlacedBy(n) /\ n.group = g
                         /\ Head(n.todo) \in Appliance
                => Serves(ReadBy(n), vlan[g], g)
    BY <1>4, <1>5, <2>1
  <2> QED
    BY <1>1, <1>5, <2>1, <2>2, <2>3, Holds DEF Becomes
<1>6. CASE Target(a) = "access"
  <2>1. Decide(a, GroupsRead, {})
    BY <1>6 DEF TakeLock
  <2>2. CASE job' \in Conflicted(a) /\ lock' = None
    BY <1>1, <1>2, <2>2, GivesUp
  <2>3. CASE /\ j.expected = AccessPlan(GroupsRead)
             /\ job' = [job EXCEPT ![a] = [@ EXCEPT !.step = "apply", !.interfaces = {}]]
             /\ lock' = a
    <3> DEFINE n == [j EXCEPT !.step = "apply", !.interfaces = {}]
    <3>1. /\ n \in Job /\ n.op = j.op /\ n.group = j.group /\ n.todo = j.todo
          /\ n.step = "apply" /\ n.expected = j.expected
      <4> HIDE DEF j
      <4> QED
        BY <1>2 DEF Job, Step, Applying
    <3>2. job' = [job EXCEPT ![a] = n]
      BY <2>3
    <3> HIDE DEF n
    <3>3. ReadBy(n) = GroupsRead
      BY <2>3, <3>1 DEF ReadBy, AccessPlan
    <3> QED
      BY <1>5, <1>6, <2>3, <3>1, <3>2, <3>3 DEF Target
  <2> QED
    BY <1>6, <2>1, <2>2, <2>3 DEF Decide
<1>7. CASE Target(a) # "access"
  <2>1. /\ lock' = a
        /\ job' = [job EXCEPT ![a] = [@ EXCEPT !.step = "plan", !.interfaces = GroupsRead]]
    BY <1>7 DEF TakeLock
  <2> DEFINE n == [j EXCEPT !.step = "plan", !.interfaces = GroupsRead]
  <2>2. /\ n \in Job /\ n.op = j.op /\ n.group = j.group /\ n.todo = j.todo
        /\ n.step = "plan" /\ n.interfaces = GroupsRead
    <3> HIDE DEF j
    <3> QED
      BY <1>2, <1>3 DEF Job, Step, Applying
  <2>3. job' = [job EXCEPT ![a] = n]
    BY <2>1
  <2> HIDE DEF n
  <2>4. ReadBy(n) = GroupsRead /\ Head(j.todo) = "gateway"
    BY <1>2, <1>7, <2>2 DEF ReadBy, Target, Appliance
  <2> QED
    BY <1>5, <2>1, <2>2, <2>3, <2>4
<1> QED
  BY <1>6, <1>7

LEMMA ReadPeeringsKeeps ==
    ASSUME PolicyAssumption, IInv, NEW a \in Actor, ReadPeerings(a)
    PROVE  IInv'
<1> DEFINE j == job[a]
<1>1. /\ UNCHANGED <<state, vlan, accepted, peerings, domains, approved, live, events>>
      /\ j.step = "plan" /\ Decide(a, j.interfaces, PeeringsRead)
  BY DEF ReadPeerings, rows, policy
<1>2. /\ j \in Job /\ Regular(a, j) /\ ~Released(j) /\ lock = a
      /\ Head(j.todo) = "gateway" /\ Target(a) = "gateway" /\ a # None
  BY <1>1 DEF IInv, JobInv, Regular, Released, LockType, Target, PolicyAssumption, Actor, Pass
<1>3. CASE (job' = Thrown(a) \/ job' \in Conflicted(a)) /\ lock' = None
  <2>1. j.step \in Applying
    BY <1>1 DEF Applying
  <2> QED
    BY <1>1, <1>2, <1>3, <2>1, GivesUp
<1>4. CASE /\ j.expected = GatewayPlan(j.interfaces, PeeringsRead)
           /\ job' = [job EXCEPT ![a] = [@ EXCEPT !.step = "apply", !.interfaces = {}]]
           /\ lock' = a
  <2> DEFINE n == [j EXCEPT !.step = "apply", !.interfaces = {}]
  <2>1. /\ n \in Job /\ n.op = j.op /\ n.group = j.group /\ n.todo = j.todo
        /\ n.step = "apply" /\ n.expected = j.expected
    <3> HIDE DEF j
    <3> QED
      BY <1>2 DEF Job, Step, Applying
  <2>2. job' = [job EXCEPT ![a] = n]
    BY <1>4
  <2> HIDE DEF n
  <2>3. /\ Regular(a, n) /\ Follows(n, j, "neither") /\ ~Released(n)
        /\ PlacedBy(n) = PlacedBy(j)
    BY <1>1, <1>2, <2>1 DEF Regular, Follows, Released, PlacedBy, DoneBy, Applying
  <2>4. ReadBy(n) = ReadBy(j)
    BY <1>1, <1>4, <2>1 DEF ReadBy, GatewayPlan
  <2>5. OfPairs(n.expected, approved)
    <3>1. PeeringsRead \in SUBSET approved
      BY DEF PeeringsRead, IInv, RowType
    <3> QED
      BY <1>4, <2>1, <3>1 DEF OfPairs, GatewayPlan
  <2>6. \A g \in Group : /\ \/ Secured(accepted, job, g, Head(n.todo))
                            \/ PlacedBy(n) /\ n.group = g
                         /\ Head(n.todo) \in Appliance
                => Serves(ReadBy(n), vlan[g], g)
    BY <1>2, <2>1, <2>3, <2>4 DEF IInv, DocInv
  <2> QED
    BY <1>1, <1>2, <1>4, <2>1, <2>2, <2>3, <2>5, <2>6, Holds DEF Becomes
<1> QED
  BY <1>1, <1>2, <1>3, <1>4 DEF Decide

\* What the holder read is in force; its component may count as applied.
LEMMA Loads ==
    ASSUME PolicyAssumption, IInv, NEW a \in Actor, job[a].step = "apply", InForce(a),
           NEW n \in Job, Becomes(a, n), NEW x \in {Target(a), "neither"},
           Follows(n, job[a], x), Released(n), lock' = None,
           UNCHANGED <<state, vlan, accepted, peerings, domains, approved>>, RowType'
    PROVE  IInv'
<1> DEFINE j == job[a]
           y == Target(a)
<1>1. /\ j \in Job /\ Regular(a, j) /\ ~Released(j) /\ lock = a /\ y \in Appliance
      /\ j.expected \in Doc /\ ReadBy(j) = j.expected.interfaces /\ y = Head(j.todo)
  <2>1. j \in Job /\ Regular(a, j) /\ ~Released(j) /\ j.step \in Applying
    BY DEF IInv, JobInv, Released, Applying
  <2>2. Head(j.todo) \in Appliance
    BY <2>1, TodoEnds DEF Job, Regular
  <2> QED
    BY <2>1, <2>2 DEF IInv, LockType, Target, Job, ReadBy
<1>2. JobInv' /\ job'[a] = n /\ \A b \in Actor \ {a} : job'[b] = job[b]
  BY Becoming DEF IInv
<1>3. \A b \in Actor : Released(job'[b])
  BY <1>1, <1>2 DEF IInv, LockType
<1>4. LockType' /\ DocInv'
  <2>1. None \notin Actor
    BY DEF PolicyAssumption, Actor, Pass
  <2> QED
    BY <1>3, <2>1 DEF LockType, DocInv
<1>5. \A g \in Group :
        /\ Placed(accepted', job', g) => Placed(accepted, job, g)
        /\ \A z \in Appliance : Secured(accepted', job', g, z) =>
            \/ Secured(accepted, job, g, z)
            \/ (z = x /\ PlacedBy(job[a]) /\ job[a].group = g)
  BY Fewer DEF IInv
<1>6. Allocated' /\ PlanInv'
  BY <1>5 DEF IInv, Allocated, PlanInv, Operational
<1>7. LiveInv'
  <2> DEFINE r == Rendered(y, j.expected)
  <2>1. /\ r.files.networkd = {i.vlan : i \in r.revision.interfaces}
        /\ \A v, g : Serves(j.expected.interfaces, v, g) => Serves(r.revision.interfaces, v, g)
        /\ y = "gateway" =>
            /\ r.revision = j.expected
            /\ r.files.nftables = RenderNftables(r.files.networkd, j.expected.edges)
    BY <1>1, RenderedServes
  <2>2. live' = [live EXCEPT ![y] = r]
    BY DEF InForce
  <2> HIDE DEF r, y
  <2>3. /\ live' = [z \in Appliance |-> live'[z]]
        /\ live'[y] = r /\ \A z \in Appliance \ {y} : live'[z] = live[z]
    BY <1>1, <2>2 DEF IInv, LiveInv
  <2>4. \A z \in Appliance :
            live'[z].files.networkd = {i.vlan : i \in live'[z].revision.interfaces}
    BY <2>1, <2>3 DEF IInv, LiveInv
  <2>5. /\ live'["gateway"].files.nftables =
            RenderNftables(live'["gateway"].files.networkd, live'["gateway"].revision.edges)
        /\ OfPairs(live'["gateway"].revision, approved')
    <3>1. CASE y = "gateway"
      <4>1. OfPairs(j.expected, approved)
        BY <1>1, <3>1 DEF IInv, DocInv
      <4> QED
        BY <2>1, <2>3, <3>1, <4>1
    <3>2. CASE y # "gateway"
      BY <2>3, <3>2 DEF IInv, LiveInv, Appliance
    <3> QED
      BY <3>1, <3>2
  <2>6. ASSUME NEW g \in Group, NEW z \in Appliance, Secured(accepted', job', g, z)
        PROVE  Serves(live'[z].revision.interfaces, vlan[g], g)
    <3>1. CASE z = y
      <4>1. Secured(accepted, job, g, y) \/ (PlacedBy(j) /\ j.group = g)
        BY <1>5, <2>6, <3>1
      <4>2. Serves(j.expected.interfaces, vlan[g], g)
        BY <1>1, <4>1 DEF IInv, DocInv
      <4> QED
        BY <2>1, <2>3, <3>1, <4>2
    <3>2. CASE z # y
      <4>1. Secured(accepted, job, g, z)
        BY <1>5, <2>6, <3>2 DEF Appliance, y
      <4> QED
        BY <2>3, <3>2, <4>1 DEF IInv, LiveInv
    <3> QED
      BY <3>1, <3>2
  <2> QED
    BY <2>3, <2>4, <2>5, <2>6 DEF LiveInv
<1> QED
  BY <1>2, <1>4, <1>6, <1>7 DEF IInv

LEMMA ApplyKeeps ==
    ASSUME PolicyAssumption, IInv, NEW a \in Actor, ApplySucceeds(a) \/ ApplyFails(a)
    PROVE  IInv'
<1>1. /\ UNCHANGED <<state, vlan, accepted, peerings, domains, approved>>
      /\ job[a].step = "apply" /\ lock' = None
  BY DEF ApplySucceeds, ApplyFails, rows, policy
<1>2. RowType'
  BY <1>1 DEF ApplySucceeds, ApplyFails, Event, IInv, RowType, PolicyAssumption
<1>3. CASE ApplySucceeds(a)
  <2>1. PICK n \in Job : job' = [job EXCEPT ![a] = n] /\ Regular(a, n)
                         /\ Follows(n, job[a], Target(a)) /\ Released(n)
    BY <1>1, <1>3, Advances DEF ApplySucceeds, IInv
  <2> QED
    BY <1>1, <1>2, <1>3, <2>1, Loads DEF ApplySucceeds, Becomes
<1>4. CASE ApplyFails(a)
  <2>1. PICK n \in Job : job' = [job EXCEPT ![a] = n] /\ Regular(a, n)
                         /\ Follows(n, job[a], "neither") /\ Released(n)
    BY <1>1, <1>4, Outcomes DEF ApplyFails, IInv, Applying
  <2>2. CASE InForce(a)
    BY <1>1, <1>2, <2>1, <2>2, Loads DEF Becomes
  <2>3. CASE UNCHANGED live
    <3>1. lock = a
      BY <1>1 DEF IInv, LockType, Released
    <3>2. Calm(a, n)
      BY <1>1, <2>1, <3>1 DEF Calm, Becomes
    <3> QED
      BY <1>1, <1>2, <2>3, <3>2, KeepsRows
  <2> QED
    BY <1>4, <2>2, <2>3 DEF ApplyFails
<1> QED
  BY <1>3, <1>4 DEF ApplySucceeds, ApplyFails

-----------------------------------------------------------------------------
(* The theorems. *)

LEMMA InitInv == ASSUME PolicyAssumption, Init PROVE IInv
<1>1. JobInv /\ \A b \in Actor : /\ job[b] = Idle /\ Released(job[b]) /\ ~PlacedBy(job[b])
                                 /\ \A x \in Appliance : ~DoneBy(job[b], x)
  <2>1. \A b \in Actor : job[b] = Idle
    BY DEF Init
  <2>2. Idle \in Job /\ Released(Idle)
    <3>1. Timer \in Actor
      BY DEF Actor, Pass
    <3> QED
      BY <3>1, IdleRegular DEF Regular, Idle, Released
  <2>3. job = [b \in Actor |-> Idle]
    BY DEF Init
  <2> QED
    BY <2>1, <2>2, <2>3, IdleRegular DEF JobInv
<1>2. RowType
  BY DEF Init, RowType, Net, PolicyAssumption
<1>3. LockType /\ DocInv
  <2>1. None \notin Actor
    BY DEF PolicyAssumption, Actor, Pass
  <2> QED
    BY <1>1, <2>1 DEF Init, LockType, DocInv
<1>4. Allocated /\ \A g \in Group : accepted[g] => state[g] = "active" /\ vlan[g] # None
  BY DEF Init, Allocated
<1>5. PlanInv
  BY <1>1, <1>4 DEF PlanInv, Placed, Operational
<1>6. LiveInv
  <2> DEFINE served == {g \in Group : vlan[g] # None}
             interfaces == {[group |-> g, vlan |-> vlan[g], domains |-> {}] : g \in served}
             pairs == {p \in peerings : p \subseteq served}
             Plan(x) == IF x = "gateway" THEN GatewayPlan(interfaces, pairs)
                        ELSE AccessPlan(interfaces)
  <2>1. live = [x \in Appliance |-> Rendered(x, Plan(x))]
    BY DEF Init
  <2>2. interfaces \in SUBSET Iface
    BY <1>2 DEF RowType, Iface
  <2>3. \A g \in served : Serves(interfaces, vlan[g], g)
    <3>1. /\ \A i \in interfaces : i.group \in served /\ i.vlan = vlan[i.group]
          /\ \A g \in served : \E i \in interfaces : i.group = g /\ i.vlan = vlan[g]
      <4> DEFINE Entry(g) == [group |-> g, vlan |-> vlan[g], domains |-> {}]
      <4>1. \A g \in served : Entry(g).group = g /\ Entry(g).vlan = vlan[g]
        OBVIOUS
      <4>2. interfaces = {Entry(g) : g \in served}
        OBVIOUS
      <4> HIDE DEF Entry, interfaces, served
      <4> QED
        BY <4>1, <4>2
    <3>2. \A g, h \in served : vlan[g] = vlan[h] => g = h
      BY <1>4 DEF Allocated
    <3> HIDE DEF interfaces, served
    <3> QED
      BY <3>1, <3>2 DEF Serves
  <2>4. pairs \in SUBSET approved
    BY <1>2 DEF RowType
  <2> HIDE DEF interfaces, pairs
  <2>5. \A x \in Appliance : Plan(x) \in Doc /\ Plan(x).interfaces = interfaces
    BY <2>2, PlanTyped DEF GatewayPlan, AccessPlan
  <2>6. OfPairs(Plan("gateway"), approved)
    BY <2>4 DEF OfPairs, GatewayPlan
  <2> HIDE DEF Plan
  <2>7. \A x \in Appliance :
            /\ live[x].files.networkd = {i.vlan : i \in live[x].revision.interfaces}
            /\ \A g \in served : Serves(live[x].revision.interfaces, vlan[g], g)
            /\ x = "gateway" =>
                /\ live[x].revision = Plan(x)
                /\ live[x].files.nftables = RenderNftables(live[x].files.networkd, Plan(x).edges)
    BY <2>1, <2>3, <2>5, RenderedServes
  <2>8. \A g \in Group, x \in Appliance : Secured(accepted, job, g, x) => g \in served
    BY <1>1, <1>4 DEF Secured
  <2>9. live = [x \in Appliance |-> live[x]]
    BY <2>1
  <2> QED
    BY <2>6, <2>7, <2>8, <2>9 DEF LiveInv, Appliance
<1> QED
  BY <1>1, <1>2, <1>3, <1>4, <1>5, <1>6 DEF IInv

LEMMA NextInv == ASSUME PolicyAssumption, IInv, [Next]_vars PROVE IInv'
<1>1. ASSUME NEW a \in Actor, ApplyStep(a) PROVE IInv'
  BY <1>1, ReadKeeps, TakeLockKeeps, ReadPeeringsKeeps, ApplyKeeps DEF ApplyStep
<1>2. ASSUME NEW w \in Worker, WorkerStep(w) PROVE IInv'
  <2>1. w \in Actor
    BY DEF Actor
  <2> QED
    BY <1>1, <1>2, <2>1, ReserveKeeps, EnsureVnetKeeps, AcceptKeeps, CompensateKeeps,
       DeleteRecordKeeps DEF WorkerStep
<1>3. ASSUME NEW a \in Pass, PassStep(a) PROVE IInv'
  <2>1. a \in Actor
    BY DEF Actor
  <2> QED
    BY <1>1, <1>3, <2>1, RecoverStrandedKeeps, ReadKeeps DEF PassStep
<1>4. CASE AddPeering \/ AddDomain \/ EditProfile \/ UNCHANGED vars
           \/ \E g \in Group : RemoveInstance(g)
  BY <1>4, EditKeeps
<1>5. CASE RemovePeering \/ RemoveDomain \/ TimerPass \/ RequestedPass
  BY <1>5, PassStartKeeps
<1>6. CASE \E w \in Worker, g \in Group : Attach(w, g) \/ MarkDeleting(w, g)
  BY <1>6, AttachKeeps, MarkDeletingKeeps
<1> QED
  BY <1>2, <1>3, <1>4, <1>5, <1>6 DEF Next

\* The rows, the lock and the jobs keep their types, and the lock is held by
\* exactly the handler or pass that reads or applies a document.
THEOREM TypeCorrect == Spec => []TypeOK
<1>1. Init => IInv
  BY InitInv, PolicyAssumption
<1>2. IInv /\ [Next]_vars => IInv'
  BY NextInv, PolicyAssumption
<1> QED
  BY <1>1, <1>2, Typed, PTL DEF Spec

\* Both appliances serve the VLAN of every VM that was handed to its student,
\* for its own group and no other, whatever applies, teardowns, repairs and
\* edits run beside it.
THEOREM AcceptedServed == Spec => []AcceptedIsServed
<1>1. Init => IInv
  BY InitInv, PolicyAssumption
<1>2. IInv /\ [Next]_vars => IInv'
  BY NextInv, PolicyAssumption
<1>3. IInv => AcceptedIsServed
  <2>1. SUFFICES ASSUME IInv, NEW g \in Group, accepted[g], NEW x \in Appliance
                 PROVE  /\ vlan[g] \in live[x].files.networkd
                        /\ Serves(live[x].revision.interfaces, vlan[g], g)
    BY DEF AcceptedIsServed, Serves
  <2>2. Serves(live[x].revision.interfaces, vlan[g], g)
    BY <2>1 DEF IInv, LiveInv, Secured
  <2>3. vlan[g] \in {i.vlan : i \in live[x].revision.interfaces}
    BY <2>2 DEF Serves
  <2>4. live[x].files.networkd = {i.vlan : i \in live[x].revision.interfaces}
    BY <2>1 DEF IInv, LiveInv
  <2> QED
    BY <2>2, <2>3, <2>4
<1> QED
  BY <1>1, <1>2, <1>3, PTL DEF Spec

\* The Gateway forwards between the VLANs of two accepted VMs, in either
\* direction and for replies too, only if their groups were peered.
THEOREM PeersAlone == Spec => []OnlyPeersReach
<1>1. Init => IInv
  BY InitInv, PolicyAssumption
<1>2. IInv /\ [Next]_vars => IInv'
  BY NextInv, PolicyAssumption
<1>3. IInv => OnlyPeersReach
  <2> DEFINE gw == live["gateway"]
  <2>1. SUFFICES ASSUME IInv, NEW g \in Group, NEW h \in Group, NEW reply \in BOOLEAN,
                        accepted[g], accepted[h],
                        Forwards(gw.files.nftables, vlan[g], vlan[h], reply)
                 PROVE  {g, h} \in approved
    BY DEF OnlyPeersReach
  <2>2. Serves(gw.revision.interfaces, vlan[g], g) /\ Serves(gw.revision.interfaces, vlan[h], h)
    BY <2>1 DEF IInv, LiveInv, Secured, Appliance
  <2>3. /\ gw.files.networkd = {i.vlan : i \in gw.revision.interfaces}
        /\ gw.files.nftables = RenderNftables(gw.files.networkd, gw.revision.edges)
    BY <2>1 DEF IInv, LiveInv, Appliance
  <2>4. vlan[g] \in gw.files.networkd /\ vlan[h] \in gw.files.networkd
    BY <2>2, <2>3 DEF Serves
  <2>5. <<vlan[g], vlan[h]>> \in gw.revision.edges
    BY <2>1, <2>3, <2>4, OnlyPairsForward
  <2>6. PICK P \in SUBSET approved : gw.revision.edges = PeeringEdges(gw.revision.interfaces, P)
    BY <2>1 DEF IInv, LiveInv, OfPairs
  <2>7. PICK i \in gw.revision.interfaces, j \in gw.revision.interfaces :
            <<vlan[g], vlan[h]>> = <<i.vlan, j.vlan>> /\ {i.group, j.group} \in P
    BY <2>5, <2>6, EdgeEnds
  <2>8. i.group = g /\ j.group = h
    BY <2>2, <2>7 DEF Serves
  <2> QED
    BY <2>7, <2>8
<1> QED
  BY <1>1, <1>2, <1>3, PTL DEF Spec

=============================================================================
