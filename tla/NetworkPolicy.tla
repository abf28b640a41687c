---------------------------- MODULE NetworkPolicy ----------------------------
(***************************************************************************)
(* How the rows an administrator and the create and teardown handlers edit  *)
(* become the policy in force on the two appliances.  The desired document  *)
(* of an appliance is a function of the operational groups, of the domains  *)
(* of their profiles and of the peerings (getGatewayPlan,                    *)
(* getInfrastructurePlan).  Nobody pushes an edit: a create applies the      *)
(* documents before it starts its VM, a teardown before it releases its      *)
(* VLAN, and the drift pass whenever the appliance differs.  Every apply     *)
(* reads the revision, takes the reconciliation lock, reads the document     *)
(* again and refuses if it moved; the database does not wait for the lock,   *)
(* and the Gateway's document is read in two statements.                     *)
(*                                                                           *)
(* An apply is one step here, with its failures: ApplianceApply and          *)
(* AccessTrunk model what happens inside it, VnetApply the VNet step, and    *)
(* Provisioning the rest of the create and removal handlers.                 *)
(***************************************************************************)
EXTENDS Naturals, FiniteSets, Sequences

CONSTANTS
    Group,          \* ids of network_groups rows; an id is never used again
    Vlan,
    Profile,
    ProfileOf,      \* [Group -> Profile]
    Domain,
    Unrenderable,   \* domains the route accepts and the Gateway plan refuses
    Worker,         \* create and teardown handlers in flight
    Timer, Route,   \* drift passes: the scheduler's, and an administrator's
    None,
    MaxEvents       \* bound: edits, creates and teardowns, and failed applies

ASSUME PolicyAssumption ==
    /\ ProfileOf \in [Group -> Profile]
    /\ Unrenderable \subseteq Domain
    /\ Worker \subseteq Nat /\ Timer # Route
    /\ Worker \cap {Timer, Route} = {}
    /\ None \notin Vlan \cup Group \cup Worker \cup {Timer, Route}
    /\ MaxEvents \in Nat

Appliance == {"gateway", "access"}
Pass == {Timer, Route}
Actor == Worker \cup Pass

\* A peering is a set of two groups: orderPeering stores it one way round.
Pair == {p \in SUBSET Group : Cardinality(p) = 2}

VARIABLES
    state,      \* [Group -> state of the row, "gone" when deleted]
    vlan,       \* [Group -> allocated VLAN or None]
    accepted,   \* [Group -> the group's instance was handed to its student]
    peerings,   \* rows of group_peerings
    domains,    \* [Profile -> rows of allowed_web_domains]
    live,       \* [Appliance -> revision and files in force]
    lock,       \* holder of the reconciliation advisory lock
    job,        \* [Actor -> the handler's local state]
    events,     \* how many of those there were
    approved,   \* ghost: every pair that was ever peered
    revoked     \* ghost: pairs whose revocation was reported as converged

rows == <<state, vlan, accepted>>
policy == <<peerings, domains, approved>>
vars == <<rows, policy, live, lock, job, revoked, events>>

Nothing == [interfaces |-> {}, edges |-> {}]
Idle == [op |-> "none", group |-> None, todo |-> <<>>, step |-> "idle",
         expected |-> Nothing, interfaces |-> {}, clean |-> TRUE, pair |-> None]

-----------------------------------------------------------------------------
(* The documents. *)

\* creating and active, and error while the VLAN is held.
Operational(g) ==
    \/ state[g] \in {"creating", "active"}
    \/ state[g] = "error" /\ vlan[g] # None

\* buildInterface: the VLAN and, by its number, the subnet of the group's slot.
Interface(g) == [group |-> g, vlan |-> vlan[g], domains |-> domains[ProfileOf[g]]]

\* OPERATIONAL_GROUPS_SQL, and the groups of the infrastructure plan.
GroupsRead == {Interface(g) : g \in {h \in Group : Operational(h)}}

\* OPERATIONAL_PEERINGS_SQL: both sides allocated and operational.
PeeringsRead ==
    {p \in peerings : \A g \in p : vlan[g] # None /\ Operational(g)}

\* canonicalDomains and buildPeeringEdges throw rather than leave a part out.
Buildable(interfaces, pairs) ==
    /\ \A i \in interfaces : i.domains \cap Unrenderable = {}
    /\ \A p \in pairs : p \subseteq {i.group : i \in interfaces}

\* Both directions of every pair, by VLAN: the Gateway forwards by interface.
PeeringEdges(interfaces, pairs) ==
    {<<e[1].vlan, e[2].vlan>> : e \in
        {d \in interfaces \X interfaces : {d[1].group, d[2].group} \in pairs}}

GatewayPlan(interfaces, pairs) ==
    [interfaces |-> interfaces, edges |-> PeeringEdges(interfaces, pairs)]

\* The Access document has no peerings; its revision carries the domains.
AccessPlan(interfaces) == [interfaces |-> interfaces, edges |-> {}]

PlanExists(a) == a = "gateway" => Buildable(GroupsRead, PeeringsRead)
PlanNow(a) == IF a = "gateway" THEN GatewayPlan(GroupsRead, PeeringsRead)
              ELSE AccessPlan(GroupsRead)

-----------------------------------------------------------------------------
(* The files of a document, and what an appliance that loaded them does.     *)

\* Mutant: replies are let through before the peerings are asked.
ForwardChainReplies(pairs) ==
    <<"established">> \o (IF pairs = {} THEN <<>> ELSE <<"allowed-pairs">>)
        \o <<"cross-group-denied", "lab-egress-denied">>

\* The Gateway's forward chain: a pair is decided by the peerings of now,
\* before the replies of any connection are let through.
ForwardChain(pairs) ==
    (IF pairs = {} THEN <<>> ELSE <<"allowed-pairs">>)
        \o <<"cross-group-denied", "established", "lab-egress-denied">>

RenderNftables(lab, pairs) ==
    [lab |-> lab, pairs |-> pairs, forward |-> ForwardChain(pairs)]

\* An interface per VLAN of the document.
RenderNetworkd(plan) == {i.vlan : i \in plan.interfaces}

\* dnsmasq names every VLAN of the pool, so a new group restarts nothing.
RenderDnsmasq == Vlan

\* Squid has a source per VLAN and splices what that VLAN's domains name.
RenderSquid(plan) ==
    {[source |-> i.vlan, splice |-> i.domains] : i \in plan.interfaces}

GatewayFiles(plan) ==
    [networkd |-> RenderNetworkd(plan), dnsmasq |-> RenderDnsmasq,
     squid |-> RenderSquid(plan),
     nftables |-> RenderNftables(RenderNetworkd(plan), plan.edges)]

\* Docker reaches the VLANs of the document and nothing else does.
AccessFiles(plan) ==
    [networkd |-> RenderNetworkd(plan),
     nftables |-> [docker |-> RenderNetworkd(plan)]]

\* Every file carries the revision of its document; Access's has no domains.
Rendered(a, plan) ==
    IF a = "gateway" THEN [revision |-> plan, files |-> GatewayFiles(plan)]
    ELSE LET bare == [plan EXCEPT !.interfaces = {[i EXCEPT !.domains = {}] : i \in @}]
         IN [revision |-> bare, files |-> AccessFiles(bare)]

\* Mutant: an appliance is compared by its interfaces only.
DriftedInterfaces(a) ==
    live[a].files.networkd # Rendered(a, PlanNow(a)).files.networkd

\* planGateway, planAccess: interfaces, revision in the kernel, file digests.
Drifted(a) == live[a] # Rendered(a, PlanNow(a))

\* A packet between two VLANs: the first rule that matches decides, and a
\* packet that matches none is dropped.
Matches(table, rule, from, to, reply) ==
    CASE rule = "allowed-pairs" -> <<from, to>> \in table.pairs
      [] rule = "cross-group-denied" -> {from, to} \subseteq table.lab
      [] rule = "established" -> reply
      [] rule = "lab-egress-denied" -> from \in table.lab

Forwards(table, from, to, reply) ==
    \E k \in DOMAIN table.forward :
        /\ table.forward[k] \in {"allowed-pairs", "established"}
        /\ Matches(table, table.forward[k], from, to, reply)
        /\ \A j \in 1..(k - 1) : ~Matches(table, table.forward[j], from, to, reply)

-----------------------------------------------------------------------------
(* A quiet lab: some groups in service, any of the rows peered, and perhaps  *)
(* a group whose teardown failed at its first step and waits for a retry.    *)
Init ==
    /\ vlan \in {f \in [Group -> Vlan \cup {None}] :
            \A g, h \in Group : f[g] = f[h] /\ f[g] # None => g = h}
    /\ state \in [Group -> {"planned", "active", "deleting"}]
    /\ \A g \in Group : vlan[g] = None <=> state[g] = "planned"
    /\ accepted = [g \in Group |-> state[g] = "active"]
    /\ peerings \in SUBSET Pair /\ approved = peerings /\ revoked = {}
    /\ domains = [p \in Profile |-> {}]
    /\ live = LET served == {g \in Group : vlan[g] # None}
                  interfaces == {[group |-> g, vlan |-> vlan[g], domains |-> {}] : g \in served}
                  pairs == {p \in peerings : p \subseteq served}
              IN [a \in Appliance |->
                    Rendered(a, IF a = "gateway" THEN GatewayPlan(interfaces, pairs)
                                ELSE AccessPlan(interfaces))]
    /\ lock = None
    /\ job = [a \in Actor |-> Idle]
    /\ events = 0

Event == events < MaxEvents /\ events' = events + 1

\* A reservation is a row of instances from the moment the create inserts it.
Reserved(g) == \E w \in Worker :
    job[w].op = "create" /\ job[w].group = g /\ job[w].step # "attached"
HasInstance(g) == accepted[g] \/ Reserved(g)

-----------------------------------------------------------------------------
(* The administrator's edits: rows, and never an apply of their own. *)

\* A drift pass begins; pair is what it was asked to revoke.
Started(a, pair) == job' = [job EXCEPT ![a] = [Idle EXCEPT !.op = "pass",
                                              !.step = "stranded", !.pair = pair]]

\* Upserts and deletes of single rows, and the swap of a profile's whole list.
InsertPeering(p) == peerings' = peerings \cup {p} /\ approved' = approved \cup {p}
DeletePeering(p) == peerings' = peerings \ {p} /\ UNCHANGED approved
InsertDomain(p, d) == domains' = [domains EXCEPT ![p] = @ \cup {d}]
DeleteDomain(p, d) == domains' = [domains EXCEPT ![p] = @ \ {d}]
ReplaceDomains(p, list) == domains' = [domains EXCEPT ![p] = list]

\* Grants wait for the next pass of the timer.
AddPeering ==
    \E p \in Pair \ peerings :
        /\ Event
        /\ \A g \in p : state[g] # "gone"          \* foreign keys
        /\ InsertPeering(p)
        /\ UNCHANGED <<rows, domains, live, lock, job, revoked>>

\* convergeAfterRevocation: the row first, then a pass of the route's own.
RemovePeering ==
    \E p \in peerings :
        /\ Event /\ job[Route].op = "none"
        /\ DeletePeering(p)
        /\ Started(Route, p) /\ revoked' = revoked \ {p}
        /\ UNCHANGED <<rows, domains, live, lock>>

AddDomain ==
    \E p \in Profile : \E d \in Domain \ domains[p] :
        /\ Event
        /\ InsertDomain(p, d)
        /\ UNCHANGED <<rows, peerings, approved, live, lock, job, revoked>>

RemoveDomain ==
    \E p \in Profile : \E d \in domains[p] :
        /\ Event /\ job[Route].op = "none"
        /\ DeleteDomain(p, d)
        /\ Started(Route, None)
        /\ UNCHANGED <<rows, peerings, approved, live, lock, revoked>>

\* LabProfiles.update swaps the list of a profile in one transaction and starts
\* no pass, also when it takes domains away.
EditProfile ==
    \E p \in Profile : \E list \in SUBSET Domain \ {domains[p]} :
        /\ Event
        /\ ReplaceDomains(p, list)
        /\ UNCHANGED <<rows, peerings, approved, live, lock, job, revoked>>

-----------------------------------------------------------------------------
(* One component of one job: revision, lock, document, effect. *)

Target(a) == Head(job[a].todo)

\* What the handler read is forgotten between attempts.
At(a, todo, step) ==
    [job EXCEPT ![a] = [@ EXCEPT !.todo = todo, !.step = step,
                                 !.expected = Nothing, !.interfaces = {}]]

\* The component is done; the job goes on with the next one.
Advanced(a) ==
    LET rest == Tail(job[a].todo)
    IN IF rest # <<>> THEN At(a, rest, "revision")
       ELSE At(a, <<>>, "last")

\* The step threw.  A create goes through its compensation, a teardown leaves
\* the row deleting, the drift pass notes the failure and goes on.
Thrown(a) ==
    CASE a \in Pass -> [Advanced(a) EXCEPT ![a].clean = FALSE]
      [] job[a].op = "create" -> At(a, <<>>, "failed")
      [] OTHER -> [job EXCEPT ![a] = Idle]

\* A conflict is retried by creates and teardowns a bounded number of times.
Conflicted(a) ==
    {Thrown(a)} \cup IF a \in Pass THEN {} ELSE {At(a, job[a].todo, "revision")}

ReadRevision(a) ==
    /\ job[a].step = "revision"
    /\ job' = IF PlanExists(Target(a))
              THEN [job EXCEPT ![a] = [@ EXCEPT !.step = "lock",
                                                !.expected = PlanNow(Target(a))]]
              ELSE Thrown(a)
    /\ UNCHANGED <<rows, policy, live, lock, events, revoked>>

\* The lock is tried, not waited for.  Creates and teardowns try again until
\* a deadline; the drift pass leaves everything to whoever holds it.
LockRefused(a) ==
    /\ job[a].step = "lock" /\ lock # None
    /\ job' = IF a \in Pass THEN [job EXCEPT ![a] = Idle] ELSE Thrown(a)
    /\ UNCHANGED <<rows, policy, live, lock, events, revoked>>

\* Inside the lock the document is read again.  buildGatewayPlan throws on
\* what it cannot build; a document that is not the expected one is refused.
Decide(a, interfaces, pairs) ==
    LET gateway == Target(a) = "gateway"
        plan == IF gateway THEN GatewayPlan(interfaces, pairs) ELSE AccessPlan(interfaces)
    IN IF gateway /\ ~Buildable(interfaces, pairs)
       THEN job' = Thrown(a) /\ lock' = None
       ELSE IF plan # job[a].expected
       THEN job' \in Conflicted(a) /\ lock' = None
       ELSE job' = [job EXCEPT ![a] = [@ EXCEPT !.step = "apply", !.interfaces = {}]]
            /\ lock' = a

\* The Access document is one statement; of the Gateway's two, groups first.
TakeLock(a) ==
    /\ job[a].step = "lock" /\ lock = None
    /\ IF Target(a) = "access" THEN Decide(a, GroupsRead, {})
       ELSE /\ lock' = a
            /\ job' = [job EXCEPT ![a] = [@ EXCEPT !.step = "plan",
                                                   !.interfaces = GroupsRead]]
    /\ UNCHANGED <<rows, policy, live, events, revoked>>

ReadPeerings(a) ==
    /\ job[a].step = "plan"
    /\ Decide(a, job[a].interfaces, PeeringsRead)
    /\ UNCHANGED <<rows, policy, live, events, revoked>>

InForce(a) ==
    live' = [live EXCEPT ![Target(a)] = Rendered(Target(a), job[a].expected)]

ApplySucceeds(a) ==
    /\ job[a].step = "apply"
    /\ InForce(a)
    /\ job' = Advanced(a) /\ lock' = None
    /\ UNCHANGED <<rows, policy, events, revoked>>

\* Rolled back, or in force although its commit was not answered.
ApplyFails(a) ==
    /\ job[a].step = "apply"
    /\ Event
    /\ InForce(a) \/ UNCHANGED live
    /\ job' = Thrown(a) /\ lock' = None
    /\ UNCHANGED <<rows, policy, revoked>>

ApplyStep(a) ==
    \/ ReadRevision(a) \/ TakeLock(a) \/ LockRefused(a)
    \/ ReadPeerings(a) \/ ApplySucceeds(a) \/ ApplyFails(a)

-----------------------------------------------------------------------------
(* The create handler. *)

\* Handlers are numbered; the lowest free number is the next one's.
Free(w) == /\ job[w].op = "none"
           /\ \A u \in Worker : u < w => job[u].op # "none"

Held == {vlan[g] : g \in Group} \ {None}

\* allocateNetworkGroup: an allocation is kept, error goes back to creating.
Attach(w, g) ==
    /\ Free(w) /\ Event
    /\ state[g] \in {"planned", "creating", "active", "error"}
    /\ \A u \in Worker : ~(job[u].op = "create" /\ job[u].group = g)
    /\ ~accepted[g]
    /\ IF vlan[g] # None THEN UNCHANGED vlan
       ELSE \E v \in Vlan \ Held : vlan' = [vlan EXCEPT ![g] = v]
    /\ state' = [state EXCEPT ![g] = IF @ = "active" THEN @ ELSE "creating"]
    /\ job' = [job EXCEPT ![w] = [Idle EXCEPT !.op = "create", !.group = g,
                                              !.step = "attached"]]
    /\ UNCHANGED <<accepted, policy, live, lock, revoked>>

\* The INSERT: the group's row may have moved on, or be gone (SET NULL never
\* meets a row that is not there: the foreign key refuses).
Reserve(w) ==
    /\ job[w].step = "attached"
    /\ job' = IF state[job[w].group] = "gone" THEN [job EXCEPT ![w] = Idle]
              ELSE [job EXCEPT ![w].step = "vnet"]
    /\ UNCHANGED <<rows, policy, live, lock, events, revoked>>

\* Mutant: the group's place in the operational plan is not asked for.
EnsureVnetUnguarded(w) ==
    /\ job[w].step = "vnet"
    /\ job' = At(w, <<"access", "gateway">>, "revision")
    /\ UNCHANGED <<rows, policy, live, lock, revoked, events>>

\* ensureNetworkGroupVnet refuses a group outside the operational plan.
EnsureVnet(w) ==
    /\ job[w].step = "vnet"
    /\ job' = IF Operational(job[w].group)
              THEN At(w, <<"access", "gateway">>, "revision")
              ELSE Thrown(w)
    /\ UNCHANGED <<rows, policy, live, lock, events, revoked>>

\* markNetworkGroupActive after the VM firewall.
Accept(w) ==
    LET g == job[w].group IN
    /\ job[w].op = "create" /\ job[w].step = "last"
    /\ state' = [state EXCEPT ![g] =
            IF @ \in {"creating", "deleting"} THEN "active" ELSE @]
    /\ accepted' = [accepted EXCEPT ![g] = TRUE]
    /\ job' = [job EXCEPT ![w] = Idle]
    /\ UNCHANGED <<vlan, policy, live, lock, events, revoked>>

\* The reservation goes; the group falls to error when nothing is left in it.
Compensate(w) ==
    LET g == job[w].group IN
    /\ job[w].step = "failed"
    /\ state' = [state EXCEPT ![g] = IF @ = "creating" /\ ~accepted[g] THEN "error" ELSE @]
    /\ job' = [job EXCEPT ![w] = Idle]
    /\ UNCHANGED <<vlan, accepted, policy, live, lock, events, revoked>>

-----------------------------------------------------------------------------
(* Removal and teardown. *)

RemoveInstance(g) ==
    /\ accepted[g] /\ accepted' = [accepted EXCEPT ![g] = FALSE]
    /\ UNCHANGED <<state, vlan, policy, live, lock, job, events, revoked>>

\* markNetworkGroupDeleting: also a group that is deleting already, so two
\* teardowns of one group may run.
MarkDeleting(w, g) ==
    /\ Free(w) /\ Event
    /\ vlan[g] # None /\ ~HasInstance(g)
    /\ state[g] \in {"creating", "active", "error", "deleting"}
    /\ state' = [state EXCEPT ![g] = "deleting"]
    /\ job' = [job EXCEPT ![w] = [Idle EXCEPT !.op = "teardown", !.group = g,
                                     !.todo = <<"gateway", "access">>,
                                     !.step = "revision"]]
    /\ UNCHANGED <<vlan, accepted, policy, live, lock, revoked>>

\* deleteNetworkGroupRecord; the peerings of the row cascade.
DeleteRecord(w) ==
    LET g == job[w].group IN
    /\ job[w].op = "teardown" /\ job[w].step = "last"
    /\ IF state[g] = "deleting" /\ ~HasInstance(g)
       THEN /\ state' = [state EXCEPT ![g] = "gone"]
            /\ vlan' = [vlan EXCEPT ![g] = None]
            /\ peerings' = {p \in peerings : g \notin p}
       ELSE UNCHANGED <<state, vlan, peerings>>
    /\ job' = [job EXCEPT ![w] = Idle]
    /\ UNCHANGED <<accepted, domains, approved, live, lock, events, revoked>>

-----------------------------------------------------------------------------
(* The drift pass: of the scheduler, which does not overrun, and of the     *)
(* administrator's route and revocations, which do not wait for it.          *)

TimerPass ==
    /\ job[Timer].op = "none"
    /\ Started(Timer, None)
    /\ UNCHANGED <<rows, policy, live, lock, revoked, events>>

\* POST /network/drift-reconciliations.
RequestedPass ==
    /\ job[Route].op = "none" /\ Event
    /\ Started(Route, None)
    /\ UNCHANGED <<rows, policy, live, lock, revoked>>

\* recoverStrandedGroups, before anything is observed.
RecoverStranded(a) ==
    /\ job[a].step = "stranded"
    /\ state' = [g \in Group |-> IF state[g] = "deleting" /\ HasInstance(g)
                                 THEN "creating" ELSE state[g]]
    /\ job' = [job EXCEPT ![a].step = "gateway"]
    /\ UNCHANGED <<vlan, accepted, policy, live, lock, revoked, events>>

\* The observers are not guarded: one that throws ends the pass.
ObserveGateway(a) ==
    /\ job[a].step = "gateway"
    /\ job' = IF ~PlanExists("gateway") THEN [job EXCEPT ![a] = Idle]
              ELSE [job EXCEPT ![a] = [@ EXCEPT !.step = "access",
                        !.todo = IF Drifted("gateway") THEN <<"gateway">> ELSE <<>>]]
    /\ UNCHANGED <<rows, policy, live, lock, revoked, events>>

\* Access is repaired before the Gateway, whichever was found first.
ObserveAccess(a) ==
    /\ job[a].step = "access"
    /\ LET todo == IF Drifted("access") THEN <<"access">> \o job[a].todo ELSE job[a].todo
       IN job' = [job EXCEPT ![a] = [@ EXCEPT !.todo = todo,
                     !.step = IF todo = <<>> THEN "last" ELSE "revision"]]
    /\ UNCHANGED <<rows, policy, live, lock, revoked, events>>

\* ran: true.  A revocation's pass reports to the administrator.
Report(a) ==
    /\ job[a].op = "pass" /\ job[a].step = "last"
    /\ revoked' = IF job[a].pair # None /\ job[a].clean
                  THEN revoked \cup {job[a].pair} ELSE revoked
    /\ job' = [job EXCEPT ![a] = Idle]
    /\ UNCHANGED <<rows, policy, live, lock, events>>

PassStep(a) ==
    \/ RecoverStranded(a) \/ ObserveGateway(a) \/ ObserveAccess(a)
    \/ Report(a) \/ ApplyStep(a)

WorkerStep(w) ==
    \/ Reserve(w) \/ EnsureVnet(w) \/ Accept(w) \/ Compensate(w)
    \/ DeleteRecord(w) \/ ApplyStep(w)

Next ==
    \/ AddPeering \/ RemovePeering \/ AddDomain \/ RemoveDomain
    \/ EditProfile
    \/ \E w \in Worker, g \in Group : Attach(w, g) \/ MarkDeleting(w, g)
    \/ \E g \in Group : RemoveInstance(g)
    \/ \E w \in Worker : WorkerStep(w)
    \/ TimerPass \/ RequestedPass
    \/ \E a \in Pass : PassStep(a)

Spec == Init /\ [][Next]_vars

\* The drift timer keeps firing, and a handler that was started goes on.
Fairness ==
    /\ WF_vars(TimerPass)
    /\ \A a \in Pass : WF_vars(PassStep(a))
    /\ \A w \in Worker : WF_vars(WorkerStep(w))
FairSpec == Spec /\ Fairness

-----------------------------------------------------------------------------
TypeOK ==
    /\ state \in [Group -> {"planned", "creating", "active", "error", "deleting", "gone"}]
    /\ vlan \in [Group -> Vlan \cup {None}]
    /\ accepted \in [Group -> BOOLEAN]
    /\ peerings \subseteq approved /\ approved \subseteq Pair
    /\ domains \in [Profile -> SUBSET Domain]
    /\ lock \in Actor \cup {None}
    /\ \A a \in Actor : lock = a <=> job[a].step \in {"plan", "apply"}
    /\ events \in 0..MaxEvents

\* A VM that was handed to its student is on a VLAN both appliances serve for
\* its own group, and for no other: whatever applies, teardowns and repairs
\* run beside it, none takes the interface away or leaves a former tenant's
\* domains on it.  (ensureNetworkGroupInfrastructure before the VM starts,
\* markNetworkGroupDeleting's guard, the lock around read and apply.)
AcceptedIsServed ==
    \A g \in Group : accepted[g] =>
        \A a \in Appliance :
            /\ vlan[g] \in live[a].files.networkd
            /\ {i.group : i \in {j \in live[a].revision.interfaces : j.vlan = vlan[g]}} = {g}

\* The Gateway forwards between the VLANs of two VMs only if their groups were
\* peered at some time: neither a former tenant's peering nor the replies of
\* its connections reach the next one.
OnlyPeersReach ==
    \A g, h \in Group : \A reply \in BOOLEAN :
        /\ accepted[g] /\ accepted[h] /\ g # h
        /\ Forwards(live["gateway"].files.nftables, vlan[g], vlan[h], reply)
        => {g, h} \in approved

\* A revocation that was reported as converged is in force, until the pair is
\* peered again: the Gateway forwards nothing between the two groups, not
\* even the replies of a connection that is open.
RevocationHolds ==
    \A i, j \in live["gateway"].revision.interfaces :
        {i.group, j.group} \in revoked \ peerings
            => ~Forwards(live["gateway"].files.nftables, i.vlan, j.vlan, TRUE)

\* Once the rows stop moving and every domain can be rendered, the drift pass
\* brings both appliances to the rows and keeps them there.
PolicyConverges ==
    <>[](\A p \in Profile : domains[p] \cap Unrenderable = {})
        => <>[](\A a \in Appliance : live[a] = Rendered(a, PlanNow(a)))

=============================================================================
