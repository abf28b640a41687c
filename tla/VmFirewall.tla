------------------------------ MODULE VmFirewall ------------------------------
(***************************************************************************)
(* The Proxmox firewall of one student VM: the only thing between two VMs   *)
(* of a VLAN, because their traffic is switched and never reaches the       *)
(* Gateway.  Its policy is rendered from the peerings of the group, from    *)
(* allow_same_group of its profile and from the template; it is written by  *)
(* the create handler and by the drift passes, which take no lock here and  *)
(* do not wait for each other.  A write is a sequence of API calls: the     *)
(* source filter, the rules of a listing deleted by position, the new rules *)
(* each inserted at the top, the options last, and a second look.           *)
(***************************************************************************)
EXTENDS Naturals, Sequences, SequencesExt

CONSTANTS
    Peer,           \* subnets of groups the VM's group may be peered with
    Create,         \* the create handler of this VM
    Timer, Route,   \* drift passes: the scheduler's, and an administrator's
    MaxEvents,      \* bound: edits, failed calls, crashes
    MaxRequests     \* bound: passes an administrator asks for

ASSUME FirewallAssumption ==
    /\ Create # Timer /\ Create # Route /\ Timer # Route
    /\ IsFiniteSet(Peer)
    /\ Peer \cap {"session", "probe", "neighbour", "drop", "own"} = {}
    /\ MaxEvents \in Nat /\ MaxRequests \in Nat

Pass == {Timer, Route}
Writer == {Create} \cup Pass

VARIABLES
    allow,      \* allow_same_group of the profile
    peers,      \* allocated, operational peers of the group
    row,        \* "made", "accepted", "quarantined", "gone"
    rules,      \* the guest's rules, the first match decides
    ipset,      \* entries of ipfilter-net0, or Absent
    enabled,    \* the guest firewall's options are in place
    job,        \* [Writer -> the handler's local state]
    events, requests,   \* how many of those there were
    crashed,    \* the backend died once
    granted     \* ghost: what the rows have ever admitted

rows == <<allow, peers, granted>>
guest == <<rules, ipset, enabled>>
firewallVars == <<rows, row, guest, job, events, requests, crashed>>

\* A set that is not there is not an empty set.
Absent == {"absent"}

\* same: the profile as the create read it when it was asked.
Idle == [step |-> "idle", same |-> FALSE, policy |-> <<>>, todo |-> <<>>]

-----------------------------------------------------------------------------
(* The policy. *)

\* "session" is Access on the template's ports and the two ICMP rules, with
\* the DHCP reply; "drop" the two addresses that lie inside the own subnet.
\* The rules for what the VM sends never change and are left out.
\* Mutant: the subnet is admitted before the two addresses are dropped.
PolicyUnordered(same, from) ==
    <<"session">> \o (IF same THEN <<"own", "drop">> ELSE <<>>)
        \o SetToSeq(from)
Policy(same, from) ==
    <<"session">> \o (IF same THEN <<"drop", "own">> ELSE <<>>)
        \o SetToSeq(from)

\* Mutant: the query forgets which group it was asked about.
PeersReadAll == Peer
\* PEER_SUBNETS_SQL.
PeersRead == peers

PolicyNow == Policy(allow, PeersRead)

\* The own subnet, and the two addresses it never is.
Entries == <<"subnet", "infrastructure">>

\* planVmFirewall: options, rules in their order, and the source filter.
Converged(policy) ==
    enabled /\ rules = policy /\ ipset = ToSet(Entries)

-----------------------------------------------------------------------------
(* What a guest firewall does.  A packet is Access on a session port        *)
(* ("session"), Access or the Gateway on anything else ("probe"), a VM of   *)
(* the same VLAN ("neighbour") or of a peer.                                 *)
Packet == {"session", "probe", "neighbour"} \cup Peer

Matches(rule) ==
    CASE rule = "session" -> {"session"}
      [] rule = "drop" -> {"session", "probe"}
      [] rule = "own" -> {"session", "probe", "neighbour"}
      [] OTHER -> {rule}

\* The first rule decides; the inbound policy is DROP; a firewall that is not
\* enabled filters nothing.
Admitted ==
    {p \in Packet :
        \/ ~enabled
        \/ \E k \in DOMAIN rules :
            /\ rules[k] # "drop" /\ p \in Matches(rules[k])
            /\ \A j \in 1..(k - 1) : p \notin Matches(rules[j])}

\* An empty filter drops all the VM sends; without its exclusions the VM may
\* send from the addresses its neighbours trust.
MaySpoof == ~enabled \/ (ipset # Absent /\ "subnet" \in ipset
                         /\ "infrastructure" \notin ipset)

\* What the rows of now admit.
Wanted == {"session"} \cup (IF allow THEN {"neighbour"} ELSE {}) \cup peers

-----------------------------------------------------------------------------
\* The VM was cloned and started, its row is out of provisioning; the create
\* has still to filter it.
FirewallInit ==
    /\ allow \in BOOLEAN /\ peers \in SUBSET Peer
    /\ row = "made"
    /\ rules = <<>> /\ ipset = Absent /\ enabled = FALSE
    /\ \E same \in BOOLEAN :
        /\ job = [w \in Writer |->
                IF w = Create THEN [Idle EXCEPT !.step = "policy", !.same = same] ELSE Idle]
        /\ granted = Wanted \cup IF same THEN {"neighbour"} ELSE {}
    /\ events = 0 /\ requests = 0 /\ crashed = FALSE

Event == events < MaxEvents /\ events' = events + 1

\* The instance of the row is a target of the pass.
Exists == row # "gone"

-----------------------------------------------------------------------------
(* What the administrator and the student do meanwhile. *)

EditPeers ==
    \E p \in Peer :
        /\ Event
        /\ peers' = IF p \in peers THEN peers \ {p} ELSE peers \cup {p}
        /\ granted' = granted \cup peers'
        /\ UNCHANGED <<allow, row, guest, job, requests, crashed>>

EditProfile ==
    /\ Event /\ allow' = ~allow
    /\ granted' = granted \cup {"neighbour"}
    /\ UNCHANGED <<peers, row, guest, job, requests, crashed>>

\* The VM and the row.
RemoveInstance ==
    /\ row = "accepted" /\ row' = "gone"
    /\ rules' = <<>> /\ ipset' = Absent /\ enabled' = FALSE
    /\ UNCHANGED <<rows, job, events, requests, crashed>>

\* The backend dies: whoever was writing is gone, what it wrote stays.
BackendDies ==
    /\ Event /\ crashed' = TRUE
    /\ job' = [w \in Writer |-> Idle]
    /\ UNCHANGED <<rows, row, guest, requests>>

-----------------------------------------------------------------------------
(* The calls of the Proxmox firewall API.  It refuses an entry that is there,  *)
(* one that is not, and a position past the end (the API as the code relies   *)
(* on it); a rule without a position goes to the top.                         *)

CreateIpSet == ipset' = IF ipset = Absent THEN {} ELSE ipset
CreateEntry(e) == e \notin ipset /\ ipset' = ipset \cup {e} /\ UNCHANGED <<rules, enabled>>
DeleteEntry(e) == e \in ipset /\ ipset' = ipset \ {e} /\ UNCHANGED <<rules, enabled>>
CreateRule(r) == rules' = <<r>> \o rules /\ UNCHANGED <<ipset, enabled>>
DeleteRule(pos) ==
    pos <= Len(rules) /\ rules' = RemoveAt(rules, pos) /\ UNCHANGED <<ipset, enabled>>
UpdateOptions == enabled' = TRUE /\ UNCHANGED <<ipset, rules>>

Possible(op) ==
    CASE op[1] = "unset" -> op[2] \in ipset
      [] op[1] = "set" -> op[2] \notin ipset
      [] op[1] = "delete" -> op[2] <= Len(rules)
      [] OTHER -> TRUE

-----------------------------------------------------------------------------
(* applyVmFirewall. *)

Finished(w) == job' = [job EXCEPT ![w] = Idle]

\* The create handler removes a VM it could not filter, and marks the row
\* when that fails too.  A pass notes the failure.
\* Mutant: the row is left as it is when the removal fails.
RefusedUnmarked(w) ==
    IF w # Create THEN UNCHANGED <<row, guest>>
    ELSE \/ /\ row' = "gone"
            /\ rules' = <<>> /\ ipset' = Absent /\ enabled' = FALSE
         \/ UNCHANGED <<row, guest>>
Refused(w) ==
    IF w # Create THEN UNCHANGED <<row, guest>>
    ELSE \/ /\ row' = "gone"
            /\ rules' = <<>> /\ ipset' = Absent /\ enabled' = FALSE
         \/ /\ row' = IF Exists THEN "quarantined" ELSE row
            /\ UNCHANGED guest

Throw(w) == Finished(w) /\ Refused(w)

Step(w, step, todo) == job' = [job EXCEPT ![w] = [@ EXCEPT !.step = step, !.todo = todo]]

\* The create's own copy of the profile is older than the VM; the pass reads it
\* again.  (The template stays: instances.template_id is ON DELETE RESTRICT.)
ReadPolicy(w) ==
    /\ job[w].step = "policy"
    /\ \/ /\ w = Create
          /\ job' = [job EXCEPT ![w] = [@ EXCEPT !.step = "look",
                                            !.policy = Policy(job[w].same, PeersRead)]]
          /\ UNCHANGED <<row, guest>>
       \/ /\ w # Create /\ Exists
          /\ job' = [job EXCEPT ![w] = [@ EXCEPT !.step = "look", !.policy = PolicyNow]]
          /\ UNCHANGED <<row, guest>>
       \/ /\ w # Create /\ ~Exists
          /\ Finished(w) /\ UNCHANGED <<row, guest>>
    /\ UNCHANGED <<rows, events, requests, crashed>>

\* no_change_required ends the apply before it writes.
Accepted(w) == row' = IF w = Create THEN "accepted" ELSE row

Look(w) ==
    /\ job[w].step = "look" /\ Exists
    /\ IF Converged(job[w].policy)
       THEN Finished(w) /\ Accepted(w)
       ELSE Step(w, "filter", <<>>) /\ UNCHANGED row
    /\ UNCHANGED <<rows, guest, events, requests, crashed>>

\* The set is made when it is missing; then its entries are listed: those
\* that are there are deleted and made again, one by one.
ReadFilter(w) ==
    /\ job[w].step = "filter" /\ Exists
    /\ CreateIpSet
    /\ LET rewrite(e) == IF e \in ipset' THEN <<<<"unset", e>>, <<"set", e>>>>
                         ELSE <<<<"set", e>>>>
       IN Step(w, "entries", rewrite(Entries[1]) \o rewrite(Entries[2]))
    /\ UNCHANGED <<rows, row, rules, enabled, events, requests, crashed>>

Deletes == [k \in 1..Len(rules) |-> <<"delete", Len(rules) + 1 - k>>]
Inserts(policy) == [k \in 1..Len(policy) |-> <<"insert", policy[Len(policy) + 1 - k]>>]

\* The rules are listed once; deleting goes down the positions of that list,
\* inserting goes up the policy, and the options are last.
Rewrite(policy) == Deletes \o Inserts(policy) \o <<<<"options">>>>

ReadRules(w) ==
    /\ job[w].step = "entries" /\ job[w].todo = <<>> /\ Exists
    /\ Step(w, "rules", Rewrite(job[w].policy))
    /\ UNCHANGED <<rows, row, guest, events, requests, crashed>>

Call(w) ==
    /\ job[w].todo # <<>> /\ Exists
    /\ LET op == Head(job[w].todo) IN
       /\ \/ op[1] = "unset" /\ DeleteEntry(op[2])
          \/ op[1] = "set" /\ CreateEntry(op[2])
          \/ op[1] = "delete" /\ DeleteRule(op[2])
          \/ op[1] = "insert" /\ CreateRule(op[2])
          \/ op[1] = "options" /\ UpdateOptions
       /\ Step(w, IF op[1] = "options" THEN "verify" ELSE job[w].step, Tail(job[w].todo))
    /\ UNCHANGED <<rows, row, events, requests, crashed>>

Verify(w) ==
    /\ job[w].step = "verify" /\ Exists
    /\ IF Converged(job[w].policy)
       THEN Finished(w) /\ Accepted(w) /\ UNCHANGED guest
       ELSE Throw(w)
    /\ UNCHANGED <<rows, events, requests, crashed>>

\* The other writer's doing, or the guest went away.
CallRefused(w) ==
    /\ job[w].step \in {"look", "filter", "entries", "rules", "verify"}
    /\ \/ ~Exists
       \/ job[w].todo # <<>> /\ ~Possible(Head(job[w].todo))
    /\ Throw(w)
    /\ UNCHANGED <<rows, events, requests, crashed>>

\* A call fails or its answer is lost.
CallFails(w) ==
    /\ job[w].step \in {"look", "filter", "entries", "rules", "verify"}
    /\ Event /\ Throw(w)
    /\ UNCHANGED <<rows, requests, crashed>>

-----------------------------------------------------------------------------
(* The pass: it observes the VM, and repairs it later with a policy that it  *)
(* reads again.  A guest it cannot read is not drift.                        *)
Start(w) == Step(w, "observe", <<>>)

TimerPass ==
    /\ job[Timer].step = "idle" /\ Start(Timer)
    /\ UNCHANGED <<rows, row, guest, events, requests, crashed>>

RequestedPass ==
    /\ job[Route].step = "idle" /\ Start(Route)
    /\ requests < MaxRequests /\ requests' = requests + 1
    /\ UNCHANGED <<rows, row, guest, events, crashed>>

Observe(w) ==
    /\ job[w].step = "observe"
    /\ IF Exists /\ ~Converged(PolicyNow) THEN Step(w, "policy", <<>>)
       ELSE Finished(w)
    /\ UNCHANGED <<rows, row, guest, events, requests, crashed>>

WriterStep(w) ==
    \/ ReadPolicy(w) \/ Look(w) \/ ReadFilter(w) \/ ReadRules(w) \/ Call(w)
    \/ Verify(w) \/ CallRefused(w) \/ CallFails(w) \/ Observe(w)

FirewallNext ==
    \/ EditPeers \/ EditProfile \/ RemoveInstance \/ BackendDies
    \/ TimerPass \/ RequestedPass
    \/ \E w \in Writer : WriterStep(w)

FirewallSpec == FirewallInit /\ [][FirewallNext]_firewallVars

\* The timer keeps firing and a handler that runs goes on.
FirewallFairness == WF_firewallVars(TimerPass) /\ \A w \in Writer : WF_firewallVars(WriterStep(w))
FirewallFairSpec == FirewallSpec /\ FirewallFairness

-----------------------------------------------------------------------------
FirewallTypeOK ==
    /\ allow \in BOOLEAN /\ peers \subseteq Peer
    /\ row \in {"made", "accepted", "quarantined", "gone"}
    /\ ToSet(rules) \subseteq {"session", "drop", "own"} \cup Peer
    /\ ipset = Absent \/ ipset \subseteq ToSet(Entries)
    /\ enabled \in BOOLEAN
    /\ \A w \in Writer : job[w].todo # <<>> => job[w].step \in {"entries", "rules"}
    /\ events \in 0..MaxEvents /\ requests \in 0..MaxRequests

\* Unless the backend died, a VM whose create has ended is filtered and was
\* handed to its student, or its row is quarantined: whatever the passes write
\* beside the create, no VM is handed over with its firewall inert.
\* (ensureInstanceFirewall and the catch of the create route.)
AcceptedIsFiltered ==
    Exists /\ job[Create].step = "idle" /\ ~crashed
        => row = "quarantined" \/ (row = "accepted" /\ enabled)

\* However the writes of several handlers interleave, an enabled firewall
\* admits a neighbour or a peer only if the rows admitted it at some time.
OnlyGrantedSources ==
    enabled => Admitted \cap ({"neighbour"} \cup Peer) \subseteq granted

\* Once the rows stop moving, the drift pass leaves a VM that exists with a
\* firewall that admits what the rows admit and lets it send from its own
\* addresses only, also after a crash between any two calls.
FirewallConverges ==
    <>[]Exists => <>[](Admitted = Wanted /\ ~MaySpoof)

\* A firewall that is enabled is never wider than a policy: Access reaches
\* the session ports only, and the VM sends from its own addresses only.
HalfWrittenIsInert ==
    enabled => "probe" \notin Admitted /\ ~MaySpoof

=============================================================================
