------------------------------ MODULE VlanLease ------------------------------
(***************************************************************************)
(* What the lab promises about a VLAN, with nothing of how it keeps it.    *)
(*                                                                         *)
(* A holder (a network group) leases at most one VLAN, always the lowest   *)
(* one nobody leases.  A holder is retired only while nothing occupies it, *)
(* and the return of its lease begins only while nothing does.  The lease  *)
(* ends if the holder is still retired when the return is carried out; who *)
(* moved in meanwhile is turned out.  A retired holder that turns out to   *)
(* be occupied, or is promoted, is revived with its lease intact, and a    *)
(* return begun before then comes to nothing.                              *)
(* GroupLedger.tla implements this specification.                          *)
(***************************************************************************)
EXTENDS Integers

CONSTANTS
    Holder,     \* who can lease: network group ids
    Vlan,       \* the pool, a set of natural numbers
    NoVlan      \* "no lease"; not in the pool

VARIABLES
    lease,      \* [Holder -> Vlan \cup {NoVlan}]
    retiring,   \* holders being torn down; they keep their lease
    occupied,   \* holders with at least one instance
    returning   \* holders whose lease somebody is about to end

vars == <<lease, retiring, occupied, returning>>

Free == Vlan \ {lease[h] : h \in Holder}

Init ==
    /\ lease = [h \in Holder |-> NoVlan]
    /\ retiring = {}
    /\ occupied = {}
    /\ returning = {}

\* The lowest free VLAN is leased to a holder that has none.
Grant(h) ==
    /\ lease[h] = NoVlan
    /\ \E v \in Free :
        /\ \A w \in Free : v <= w
        /\ lease' = [lease EXCEPT ![h] = v]
    /\ UNCHANGED <<retiring, occupied, returning>>

\* Only an unoccupied lease-holder is retired.
Retire(h) ==
    /\ lease[h] # NoVlan
    /\ h \notin occupied
    /\ retiring' = retiring \cup {h}
    /\ UNCHANGED <<lease, occupied, returning>>

\* Retired holders return to service; their leases never moved.
Revive(S) ==
    /\ retiring' = retiring \ S
    /\ UNCHANGED <<lease, occupied, returning>>

\* Somebody sets out to end the lease of a retired, unoccupied holder.
BeginReturn(h) ==
    /\ h \in retiring \ occupied
    /\ returning' = returning \cup {h}
    /\ UNCHANGED <<lease, retiring, occupied>>

\* The lease of a holder still retired ends: the VLAN is free again.  Others may
\* have begun the same return.
Return(h) ==
    /\ h \in retiring \cap returning
    /\ lease' = [lease EXCEPT ![h] = NoVlan]
    /\ retiring' = retiring \ {h}
    /\ occupied' = occupied \ {h}
    /\ returning' \in {returning, returning \ {h}}

\* A return finds its holder revived, or somebody else's return done.
Lapse(h) ==
    /\ returning' = returning \ {h}
    /\ UNCHANGED <<lease, retiring, occupied>>

Occupy(h) ==
    /\ occupied' = occupied \cup {h}
    /\ UNCHANGED <<lease, retiring, returning>>

Vacate(h) ==
    /\ occupied' = occupied \ {h}
    /\ UNCHANGED <<lease, retiring, returning>>

Next ==
    \/ \E h \in Holder :
        \/ Grant(h) \/ Retire(h) \/ BeginReturn(h) \/ Return(h) \/ Lapse(h)
        \/ Occupy(h) \/ Vacate(h)
    \/ \E S \in SUBSET retiring : Revive(S)

Spec == Init /\ [][Next]_vars

=============================================================================
