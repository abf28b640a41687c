---------------------------- MODULE MCRemoteSession ----------------------------
\* Two tabs of one user at one running instance; the removal counts as one of two.
EXTENDS RemoteSession, FiniteSets, TLC

CONSTANTS Owner, Vm, First, Second

MCUserOf == [s \in {First, Second} |-> Owner]
MCInstanceOf == [s \in {First, Second} |-> Vm]

Busy == {s \in Session : session'[s].pc # "idle"}
Removing == {i \in Instance : removal'[i] # NoRemoval}
TwoAtOnce == Cardinality(Busy) + Cardinality(Removing) <= 2
Opened == Init /\ vm[Vm] = "on" /\ addr[Vm] = CHOOSE a \in Address : TRUE
MCSpec == Opened /\ [][Next /\ TwoAtOnce]_vars /\ Fairness

=============================================================================
