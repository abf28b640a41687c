--------------------------- MODULE MCNetworkPolicy ---------------------------
\* Three groups for two VLANs, so that one group follows another on a VLAN
\* beside a third; two handlers and the drift pass.  The lab starts full: two
\* groups are in service and peered, the third waits for a VLAN.
EXTENDS NetworkPolicy, TLC

MCGroup == 1..3
MCWorker == 1..2
MCVlan == {2000, 2001}
MCProfileOf == [g \in Group |-> "web"]

\* The revocation: the same lab before the first peering.
UnpeeredLab == Init /\ vlan = <<2000, 2001, None>> /\ peerings = {}
RevocationSpec == UnpeeredLab /\ [][Next]_vars

FullLab == Init /\ vlan = <<2000, 2001, None>> /\ peerings = {{1, 2}} /\ state[2] = "active"
MCSpec == FullLab /\ [][Next]_vars /\ Fairness

=============================================================================
