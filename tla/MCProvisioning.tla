--------------------------- MODULE MCProvisioning ---------------------------
\* Provisioning on small instances.  Safety: two requests, of two owners who
\* compete for one VLAN and two VMIDs, and one removal or teardown at a time.
\* Siblings: two requests of one owner, for one group and one place under the
\* limit.  Liveness: one request and two removals.
EXTENDS Provisioning

MCRequest == {1, 2}
MCOneRequest == {1}
MCVlan == {2000}
MCTwoVlans == {2000, 2001}
MCVmId == {100, 101}
MCOneVmId == {100}
TwoOwners == [r \in Request |-> IF r = 1 THEN "ann" ELSE "bob"]
OneOwner == [r \in Request |-> "ann"]
OneProfile == [r \in Request |-> "web"]

=============================================================================
