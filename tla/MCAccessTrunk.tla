---------------------------- MODULE MCAccessTrunk ----------------------------
\* AccessTrunk on a small instance: two applies, two VLANs beside the
\* migration VLAN, two changes of the groups, one restart of the container.
EXTENDS AccessTrunk

=============================================================================
