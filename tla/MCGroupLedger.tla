---------------------------- MODULE MCGroupLedger ----------------------------
\* GroupLedger on a small instance: two owners with two profiles each, three
\* group ids over a pool of two VLANs, so that the pool runs out and VLANs are
\* reused; an instance that comes and goes in any group; and two sessions, so
\* that two DELETEs of one group, or of two, wait at once.  Ids and sessions are
\* interchangeable: no statement orders them.
EXTENDS GroupLedger, TLC

MCVlan == {2000, 2001}

IdSymmetry == Permutations(GroupId) \cup Permutations(InstanceId) \cup Permutations(Client)

=============================================================================
