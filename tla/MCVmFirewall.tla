----------------------------- MODULE MCVmFirewall -----------------------------
\* One peer, not peered yet, in a group whose VMs may reach each other.  Of the
\* create and the two passes, at most two are in flight: the requested pass
\* comes when the create has ended.
EXTENDS VmFirewall, TLC

OpenGroup == FirewallInit /\ peers = {} /\ allow /\ job[Create].same
TwoAtOnce == job'[Create].step = "idle" \/ job'[Route].step = "idle"
MCSpec == OpenGroup /\ [][FirewallNext /\ TwoAtOnce]_firewallVars /\ FirewallFairness

=============================================================================
