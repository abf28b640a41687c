----------------------------- MODULE MCVnetApply -----------------------------
\* VnetApply on a small instance: two VLANs, a create waiting for each, one
\* teardown at a time, a dry-run.
EXTENDS VnetApply, TLC

CONSTANTS s1, s2, a1, a2

TwoGoals == a1 :> s1 @@ a2 :> s2
OneMistagged == s1 :> "other" @@ s2 :> "absent"

=============================================================================
