----------------------------- MODULE MCAccessApply -----------------------------
\* AccessApply on a small instance: two VLANs, one of them wanted at a
\* time, so that every change adds one and prunes the other.
EXTENDS AccessApply

CONSTANTS v1, v2

EitherOne == {{v1}, {v2}}
=============================================================================
