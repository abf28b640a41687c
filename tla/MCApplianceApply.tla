-------------------------- MODULE MCApplianceApply --------------------------
\* ApplianceApply on a small instance: two applies, the second of which can
\* follow, or overlap on the guest, the one that failed; the revision in force,
\* one that takes the domain of its lab away and one without the lab.
EXTENDS ApplianceApply

MCServes == [base |-> {"lab"}, revoked |-> {"lab"}, released |-> {}]
MCWeb == [base |-> {<<"lab", "site">>}, revoked |-> {}, released |-> {}]

=============================================================================
