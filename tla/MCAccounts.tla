------------------------------ MODULE MCAccounts ------------------------------
\* One student and two ids, of which one's VM cannot be deleted; of the create
\* and the three deleting handlers two are in flight, a deletion by request only
\* beside that of the account.
EXTENDS Accounts, TLC

Creating == IF create'.step = "idle" THEN 0 ELSE 1
Deleting == {w \in Worker : job'[w].step # "idle"}
TwoAtOnce ==
    /\ Cardinality(Deleting) + Creating <= 2
    /\ "request" \in Deleting => Creating = 0 /\ "sweep" \notin Deleting
MCSpec == Init /\ [][Next /\ TwoAtOnce]_vars /\ Fairness

=============================================================================
