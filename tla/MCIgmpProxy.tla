---------------------------- MODULE MCIgmpProxy ----------------------------
EXTENDS IgmpProxy, TLC

\* Intervals and numbers of the general queries, scaled down.
MCInterval == [q \in Query |-> IF q = "general" THEN 3 ELSE 1]
MCTimes == [q \in Query |-> IF q = "startup" THEN 1 ELSE 2]
=============================================================================
