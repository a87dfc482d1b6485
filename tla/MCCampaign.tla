---------------------------- MODULE MCCampaign ----------------------------
(* Instances of Campaign for TLC. *)
EXTENDS Campaign, TLC

CONSTANTS r1, r2, w1, w2

OneCustomer == {1}
TwoCustomers == 1..2
ThreeCustomers == 1..3
OneRequest == {r1}
TwoRequests == {r1, r2}
NoWorkers == {}
OneWorker == {w1}
TwoWorkers == {w1, w2}

Symmetry == Permutations(TwoRequests) \union Permutations(TwoWorkers)
=============================================================================
