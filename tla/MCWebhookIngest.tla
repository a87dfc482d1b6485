-------------------------- MODULE MCWebhookIngest --------------------------
(* Instances of WebhookIngest for TLC. *)
EXTENDS WebhookIngest, TLC

CONSTANTS purchase, relay,  \* an order event and a message to relay
          r1, r2, o1, o2, s1, s2, z1

OneEvent == {purchase}
TwoEvents == {purchase, relay}
NoCommunication == {}
RelayOnly == {relay}
AllSalla == [e \in Events |-> "salla"]
OrderFromZid == [e \in Events |-> IF e = purchase THEN "zid" ELSE "salla"]

TwoRequests == {r1, r2}
OneRequest == {r1}
OneOperator == {o1}
TwoOperators == {o1, o2}

TwoSalla == {s1, s2}
BothQueues == {s1, z1}
ServesOwn == [w \in Workers |-> IF w = z1 THEN "zid" ELSE "salla"]

Symmetry == Permutations(TwoRequests) \union Permutations(TwoOperators)
              \union Permutations(TwoSalla)
=============================================================================
