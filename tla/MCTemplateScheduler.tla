------------------------ MODULE MCTemplateScheduler ------------------------
(* Instances of TemplateScheduler for TLC. *)
EXTENDS TemplateScheduler, TLC

CONSTANTS p1, p2, c1, c2, w1, w2,
          cart,             \* a template
          ali,              \* a customer
          o1, o2            \* two orders or carts

TwoIds == 1..2
TwoSchedulers == {p1, p2}
OneCanceller == {c1}
TwoCancellers == {c1, c2}
OneWorker == {w1}
TwoWorkers == {w1, w2}

OneTemplate == {cart}
NoTemplates == {}

Ask(t, c, r) == [template |-> t, customer |-> c, ref |-> r]
OneTarget == {Ask(cart, ali, o1)}
TwoCarts == {Ask(cart, ali, o1), Ask(cart, ali, o2)}

Order(k, c, f, r) == [kind |-> k, customer |-> c, form |-> f, ref |-> r]
OrderEvents == {Order("created", ali, "international", o2),
                Order("paid", NoCustomer, "international", o1),
                Order("delivered", NoCustomer, "international", NoRef)}
CreatedOnly == {Order("created", ali, "international", o2)}

NoDynamic == [k \in Kinds |-> {}]
DeliveredCancels == [k \in Kinds |-> IF k = "delivered" THEN Templates ELSE {}]

NoLimit == [t \in Templates |-> 0]
LimitOne == [t \in Templates |-> 1]

Symmetry == Permutations(TwoSchedulers) \union Permutations(TwoWorkers)
              \union Permutations(TwoCancellers)
=============================================================================
