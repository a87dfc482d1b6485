--------------------------- MODULE MCSubscription ---------------------------
(* Instances of Subscription for TLC. *)
EXTENDS Subscription

CONSTANTS templates, widget,  \* a feature the sweep tests, and one it does not
          s1, s2, c1, c2

TestedFeature == {templates}
OneSweep == {s1}
TwoCalls == {c1, c2}
OneTerm == {1}
=============================================================================
