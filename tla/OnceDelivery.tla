---------------------------- MODULE OnceDelivery ----------------------------
(***************************************************************************)
(* What the campaign sender and the template scheduler promise about the   *)
(* messages they hand to WhatsApp: a message goes out only while every     *)
(* earlier one for the same item is excused, that is, was followed by a    *)
(* fault or a late write that hides it from the sender.                    *)
(***************************************************************************)
EXTENDS Naturals

CONSTANT Items      \* what is sent at most once: a customer, a scheduled row

VARIABLES sends, excuses

vars == <<sends, excuses>>

Init == /\ sends = [i \in Items |-> 0]
        /\ excuses = [i \in Items |-> 0]

Deliver(i) ==
    /\ sends[i] <= excuses[i]
    /\ sends' = [sends EXCEPT ![i] = @ + 1]
    /\ UNCHANGED excuses

\* The message goes out and its sender is told that it did not.
DeliverUnheard(i) ==
    /\ sends[i] <= excuses[i]
    /\ sends' = [sends EXCEPT ![i] = @ + 1]
    /\ excuses' = [excuses EXCEPT ![i] = @ + 1]

\* The senders of the items in S lose sight of a message they have sent.
Forget(S) ==
    /\ \A i \in S : sends[i] > excuses[i]
    /\ excuses' = [i \in Items |-> IF i \in S THEN excuses[i] + 1 ELSE excuses[i]]
    /\ UNCHANGED sends

Next == \/ \E i \in Items : Deliver(i) \/ DeliverUnheard(i)
        \/ \E S \in SUBSET Items : Forget(S)

Spec == Init /\ [][Next]_vars
=============================================================================
