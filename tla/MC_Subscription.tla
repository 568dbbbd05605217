--------------------------- MODULE MC_Subscription ---------------------------
(* Instances of Subscription for TLC. *)
EXTENDS Subscription, TLC

CONSTANTS c1, c2, c3, c4, r1, r2

(* Three calls that between them may be of any method; two streams at a    *)
(* time, so that groups may overtake each other.                           *)
Mixed == [streamLimit |-> 2, ops |->
    c1 :> {"open", "cancel"} @@
    c2 :> {"openAt", "drop", "dropNext"} @@
    c3 :> {"open", "deadline", "skip", "close", "abort", "redirect"}]
(* One stream at a time: an OpenGroup waits for credit, with the lock that *)
(* the closers need.                                                       *)
Waiting == [streamLimit |-> 1, ops |->
    c1 :> {"open"} @@
    c2 :> {"open"} @@
    c3 :> {"close", "abort", "redirect"}]
MixedSettings == {Mixed, Waiting}

EarlySettings == {[streamLimit |-> 2, ops |-> [c \in Calls |-> {"open", "close"}]]}

CallSymmetry == Permutations(Calls)
=============================================================================
