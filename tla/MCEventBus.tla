----------------------------- MODULE MCEventBus -----------------------------
(* A small instance of EventBus for TLC. *)
EXTENDS EventBus

CONSTANTS p1, p2

\* One publisher publishes twice, the other once.
TwoAndOne == [p \in {p1, p2} |-> IF p = p1 THEN 2 ELSE 1]
=============================================================================
