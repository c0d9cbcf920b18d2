----------------------------- MODULE MCLoopBlock -----------------------------
(* A block of two steps, the first of which polls, for TLC. *)
EXTENDS LoopBlock

FirstPolls == {1}
=============================================================================
