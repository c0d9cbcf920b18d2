------------------------------ MODULE MCFlowRun ------------------------------
(* Small instances of FlowRun for TLC. *)
EXTENDS FlowRun

\* Each main step reads the one before it, each teardown step the first main
\* step, the way a flow releases what it created.
ChainRefs ==
  [p \in Steps |-> IF p \in MainSteps THEN {p - 1} \cap MainSteps
                   ELSE IF p \in TeardownSteps THEN {NSetup + 1} \cap MainSteps
                   ELSE {}]
NoRefs == [p \in Steps |-> {}]
=============================================================================
