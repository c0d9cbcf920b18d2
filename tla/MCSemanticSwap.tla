---------------------------- MODULE MCSemanticSwap ----------------------------
(* Small instances of SemanticSwap.  A request for the configuration that is *)
(* applied already stands for one that changes the batch size only.          *)
EXTENDS SemanticSwap, TLC

CONSTANTS small, other, ModelA, ModelB

MCConfigs == {small, other}
MCModel == small :> ModelA @@ other :> ModelB
=============================================================================
