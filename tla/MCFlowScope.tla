----------------------------- MODULE MCFlowScope -----------------------------
EXTENDS FlowScope

Call(id, W) == [id |-> id, when |-> id \in W, nested |-> <<>>]
Loop(id, W, ns) == [id |-> id, when |-> id \in W, nested |-> ns]

\* Plain steps in every phase, and a loop block between two steps.
Plain(W) == [setup |-> <<Call("s", W)>>,
             main |-> <<Call("a", W)>>,
             teardown |-> <<Call("t", W)>>]
Looping(W) == [setup |-> <<>>,
               main |-> <<Loop("b", W, <<Call("n1", W), Call("n2", W)>>), Call("c", W)>>,
               teardown |-> <<>>]
\* An edit has moved a step out of the block.
Relocating(W) == [setup |-> <<>>,
                  main |-> <<Loop("b", W, <<Call("n2", W)>>), Call("n1", W)>>,
                  teardown |-> <<>>]

MCFlows == {Plain({"s"}), Looping({"n2", "b"}), Relocating({"n2"})}
=============================================================================
