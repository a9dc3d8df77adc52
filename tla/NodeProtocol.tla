---------------------------- MODULE NodeProtocol ----------------------------
(***************************************************************************)
(* The control protocol of one node as a specification: the state machine  *)
(* the README draws, with everything that can happen between a command and *)
(* its answer hidden.  Node is shown to implement it.                      *)
(***************************************************************************)
EXTENDS NodeCommands

CONSTANT Lines    \* the command lines a client may write

VARIABLE node

Init == node \in BootedNodes

Boot == node.busy = "boot" /\ node' = Up(node)
Read(c) == node.busy = "none" /\ node' \in Dispatched(node, c)
Complete == node' \in Completed(node)
Generate == node' \in GeneratorSteps(node)

Next == Boot \/ Complete \/ Generate \/ \E c \in Lines : Read(c)

Spec == Init /\ [][Next]_node
=============================================================================
