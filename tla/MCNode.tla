------------------------------- MODULE MCNode -------------------------------
(***************************************************************************)
(* Instances of Node for TLC: two nodes that mine apart, so that their     *)
(* chains fork and one of them has to give way.                            *)
(***************************************************************************)
EXTENDS Node

CONSTANTS m, n, t, u

\* The nodes know each other.
MCPeers == [x \in Nodes |-> Nodes \ {x}]

\* n is a home miner behind NAT: it polls m and pushes to it, and m does not
\* know where to reach n.
MCHomePeers == [x \in Nodes |-> IF x = n THEN {m} ELSE {}]

\* One sender's transactions, signed one after the other.
MCSender == [x \in Txs |-> "alice"]
MCNonce == [x \in Txs |-> IF x = u THEN 1 ELSE 0]

\* Nodes are told apart by nothing but their name.
Symmetry == Permutations(Nodes)
=============================================================================
