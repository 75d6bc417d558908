------------------------------- MODULE MCCNode -------------------------------
(* Small instances of CNode: two processes on the node that connects first *)
(* or second, one on another node.                                         *)
EXTENDS CNode

CONSTANTS p1, p2, p3, n1, n2

MCNodeOf == [p \in Proc |-> IF p = p3 THEN n2 ELSE n1]

MCGarbage == {1, -1}
=============================================================================
