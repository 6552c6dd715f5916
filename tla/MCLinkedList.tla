---------------------------- MODULE MCLinkedList -----------------------------
(* Two lists share four nodes: enough to remove the middle one of three and  *)
(* to go on with it leaked, or with nodes of the other list freed and handed *)
(* out again.  Addresses and data are only compared: each set is symmetric.  *)
EXTENDS LinkedList, TLC

Symmetry == Permutations(Lists) \cup Permutations(Nodes) \cup Permutations(Data)
=============================================================================
