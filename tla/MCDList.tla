------------------------------ MODULE MCDList ------------------------------
(* A small instance of DList for TLC.  Addresses are interchangeable. *)
EXTENDS DList, TLC

MCKinds == {<<1, 1>>, <<1, 2>>, <<2, 1>>}
Addresses == Permutations(Nodes) \cup Permutations(Lists)
=============================================================================
