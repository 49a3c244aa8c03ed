------------------------------ MODULE MCBoards ------------------------------
(***************************************************************************)
(* Finite instance of Boards: a pen board and an Excalidraw board.         *)
(***************************************************************************)
EXTENDS Boards, TLC

MCSymmetry == Permutations(Hosts) \cup Permutations(Contents)
=============================================================================
