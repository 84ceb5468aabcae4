----------------------------- MODULE MCRunHistory -----------------------------
(***************************************************************************)
(* Two deletes that overlap each other and one walk over two runs. The     *)
(* deletes are interchangeable.                                            *)
(***************************************************************************)
EXTENDS RunHistory, TLC

DeleterSymmetry == Permutations(Deleters)
=============================================================================
