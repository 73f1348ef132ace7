---------------------------- MODULE MCMultiComp ----------------------------
(***************************************************************************)
(* Messages of up to three components.                                     *)
(***************************************************************************)
EXTENDS MultiComp, TLC

CONSTANTS d1, d2, tx1, tx2

MCDlgs == Permutations({d1, d2}) \cup Permutations({tx1, tx2})
=============================================================================
