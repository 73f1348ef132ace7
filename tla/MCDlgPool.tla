----------------------------- MODULE MCDlgPool -----------------------------
(***************************************************************************)
(* The dialogue manager for TLC.                                           *)
(***************************************************************************)
EXTENDS DlgPool
=============================================================================
