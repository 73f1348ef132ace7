----------------------------- MODULE MCTcapSsap -----------------------------
(***************************************************************************)
(* Small handlers for TLC: one or two SSAPs and one dialogue id.           *)
(***************************************************************************)
EXTENDS TcapSsap, TLC
=============================================================================
