------------------------------ MODULE MCDlgSem ------------------------------
(***************************************************************************)
(* Two handler processes: one with its main, transmit and receive threads, *)
(* one with a transmit and a receive thread.  A thread then waits on one   *)
(* of its own process and on one of another, and a correction can outlive  *)
(* the call it was made for.                                               *)
(***************************************************************************)
EXTENDS DlgSem, TLC

CONSTANTS h1, h2, main1, tx1, rx1, tx2, rx2

MCProcessOf == main1 :> h1 @@ tx1 :> h1 @@ rx1 :> h1 @@ tx2 :> h2 @@ rx2 :> h2
=============================================================================
