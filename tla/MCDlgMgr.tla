------------------------------ MODULE MCDlgMgr ------------------------------
(***************************************************************************)
(* Two handler processes with one thread each: the calls of one thread     *)
(* fall between any two writes of the other, and the end of a process      *)
(* leaves the other running.  A process goes by the name of its thread.    *)
(***************************************************************************)
EXTENDS DlgMgr, TLC

CONSTANTS h1, h2

MCProcessOf == [t \in Thread |-> t]

MCProcesses == Permutations({h1, h2})
=============================================================================
