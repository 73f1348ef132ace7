--------------------------- MODULE MCTcapHandler ---------------------------
(***************************************************************************)
(* Small handlers for TLC: few transactions, and the smallest pools, where *)
(* an id that was freed is at once the next to be handed out.              *)
(***************************************************************************)
EXTENDS TcapHandler, TLC

CONSTANTS t1, t2, t3, rx1

MCContent == [trans : Trans, old : BOOLEAN]

OneRx == [t \in Trans |-> rx1]
=============================================================================
