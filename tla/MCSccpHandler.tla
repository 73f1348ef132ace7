--------------------------- MODULE MCSccpHandler ---------------------------
(***************************************************************************)
(* The first pair of threads and the one the first reconnection adds, and  *)
(* the messages they encode and decode: parameters whose length, or that   *)
(* of a part around them, needs the second byte or not.                    *)
(***************************************************************************)
EXTENDS SccpHandler, TLC

MCDataLengths == {0, 1, 2} \cup 98 .. 129
MCOpCodes == {9, 300, 70000, 16777216}
=============================================================================
