---------------------------- MODULE SccpHandler ----------------------------
(***************************************************************************)
(* The SCCP handler process (SccpAculabHandlerMain.cc, SccpAculabApi.cc):  *)
(* one SSAP, a main thread that looks at its connection and replaces it    *)
(* when it is blocked or gone, and pairs of a receive and a transmit       *)
(* thread.  Each reconnection starts a further pair and ends none.         *)
(*                                                                         *)
(* Modelled: from the end of Init on.  The two hosts of the SSAP are one   *)
(* link: blocked when one of them is in service and blocked, down when     *)
(* neither is in service.  A message that is not unit data is handled in   *)
(* one step.  What is in a message, and which destination point code it    *)
(* is sent to, is left out: a message may be refused for either.  What is  *)
(* undefined in the code, a read through a pointer that was never set or   *)
(* to what was deleted, may end the process or be survived.                *)
(***************************************************************************)
EXTENDS SccpCodec

CONSTANTS
  MaxPairs,    (* bound: further pairs of threads do what these do           *)
  Faults       (* what may go wrong                                          *)

ASSUME SccpAssumption ==
  /\ MaxPairs \in Nat \ {0}
  /\ Faults \subseteq {"create", "connect", "wild"}

VARIABLES
  ssap,        (* mSsapPtr: whether there is an SSAP                         *)
  state,       (* mSaapStatus.state                                          *)
  silent,      (* lastActTime is 30 seconds ago or more                      *)
  link,        (* the connection to the hosts, as the library has it         *)
  seen,        (* host_a_con_state, host_b_con_state: link when last sampled *)
  mConnection, (* none, of the SSAP there is, or of one that was deleted     *)
  mSccpInfo,   (* the receive thread whose message it holds                  *)
  main,        (* where the main thread is                                   *)
  rx, tx       (* where the receive and transmit threads are                 *)

stackVars == << ssap, link, mConnection >>
vars == << stackVars, state, silent, seen, mSccpInfo, main, rx, tx >>

Pair == 1 .. MaxPairs
NoPair == 0

Init ==
  /\ ssap = "up" /\ link = "down" /\ mConnection = "none"
  /\ state = "CONNECTING"
  /\ silent = FALSE
  /\ seen = "down"
  /\ mSccpInfo = NoPair
  /\ main = "startTx"
  /\ rx = [p \in Pair |-> "off"] /\ tx = [p \in Pair |-> "off"]

-----------------------------------------------------------------------------
(* HandleThreads: a transmit thread and, a second later, a receive thread.   *)
StartNext(threads, at) ==
  [p \in Pair |-> IF threads[p] = "off" /\ \A q \in Pair : q < p => threads[q] # "off"
                  THEN at ELSE threads[p]]

StartRxFirst ==   (* a slip: in the other order                              *)
  /\ main = "startTx"
  /\ rx' = StartNext(rx, "idle")
  /\ main' = "startRx"
  /\ UNCHANGED << stackVars, state, silent, seen, mSccpInfo, tx >>

StartTx ==
  /\ main = "startTx"
  /\ tx' = StartNext(tx, "read")
  /\ main' = "startRx"
  /\ UNCHANGED << stackVars, state, silent, seen, mSccpInfo, rx >>

StartRx ==
  /\ main = "startRx"
  /\ rx' = StartNext(rx, "idle")
  /\ main' = "sample"
  /\ UNCHANGED << stackVars, state, silent, seen, mSccpInfo, tx >>

(* UpdateSsapStatus, every three seconds.                                    *)
UpdateSsapStatus ==
  /\ main = "sample"
  /\ seen' = IF ssap = "up" THEN link ELSE seen
  /\ main' = "look"
  /\ UNCHANGED << stackVars, state, silent, mSccpInfo, rx, tx >>

(* GetSsapStatus judges by the sample, and takes a missing SSAP for a good   *)
(* one.                                                                      *)
(* Slips: quiet is enough to be bad; a block is not noticed; a link that is  *)
(* down is good.                                                             *)
HealthyUnlessQuiet   == ssap = "none" \/ (seen # "blocked" /\ ~silent)
HealthyUnlessGone    == ssap = "none" \/ seen = "ok" \/ ~silent
HealthyUnlessBlocked == ssap = "none" \/ seen # "blocked"

Healthy == ssap = "none" \/ seen = "ok" \/ (seen = "down" /\ ~silent)

LookHealthy ==
  /\ main = "look"
  /\ Healthy
  /\ main' = "sample"
  /\ UNCHANGED << stackVars, state, silent, seen, mSccpInfo, rx, tx >>

LookUnmarked ==   (* a slip: the threads are not told                        *)
  /\ main = "look"
  /\ ~Healthy
  /\ main' = "delete"
  /\ UNCHANGED << stackVars, state, silent, seen, mSccpInfo, rx, tx >>

LookUnhealthy ==
  /\ main = "look"
  /\ ~Healthy
  /\ state' = "EXITING"
  /\ main' = "delete"
  /\ UNCHANGED << stackVars, silent, seen, mSccpInfo, rx, tx >>

(* SsapReConnect.  Nobody waits for the receive threads; mConnection is left *)
(* as it is.                                                                 *)
ReConnectDelete ==
  /\ main = "delete"
  /\ ssap' = "none"
  /\ link' = "down"
  /\ mConnection' = IF mConnection = "none" THEN "none" ELSE "stale"
  /\ rx' = [p \in Pair |-> IF rx[p] = "get" THEN "getDeleted" ELSE rx[p]]
  /\ main' = "create"
  /\ UNCHANGED << state, silent, seen, mSccpInfo, tx >>

ReConnectCreateFails ==
  /\ main = "create"
  /\ "create" \in Faults
  /\ main' = "sample"
  /\ UNCHANGED << stackVars, state, silent, seen, mSccpInfo, rx, tx >>

ReConnectCreate ==
  /\ main = "create"
  /\ ssap' = "up"
  /\ silent' = FALSE
  /\ main' = "connect"
  /\ UNCHANGED << link, mConnection, state, seen, mSccpInfo, rx, tx >>

ReConnectFails ==
  /\ main = "connect"
  /\ "connect" \in Faults
  /\ main' = "sample"
  /\ UNCHANGED << stackVars, state, silent, seen, mSccpInfo, rx, tx >>

ReConnected ==
  /\ main = "connect"
  /\ state' = "IN_SERVICE"
  /\ main' = "startTx"
  /\ UNCHANGED << stackVars, silent, seen, mSccpInfo, rx, tx >>

-----------------------------------------------------------------------------
(* A receive thread.  GetAcuSccpEvent reads from the SSAP for half a second; *)
(* of a marked SSAP it only logs a message, one it does not have.            *)
RxCalls(p) ==
  /\ rx[p] = "idle"
  /\ state # "EXITING"
  /\ rx' = [rx EXCEPT ![p] = "get"]
  /\ UNCHANGED << stackVars, state, silent, seen, mSccpInfo, main, tx >>

(* The call comes back, with a message or not: both count as activity.       *)
Returns(p, place) ==
  /\ rx[p] = "get"
  /\ silent' = FALSE
  /\ rx' = [rx EXCEPT ![p] = place]
  /\ UNCHANGED << ssap, link, state, seen, main, tx >>

(* Nothing, or a message that changes nothing here (notice, status, ...).    *)
RxOther(p) == Returns(p, "idle") /\ UNCHANGED << mConnection, mSccpInfo >>

(* GetAcuSccpConState: the connection is made from the SSAP unless there is  *)
(* one already.                                                              *)
RxConState(p) ==
  /\ Returns(p, "idle")
  /\ mConnection = "none" /\ mConnection' = "live"
  /\ UNCHANGED mSccpInfo

(* DecodeUnitData writes the message into the handler's mSccpInfo; when it   *)
(* fails the message is not forwarded.                                       *)
RxUnitData(p) ==
  /\ link # "down"
  /\ \E place \in {"decoded", "idle"} : Returns(p, place)
  /\ mSccpInfo' = p
  /\ UNCHANGED mConnection

(* TxMsgToApplication(mSccpInfo).                                            *)
RxForwards(p) ==
  /\ rx[p] = "decoded"
  /\ rx' = [rx EXCEPT ![p] = "idle"]
  /\ UNCHANGED << stackVars, state, silent, seen, mSccpInfo, main, tx >>

RxReturnsFromDeleted(p) ==
  /\ rx[p] = "getDeleted"
  /\ silent' = FALSE
  /\ rx' = [rx EXCEPT ![p] = "idle"]
  /\ UNCHANGED << stackVars, state, seen, mSccpInfo, main, tx >>

-----------------------------------------------------------------------------
(* A transmit thread takes a message of the application and holds it until   *)
(* GetSsapStatus is good; a bad look marks the SSAP.                         *)
TxTakes(p) ==
  /\ tx[p] = "read"
  /\ tx' = [tx EXCEPT ![p] = "held"]
  /\ UNCHANGED << stackVars, state, silent, seen, mSccpInfo, main, rx >>

TxWaits(p) ==
  /\ tx[p] = "held"
  /\ ~Healthy
  /\ state' = "EXITING"
  /\ UNCHANGED << stackVars, silent, seen, mSccpInfo, main, rx, tx >>

TxGoesOnUnmarked(p) ==   (* a slip: a marked SSAP is waited for              *)
  /\ tx[p] = "held"
  /\ Healthy /\ state # "EXITING"
  /\ tx' = [tx EXCEPT ![p] = "send"]
  /\ UNCHANGED << stackVars, state, silent, seen, mSccpInfo, main, rx >>

TxGoesOn(p) ==
  /\ tx[p] = "held"
  /\ Healthy
  /\ tx' = [tx EXCEPT ![p] = "send"]
  /\ UNCHANGED << stackVars, state, silent, seen, mSccpInfo, main, rx >>

(* ProcessTxMsgToStack: the message is sent on mConnection, or refused for   *)
(* want of a destination or of a connection.                                 *)
TxSends(p) ==
  /\ tx[p] = "send"
  /\ tx' = [tx EXCEPT ![p] = "read"]
  /\ UNCHANGED << stackVars, state, silent, seen, mSccpInfo, main, rx >>

-----------------------------------------------------------------------------
LinkChanges ==
  /\ ssap = "up" /\ main # "connect" /\ main # "ended"
  /\ link' \in {"down", "ok", "blocked"}
  /\ UNCHANGED << ssap, mConnection, state, silent, seen, mSccpInfo, main, rx, tx >>

(* Thirty seconds pass in which no receive thread came back from the SSAP:   *)
(* they do so twice a second unless the SSAP is marked.                      *)
ThirtySeconds ==
  /\ state = "EXITING" /\ main \in {"sample", "look"}
  /\ \A p \in Pair : rx[p] \in {"off", "idle"}
  /\ silent' = TRUE
  /\ UNCHANGED << stackVars, state, seen, mSccpInfo, main, rx, tx >>

(* The process ends on a use of something that is not there.                 *)
UsesNothing ==
  \/ \E p \in Pair : rx[p] = "idle" /\ state = "EXITING"
  \/ \E p \in Pair : rx[p] = "getDeleted"
  \/ \E p \in Pair : tx[p] = "send" /\ mConnection = "stale"

Crash ==
  /\ "wild" \in Faults
  /\ main # "ended" /\ UsesNothing
  /\ main' = "ended"
  /\ rx' = [p \in Pair |-> "off"] /\ tx' = [p \in Pair |-> "off"]
  /\ UNCHANGED << stackVars, state, silent, seen, mSccpInfo >>

-----------------------------------------------------------------------------
LookStep == UpdateSsapStatus \/ LookHealthy \/ LookUnhealthy

ReConnectStep ==
  \/ ReConnectDelete
  \/ ReConnectCreateFails \/ ReConnectCreate
  \/ ReConnectFails \/ ReConnected

MainStep == StartTx \/ StartRx \/ LookStep \/ ReConnectStep

RxStep(p) ==
  \/ RxCalls(p) \/ RxOther(p) \/ RxConState(p) \/ RxUnitData(p)
  \/ RxForwards(p) \/ RxReturnsFromDeleted(p)

TxStep(p) == TxTakes(p) \/ TxWaits(p) \/ TxGoesOn(p) \/ TxSends(p)

Next ==
  \/ MainStep
  \/ \E p \in Pair : RxStep(p) \/ TxStep(p)
  \/ LinkChanges \/ ThirtySeconds \/ Crash

Spec == Init /\ [][Next]_vars

(* The threads run.  A transmit thread looks every second and a sample stays *)
(* for three: it does not miss a good one again and again.                   *)
Fairness ==
  /\ WF_vars(MainStep)
  /\ \A p \in Pair : WF_vars(RxStep(p)) /\ SF_vars(TxGoesOn(p)) /\ WF_vars(TxSends(p))
  /\ WF_vars(ThirtySeconds)

FairSpec == Spec /\ Fairness
-----------------------------------------------------------------------------
(* Where everything can be; the threads of a pair are started in their order.*)
TypeOK ==
  /\ ssap \in {"up", "none"}
  /\ state \in {"CONNECTING", "IN_SERVICE", "EXITING"}
  /\ silent \in BOOLEAN
  /\ link \in {"down", "ok", "blocked"} /\ seen \in {"down", "ok", "blocked"}
  /\ mConnection \in {"none", "live", "stale"}
  /\ mSccpInfo \in Pair \cup {NoPair}
  /\ main \in {"startTx", "startRx", "sample", "look", "delete", "create", "connect", "ended"}
  /\ rx \in [Pair -> {"off", "idle", "get", "getDeleted", "decoded"}]
  /\ tx \in [Pair -> {"off", "read", "held", "send"}]
  /\ \A p \in Pair : rx[p] # "off" => tx[p] # "off"

(* An SSAP that is being deleted, that is missing or that is not connected   *)
(* is marked, so that no receive thread starts to read from it: the mark is  *)
(* all that keeps msg_get from a null pointer.                               *)
MarkedWhileReplaced ==
  /\ ssap = "none" => state = "EXITING"
  /\ main \in {"delete", "create", "connect"} => state = "EXITING"

(* A link that was in service and not blocked when it was last sampled is    *)
(* not torn down, however quiet it is.                                       *)
QuietLinkStays == [][ssap = "up" /\ ssap' = "none" => seen # "ok"]_vars

(* A blocked link freezes all traffic: it clears or its SSAP is replaced.    *)
BlockedLinkGoes == link = "blocked" ~> link # "blocked" \/ main = "ended"

(* A marked SSAP is read by no thread: it is replaced, or cannot be made     *)
(* again, unless its link comes back by itself; then nobody replaces it.     *)
MarkedIsReplaced ==
  state = "EXITING" ~> \/ state # "EXITING" \/ ssap = "none"
                       \/ link = "ok" \/ main = "ended"

(* When the link is no longer blocked the transmit threads go on with the    *)
(* messages they hold.                                                       *)
HeldGoesOn ==
  <>[](link # "blocked") =>
    \A p \in Pair : tx[p] = "held" ~> tx[p] # "held"

(* What a receive thread has decoded is what arrives of the message that was *)
(* sent to it, whichever that was, but for results that look long and aborts *)
(* with a long dialogue portion.                                             *)
ReadsWhatArrives == \A p \in Pair : mSccpInfo = p => ReadUnlessMisread

(* The message a receive thread sends to the application is the one it       *)
(* received.                                                                 *)
ForwardsItsOwn == \A p \in Pair : rx[p] = "decoded" => mSccpInfo = p
=============================================================================
