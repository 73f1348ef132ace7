------------------------------ MODULE TcapSsap ------------------------------
(***************************************************************************)
(* Supervision and reconnection of the SSAPs of one TCAP handler process   *)
(* (TcapAculabApi.cc, HandlerMain.cc).  The main thread creates one SSAP   *)
(* per instance, starts a receive and a transmit thread for each, and      *)
(* looks at every instance in turn.  An instance that was not read for     *)
(* long, or whose connection is blocked, is deleted and made again, and    *)
(* the transactions of its dialogues are restored from the dialogue pool.  *)
(* gRestoreStatus tells the transmit threads to wait meanwhile.            *)
(*                                                                         *)
(* Modelled: one local point code, no host addresses configured (the first *)
(* half of GetSsapStatus).  The choice of an instance is one step, and any *)
(* instance that may transmit is chosen, not the next one.  Time: a        *)
(* sleep(1) of the main thread is assumed to outlast a call that waits for *)
(* the stack (500 ms) and the processing of a message (Settled).           *)
(*                                                                         *)
(* Only what becomes of a transaction when its SSAP is deleted is kept of  *)
(* a dialogue; TcapHandler has the rest.                                   *)
(***************************************************************************)
EXTENDS Naturals, Sequences

CONSTANTS
  NumInstances,     (* mNoOfInstance                                         *)
  MaxDlgSize,       (* the dialogue ids are 1 .. MaxDlgSize                  *)
  RestorationFlag,  (* mRestorationFlag: RESTORATION_REQUIRED                *)
  Faults,           (* the library calls that may fail                       *)
  Busy              (* bound: the instances whose threads get messages; the  *)
                    (* receive threads of the others only look for them      *)

ASSUME SsapAssumption ==
  /\ NumInstances \in Nat \ {0} /\ MaxDlgSize \in Nat
  /\ RestorationFlag \in BOOLEAN
  /\ Faults \subseteq {"create", "connect", "restore"}
  /\ Busy \subseteq 0 .. NumInstances - 1

VARIABLES
  ssap,       (* mSsapPtr: whether an instance has an SSAP                   *)
  state,      (* mSaapStatus[].state                                         *)
  silent,     (* lastActTime is 15 seconds ago or more                       *)
  link,       (* the connection to the host, as the library reports it       *)
  mTransmitFlag,
  gRestoreStatus,
  status,     (* gSsapDetails: the status of each instance                   *)
  threads,    (* how many pairs of threads each instance was given           *)
  rx, tx,     (* where the threads of each instance are                      *)
  dlg,        (* the records of the dialogue pool                            *)
  main        (* the main thread: where it is, the instance it looks at,     *)
              (* its copy of the details, of a record, ...                   *)

ssapVars == << ssap, state, silent, link, mTransmitFlag >>
vars == << ssapVars, gRestoreStatus, status, threads, rx, tx, dlg, main >>

Instance == 0 .. NumInstances - 1
Dlg == 1 .. MaxDlgSize
Next1(i) == (i + 1) % NumInstances

NoRecord == [inst |-> NumInstances, gone |-> FALSE]
Record(i) == [inst |-> i, gone |-> FALSE]

(* gone: the record's transaction was deleted, with its SSAP or with the     *)
(* process that wrote the record.                                            *)
Records == [inst : Instance, gone : BOOLEAN] \cup {NoRecord}

TxIdle == [at |-> "check", id |-> 0, rec |-> NoRecord]

(* A process starts with the pool as the last process left it.               *)
Init ==
  /\ ssap = [i \in Instance |-> "none"]
  /\ state = [i \in Instance |-> "CONNECTING"]
  /\ silent = [i \in Instance |-> FALSE]
  /\ link = [i \in Instance |-> "ok"]
  /\ mTransmitFlag = [i \in Instance |-> TRUE]
  /\ gRestoreStatus = FALSE
  /\ status = [i \in Instance |-> "ADDED_NEW"]
  /\ threads = [i \in Instance |-> 0]
  /\ rx = [i \in Instance |-> "off"]
  /\ tx = [i \in Instance |-> [TxIdle EXCEPT !.at = "off"]]
  /\ dlg \in [Dlg -> {NoRecord, [Record(0) EXCEPT !.gone = TRUE]}]
  /\ main = [at |-> "create", inst |-> 0, tries |-> 0, id |-> 0,
             rec |-> NoRecord, copy |-> status]

-----------------------------------------------------------------------------
(* The main thread.                                                          *)
GoTo(place) == main' = [main EXCEPT !.at = place]

(* SsapCreate: the process gives up when an SSAP cannot be made.             *)
SsapCreate(i) ==
  /\ main.at = "create"
  /\ status[i] = "ADDED_NEW"
  /\ ssap' = [ssap EXCEPT ![i] = "up"]
  /\ silent' = [silent EXCEPT ![i] = FALSE]
  /\ status' = [status EXCEPT ![i] = "CONNECT"]
  /\ UNCHANGED << state, link, mTransmitFlag, gRestoreStatus, threads, rx, tx, dlg, main >>

SsapCreateFails ==
  /\ main.at = "create"
  /\ "connect" \in Faults
  /\ \E i \in Instance : status[i] = "ADDED_NEW"
  /\ GoTo("exited")
  /\ UNCHANGED << ssapVars, gRestoreStatus, status, threads, rx, tx, dlg >>

(* TcapAculabHandler::Init: transmission is allowed and the records of the   *)
(* last process are freed, unless restoration is required.                   *)
HandlerInit ==
  /\ main.at = "create"
  /\ \A i \in Instance : status[i] = "CONNECT"
  /\ gRestoreStatus' = ~RestorationFlag
  /\ dlg' = IF RestorationFlag THEN dlg ELSE [d \in Dlg |-> NoRecord]
  /\ main' = [main EXCEPT !.at = "threads", !.inst = NumInstances - 1, !.copy = status]
  /\ UNCHANGED << ssapVars, status, threads, rx, tx >>

(* HandleThreads, on a copy of the details that it writes back at the end.   *)
StartThreads(i) ==
  /\ main.at = "threads"
  /\ main.copy[i] = "CONNECT"
  /\ threads' = [threads EXCEPT ![i] = @ + 1]
  /\ rx' = [rx EXCEPT ![i] = "idle"]
  /\ tx' = [tx EXCEPT ![i] = TxIdle]
  /\ main' = [main EXCEPT !.copy[i] = "ACTIVE"]
  /\ UNCHANGED << ssapVars, gRestoreStatus, status, dlg >>

ThreadsStarted ==
  /\ main.at = "threads"
  /\ \A i \in Instance : main.copy[i] # "CONNECT"
  /\ status' = main.copy
  /\ main' = [main EXCEPT !.at = "look", !.inst = Next1(@)]
  /\ UNCHANGED << ssapVars, gRestoreStatus, threads, rx, tx, dlg >>

(* GetSsapStatus: an instance that has no SSAP counts as well.               *)
Healthy(i) == ssap[i] = "none" \/ (~silent[i] /\ link[i] = "ok")

MarkWaitingOnly(i) ==  (* a slip: the instance itself is not marked        *)
  /\ gRestoreStatus' = FALSE
  /\ UNCHANGED state

MarkExiting(i) ==
  /\ state' = [state EXCEPT ![i] = "EXITING"]
  /\ gRestoreStatus' = FALSE

LookHealthy ==
  /\ main.at = "look"
  /\ Healthy(main.inst)
  /\ main' = [main EXCEPT !.inst = Next1(@)]
  /\ UNCHANGED << ssapVars, gRestoreStatus, status, threads, rx, tx, dlg >>

LookUnhealthy ==
  /\ main.at = "look"
  /\ ~Healthy(main.inst)
  /\ MarkExiting(main.inst)
  /\ main' = [main EXCEPT !.at = "wait", !.tries = 2]
  /\ UNCHANGED << ssap, silent, link, mTransmitFlag, status, threads, rx, tx, dlg >>

(* The time of a sleep(1): the call and the messages in hand are done with.  *)
Settled(i) ==
  /\ rx[i] \in {"off", "idle"}
  /\ \A w \in Instance : tx[w].at \in {"off", "check", "read"}

(* Two more looks, a second apart.  When one of them is good the instance is *)
(* left as it is, marked EXITING.                                            *)
WaitHealthy ==
  /\ main.at = "wait"
  /\ Settled(main.inst)
  /\ Healthy(main.inst)
  /\ main' = [main EXCEPT !.at = "look", !.inst = Next1(@)]
  /\ UNCHANGED << ssapVars, gRestoreStatus, status, threads, rx, tx, dlg >>

WaitUnhealthy ==
  /\ main.at = "wait"
  /\ Settled(main.inst)
  /\ ~Healthy(main.inst)
  /\ MarkExiting(main.inst)
  /\ main' = [main EXCEPT !.tries = @ - 1, !.at = IF main.tries = 1 THEN "delete" ELSE "wait"]
  /\ UNCHANGED << ssap, silent, link, mTransmitFlag, status, threads, rx, tx, dlg >>

(* SsapReConnect: acu_tcap_ssap_delete takes the transactions with it.       *)
Lose(rec, i) == IF rec.inst = i THEN [rec EXCEPT !.gone = TRUE] ELSE rec

DeleteStillTransmitting ==  (* a slip: the flag is left as it was           *)
  /\ main.at = "delete"
  /\ ssap' = [ssap EXCEPT ![main.inst] = "none"]
  /\ dlg' = [d \in Dlg |-> Lose(dlg[d], main.inst)]
  /\ tx' = [w \in Instance |-> [tx[w] EXCEPT !.rec = Lose(@, main.inst)]]
  /\ main' = [main EXCEPT !.at = "recreate", !.copy = status]
  /\ UNCHANGED << state, silent, link, mTransmitFlag, gRestoreStatus, status, threads, rx >>

ReConnectDelete ==
  /\ main.at = "delete"
  /\ LET i == main.inst IN
       /\ mTransmitFlag' = [mTransmitFlag EXCEPT ![i] = FALSE]
       /\ ssap' = [ssap EXCEPT ![i] = "none"]
       /\ dlg' = [d \in Dlg |-> Lose(dlg[d], i)]
       /\ tx' = [w \in Instance |-> [tx[w] EXCEPT !.rec = Lose(@, i)]]
  /\ main' = [main EXCEPT !.at = "recreate", !.copy = status]
  /\ UNCHANGED << state, silent, link, gRestoreStatus, status, threads, rx >>

(* When it gives up it leaves the instance as it is, and the main thread     *)
(* goes on with the next.                                                    *)
GiveUp == main' = [main EXCEPT !.at = "look", !.inst = Next1(@)]

ReConnectCreateFails ==
  /\ main.at = "recreate"
  /\ "create" \in Faults
  /\ GiveUp
  /\ UNCHANGED << ssapVars, gRestoreStatus, status, threads, rx, tx, dlg >>

CreateReadable ==  (* a slip: read from it again before it is connected    *)
  /\ main.at = "recreate"
  /\ ssap' = [ssap EXCEPT ![main.inst] = "up"]
  /\ link' = [link EXCEPT ![main.inst] = "ok"]
  /\ silent' = [silent EXCEPT ![main.inst] = FALSE]
  /\ state' = [state EXCEPT ![main.inst] = "CONNECTING"]
  /\ GoTo("connect")
  /\ UNCHANGED << mTransmitFlag, gRestoreStatus, status, threads, rx, tx, dlg >>

ReConnectCreate ==
  /\ main.at = "recreate"
  /\ ssap' = [ssap EXCEPT ![main.inst] = "up"]
  /\ link' = [link EXCEPT ![main.inst] = "ok"]
  /\ silent' = [silent EXCEPT ![main.inst] = FALSE]
  /\ GoTo("connect")
  /\ UNCHANGED << state, mTransmitFlag, gRestoreStatus, status, threads, rx, tx, dlg >>

ReConnectFails ==
  /\ main.at = "connect"
  /\ "connect" \in Faults
  /\ GiveUp
  /\ UNCHANGED << ssapVars, gRestoreStatus, status, threads, rx, tx, dlg >>

ReConnect ==
  /\ main.at = "connect"
  /\ main' = [main EXCEPT !.at = "restore", !.id = 1]
  /\ UNCHANGED << ssapVars, gRestoreStatus, status, threads, rx, tx, dlg >>

(* The restoration looks at the ids one by one.  A record of the instance is *)
(* left alone when it is too old, which any record may be by now; otherwise  *)
(* it is copied, its transaction is made again and the copy written back.    *)

RestoreSkipPast ==  (* a slip: one id too many                             *)
  /\ main.at = "restore"
  /\ main.id <= MaxDlgSize + 1
  /\ main' = [main EXCEPT !.id = @ + 1]
  /\ UNCHANGED << ssapVars, gRestoreStatus, status, threads, rx, tx, dlg >>

RestoreSkip ==
  /\ main.at = "restore"
  /\ main.id \in Dlg
  /\ main' = [main EXCEPT !.id = @ + 1]
  /\ UNCHANGED << ssapVars, gRestoreStatus, status, threads, rx, tx, dlg >>

RestoreRead ==
  /\ main.at = "restore"
  /\ main.id \in Dlg
  /\ dlg[main.id].inst = main.inst
  /\ main' = [main EXCEPT !.at = "map", !.rec = dlg[main.id]]
  /\ UNCHANGED << ssapVars, gRestoreStatus, status, threads, rx, tx, dlg >>

RestoreMap ==
  /\ main.at = "map"
  /\ dlg' = [dlg EXCEPT ![main.id] = [main.rec EXCEPT !.gone = FALSE]]
  /\ main' = [main EXCEPT !.at = "restore", !.id = @ + 1, !.rec = NoRecord]
  /\ UNCHANGED << ssapVars, gRestoreStatus, status, threads, rx, tx >>

RestoreFails ==
  /\ main.at = "map"
  /\ "restore" \in Faults
  /\ main' = [main EXCEPT !.at = "restore", !.id = @ + 1, !.rec = NoRecord]
  /\ UNCHANGED << ssapVars, gRestoreStatus, status, threads, rx, tx, dlg >>

ResumeLater ==  (* a slip: the transmit threads are not told               *)
  /\ main.at = "restore"
  /\ main.id \notin Dlg
  /\ GoTo("serve")
  /\ UNCHANGED << ssapVars, gRestoreStatus, status, threads, rx, tx, dlg >>

Resume ==
  /\ main.at = "restore"
  /\ main.id \notin Dlg
  /\ gRestoreStatus' = TRUE
  /\ GoTo("serve")
  /\ UNCHANGED << ssapVars, status, threads, rx, tx, dlg >>

(* A second later the instance is in service; the copy of the details taken  *)
(* before is written back.                                                   *)
ServeConnected ==  (* a slip: the status the commented-out code has        *)
  /\ main.at = "serve"
  /\ state' = [state EXCEPT ![main.inst] = "IN_SERVICE"]
  /\ mTransmitFlag' = [mTransmitFlag EXCEPT ![main.inst] = TRUE]
  /\ status' = [main.copy EXCEPT ![main.inst] = "CONNECT"]
  /\ main' = [main EXCEPT !.at = "threads", !.id = 0, !.copy = status']
  /\ UNCHANGED << ssap, silent, link, gRestoreStatus, threads, rx, tx, dlg >>

Serve ==
  /\ main.at = "serve"
  /\ LET i == main.inst IN
       /\ state' = [state EXCEPT ![i] = "IN_SERVICE"]
       /\ mTransmitFlag' = [mTransmitFlag EXCEPT ![i] = TRUE]
       /\ status' = [main.copy EXCEPT ![i] = "ACTIVE"]
  /\ main' = [main EXCEPT !.at = "threads", !.id = 0, !.copy = status']
  /\ UNCHANGED << ssap, silent, link, gRestoreStatus, threads, rx, tx, dlg >>

MainStep ==
  \/ \E i \in Instance : SsapCreate(i) \/ StartThreads(i)
  \/ SsapCreateFails \/ HandlerInit \/ ThreadsStarted
  \/ LookHealthy \/ LookUnhealthy \/ WaitHealthy \/ WaitUnhealthy
  \/ ReConnectDelete \/ ReConnectCreate \/ ReConnectCreateFails
  \/ ReConnect \/ ReConnectFails
  \/ RestoreSkip \/ RestoreRead \/ RestoreMap \/ RestoreFails
  \/ Resume \/ Serve

-----------------------------------------------------------------------------
(* The receive thread of an instance.                                        *)
RxGoTo(i, place) == rx' = [rx EXCEPT ![i] = place]

(* GetAcuTcapEvent: nothing is read of an instance that is EXITING.          *)
RxPoll(i) ==
  /\ rx[i] = "idle"
  /\ state[i] # "EXITING"
  /\ RxGoTo(i, "get")
  /\ UNCHANGED << ssapVars, gRestoreStatus, status, threads, tx, dlg, main >>

(* The call returns, with nothing (and half a second later), with a message  *)
(* of a dialogue or with one that tells the state of the connection.         *)
RxNothing(i) ==
  /\ rx[i] = "get"
  /\ RxGoTo(i, "idle")
  /\ silent' = [silent EXCEPT ![i] = FALSE]
  /\ UNCHANGED << ssap, state, link, mTransmitFlag, gRestoreStatus, status, threads, tx, dlg, main >>

RxMessage(i) ==
  /\ i \in Busy
  /\ rx[i] = "get"
  /\ RxGoTo(i, "work")
  /\ silent' = [silent EXCEPT ![i] = FALSE]
  /\ UNCHANGED << ssap, state, link, mTransmitFlag, gRestoreStatus, status, threads, tx, dlg, main >>

(* PrintConState: a host that is in service may be sent to unless it blocks; *)
(* other states leave the flag alone.                                        *)
RxConState(i) ==
  /\ i \in Busy
  /\ rx[i] = "get"
  /\ RxGoTo(i, "idle")
  /\ silent' = [silent EXCEPT ![i] = FALSE]
  /\ \E transmit \in BOOLEAN : mTransmitFlag' = [mTransmitFlag EXCEPT ![i] = transmit]
  /\ UNCHANGED << ssap, state, link, gRestoreStatus, status, threads, tx, dlg, main >>

(* A message of the network opens or continues a dialogue.  The library has  *)
(* messages only for transactions it knows.                                  *)
RxWork(i, d) ==
  /\ rx[i] = "work"
  /\ RxGoTo(i, "idle")
  /\ dlg[d] = NoRecord \/ (dlg[d].inst = i /\ ~dlg[d].gone)
  /\ dlg' = [dlg EXCEPT ![d] = Record(i)]
  /\ UNCHANGED << ssapVars, gRestoreStatus, status, threads, tx, main >>

(* It ends one, or cannot be decoded, which ends it as well.                 *)
RxEnd(i, d) ==
  /\ rx[i] = "work"
  /\ RxGoTo(i, "idle")
  /\ dlg[d].inst = i /\ ~dlg[d].gone
  /\ dlg' = [dlg EXCEPT ![d] = NoRecord]
  /\ UNCHANGED << ssapVars, gRestoreStatus, status, threads, tx, main >>

(* It is dropped, as when the pool has no id for it.                         *)
RxDrop(i) ==
  /\ rx[i] = "work"
  /\ RxGoTo(i, "idle")
  /\ UNCHANGED << ssapVars, gRestoreStatus, status, threads, tx, dlg, main >>

RxStep(i) ==
  \/ RxPoll(i) \/ RxNothing(i) \/ RxMessage(i) \/ RxConState(i) \/ RxDrop(i)
  \/ \E d \in Dlg : RxWork(i, d) \/ RxEnd(i, d)

-----------------------------------------------------------------------------
(* The transmit threads, which share one queue.                              *)
TxDone(w) == tx' = [tx EXCEPT ![w] = TxIdle]

(* gRestoreStatus is looked at before the read of the queue, which blocks    *)
(* until the application has a message.                                      *)
TxCheck(w) ==
  /\ w \in Busy
  /\ tx[w].at = "check"
  /\ gRestoreStatus
  /\ tx' = [tx EXCEPT ![w].at = "read"]
  /\ UNCHANGED << ssapVars, gRestoreStatus, status, threads, rx, dlg, main >>

(* A message of a dialogue: its record is copied.                            *)
TxTake(w, d) ==
  /\ tx[w].at = "read"
  /\ dlg[d] # NoRecord
  /\ tx' = [tx EXCEPT ![w] = [at |-> "use", id |-> d, rec |-> dlg[d]]]
  /\ UNCHANGED << ssapVars, gRestoreStatus, status, threads, rx, dlg, main >>

(* A query, for an instance that may transmit; when there is none it is      *)
(* answered with an abort.                                                   *)
TxQuery(w, d) ==
  /\ tx[w].at = "read"
  /\ dlg[d] = NoRecord
  /\ IF \A i \in Instance : ~mTransmitFlag[i]
     THEN TxDone(w)
     ELSE \E i \in Instance :
            /\ mTransmitFlag[i]
            /\ tx' = [tx EXCEPT ![w] = [at |-> "trans", id |-> d, rec |-> Record(i)]]
  /\ UNCHANGED << ssapVars, gRestoreStatus, status, threads, rx, dlg, main >>

(* CreateAcuTcapTrans.                                                       *)
TxCreateTrans(w) ==
  /\ tx[w].at = "trans"
  /\ LET i == tx[w].rec.inst IN
       IF ssap[i] = "none"
       THEN state' = [state EXCEPT ![i] = "EXITING"] /\ TxDone(w)
       ELSE tx' = [tx EXCEPT ![w] = [@ EXCEPT !.at = "use", !.rec.gone = FALSE]]
              /\ UNCHANGED state
  /\ UNCHANGED << ssap, silent, link, mTransmitFlag, gRestoreStatus, status,
                  threads, rx, dlg, main >>

(* The message is built and sent on the transaction, and the copy written    *)
(* back with a new time; or the dialogue is ended and its record freed.      *)
TxUse(w) ==
  /\ tx[w].at = "use"
  /\ dlg' \in {[dlg EXCEPT ![tx[w].id] = tx[w].rec], [dlg EXCEPT ![tx[w].id] = NoRecord]}
  /\ TxDone(w)
  /\ UNCHANGED << ssapVars, gRestoreStatus, status, threads, rx, main >>

TxStep(w) ==
  \/ TxCheck(w) \/ TxCreateTrans(w) \/ TxUse(w)
  \/ \E d \in Dlg : TxTake(w, d) \/ TxQuery(w, d)

-----------------------------------------------------------------------------
(* The connection, and time.                                                 *)
LinkChange(i) ==
  /\ ssap[i] = "up"
  /\ link' = [link EXCEPT ![i] = IF @ = "ok" THEN "blocked" ELSE "ok"]
  /\ UNCHANGED << ssap, state, silent, mTransmitFlag, gRestoreStatus, status, threads,
                  rx, tx, dlg, main >>

(* Fifteen seconds without a read: more than a thread that reads at all      *)
(* needs for one message.                                                    *)
Silence(i) ==
  /\ state[i] = "EXITING"
  /\ rx[i] = "idle"
  /\ ~silent[i]
  /\ silent' = [silent EXCEPT ![i] = TRUE]
  /\ UNCHANGED << ssap, state, link, mTransmitFlag, gRestoreStatus, status, threads,
                  rx, tx, dlg, main >>

Next ==
  \/ MainStep
  \/ \E i \in Instance : RxStep(i) \/ TxStep(i) \/ LinkChange(i) \/ Silence(i)

SsapSpec == Init /\ [][Next]_vars

(* Threads that can run do; time passes; an SSAP that is made again and      *)
(* again is connected in the end.                                            *)
SsapFairness ==
  /\ WF_vars(MainStep)
  /\ \A i \in Instance :
       /\ SF_vars(main.inst = i /\ ReConnect)
       /\ WF_vars(RxStep(i))
       /\ WF_vars(Silence(i))
  /\ \A w \in Busy : WF_vars(TxCreateTrans(w) \/ TxUse(w))

FairSsapSpec == SsapSpec /\ SsapFairness

-----------------------------------------------------------------------------
TypeOK ==
  /\ ssap \in [Instance -> {"none", "up"}]
  /\ state \in [Instance -> {"CONNECTING", "IN_SERVICE", "EXITING"}]
  /\ silent \in [Instance -> BOOLEAN]
  /\ link \in [Instance -> {"ok", "blocked"}]
  /\ mTransmitFlag \in [Instance -> BOOLEAN]
  /\ gRestoreStatus \in BOOLEAN
  /\ status \in [Instance -> {"ADDED_NEW", "CONNECT", "ACTIVE"}]
  /\ threads \in [Instance -> Nat]
  /\ rx \in [Instance -> {"off", "idle", "get", "work"}]
  /\ tx \in [Instance -> [at : {"off", "check", "read", "trans", "use"},
                          id : Dlg \cup {0}, rec : Records]]
  /\ dlg \in [Dlg -> Records]
  /\ main \in [at : {"create", "exited", "threads", "look", "wait", "delete", "recreate",
                     "connect", "restore", "map", "serve"},
               inst : Instance, tries : 0 .. 2, id : 0 .. MaxDlgSize + 1, rec : Records,
               copy : [Instance -> {"ADDED_NEW", "CONNECT", "ACTIVE"}]]

(* No receive thread reads from an SSAP, or works on a message of it, when   *)
(* the main thread has deleted it: SsapReConnect deletes it without asking   *)
(* anyone, after GetSsapStatus has marked it EXITING and two sleeps.         *)
RxUsesLiveSsap == \A i \in Instance : rx[i] \in {"get", "work"} => ssap[i] = "up"

(* Queries are only given to an instance that has an SSAP: mTransmitFlag is  *)
(* written by the reconnection and by the receive threads' PrintConState.    *)
TransmittersHaveSsap ==
  \A i \in Instance : threads[i] > 0 /\ mTransmitFlag[i] => ssap[i] = "up"

(* However often an instance is reconnected, HandleThreads, which is called  *)
(* each time, starts one pair of threads for it.                             *)
OnePairOfThreads == \A i \in Instance : threads[i] <= 1

(* An instance that supervision gave up comes back into service, unless its  *)
(* SSAP could not be made again: GetSsapStatus then finds nothing wrong with *)
(* it ever after.                                                            *)
ReconnectsInTheEnd ==
  \A i \in Instance : state[i] = "EXITING" ~> (state[i] = "IN_SERVICE" \/ [](ssap[i] = "none"))

(* The transmit threads, which GetSsapStatus stops for any bad look at any   *)
(* instance, are let go on, even if the next looks are good and nothing is   *)
(* reconnected.  Only an instance lost for ever can keep them waiting.       *)
TransmissionResumes ==
  ~gRestoreStatus ~>
    (gRestoreStatus \/ main.at = "exited" \/ [](\E i \in Instance : ssap[i] = "none"))

(* A transmit thread makes no library call on a transaction that was deleted *)
(* with its SSAP.                                                            *)
DeletedTransUnused == \A w \in Instance : tx[w].at = "use" => ~tx[w].rec.gone
=============================================================================
