---------------------------- MODULE TcapHandler ----------------------------
(***************************************************************************)
(* One TCAP handler process at work on its dialogues (TcapAculabHandler.cc *)
(* and TransDlgMap.cc).  Transmit threads take the application's messages  *)
(* from one queue and pass them to the stack; receive threads take the     *)
(* stack's messages, each on its transaction, and pass them to the         *)
(* application.  Both find the transaction of a dialogue, or the dialogue  *)
(* of a transaction, in the dialogue pool, and both end dialogues: they    *)
(* free the record and delete the library's transaction.  The cleaner      *)
(* asks for the end of dialogues whose record is too old.                  *)
(*                                                                         *)
(* A step is what a thread does between two accesses to state that other   *)
(* threads share.  Calls of the dialogue manager are atomic (see DlgMgr);  *)
(* its records are read without the semaphore, as in the code.             *)
(*                                                                         *)
(* The Aculab library is modelled by what the handler relies on.  A call   *)
(* on a transaction that was deleted has no effect and reports no ids.     *)
(* A message to the application is one write, although a message of the    *)
(* stack makes one for each of its components.                             *)
(***************************************************************************)
EXTENDS DlgPool, Sequences

CONSTANTS
  Trans,        (* the transactions the library may create, each once        *)
  NoTrans,
  Tx, Rx,       (* the transmit and the receive threads                      *)
  AppQueries,   (* the dialogue ids the application opens dialogues with     *)
  IdsRecur,     (* whether it opens another dialogue with an id it used      *)
  AppKinds,     (* the messages the application sends                        *)
  RxOf,         (* the receive thread of the instance a transaction is on    *)
  SndTimeOutOnPreEnd,  (* mSndTimeOutOnPreEnd of the configuration           *)
  NetKinds,     (* the messages the network, or a timer, sends               *)
  Faults,       (* the calls, writes and conversions that may fail           *)
  Cleaner,      (* whether the cleaner process runs                          *)
  QueueBound,   (* bound on the messages waiting for the transmit threads    *)
  InboundBound  (* bound on the stack's messages waiting per transaction     *)

ASSUME HandlerAssumption ==
  /\ NoTrans \notin Trans
  /\ AppQueries \subseteq AppIds
  /\ RxOf \in [Trans -> Rx]
  /\ IdsRecur \in BOOLEAN /\ Cleaner \in BOOLEAN /\ SndTimeOutOnPreEnd \in BOOLEAN
  /\ QueueBound \in Nat /\ InboundBound \in Nat
  /\ AppKinds \subseteq {"QUERY", "CONV", "RESPONSE", "ABORT", "PREEND"}
  /\ NetKinds \subseteq {"QUERY", "CONV", "RESPONSE", "ABORT", "TIMEOUT"}
  /\ Faults \subseteq {"refuse", "build", "send", "ids", "fill", "tell"}
  /\ Content = [trans : Trans, old : BOOLEAN]

VARIABLES
  trans,      (* the state of each transaction of the library                *)
  blocked,    (* the transactions whose messages the library holds back      *)
  userptr,    (* the record a transaction points to                          *)
  inbound,    (* the stack's messages that wait, in order, per transaction   *)
  rdQueue,    (* the messages that wait for a transmit thread                *)
  tx, rx,     (* what each thread works on and where it is                   *)
  app         (* the application's view of each dialogue id: "new", "idle",  *)
              (* "asked" for its own query, or the network's transaction;    *)
              (* "unheard": it still waits, but what ends its query was lost *)

libVars == << trans, blocked, userptr, inbound >>
vars == << poolVars, libVars, rdQueue, tx, rx, app >>

NoId == 0
Terminal == {"RESPONSE", "ABORT", "TIMEOUT"}

(* A transmit thread is at a step of its message; a receive thread has a     *)
(* sequence of steps still to do for its message, which its kind decides.    *)
TxIdle == [at |-> "idle", kind |-> "none", id |-> NoId, trans |-> NoTrans]
RxIdle == [todo |-> << >>, kind |-> "none", id |-> NoId, trans |-> NoTrans]

Init ==
  /\ PoolInit
  /\ trans = [t \in Trans |-> "none"]
  /\ blocked = {}
  /\ userptr = [t \in Trans |-> NoId]
  /\ inbound = [t \in Trans |-> << >>]
  /\ rdQueue = << >>
  /\ tx = [w \in Tx |-> TxIdle]
  /\ rx = [r \in Rx |-> RxIdle]
  /\ app = [id \in DlgIds |-> "new"]

-----------------------------------------------------------------------------
(* A transaction exists from its creation, by a message of the application   *)
(* or the network, until it is deleted.  Its peer may send while it is open; *)
(* it is ended once either side has sent a message that ends it.             *)
TransStates == {"none", "created", "open", "ended", "deleted"}
Exists(t) == trans[t] \in {"created", "open", "ended"}

Fresh(t) == [trans |-> t, old |-> FALSE]

(* What the application makes of a message it gets, and of one it does not.  *)
Hear(id, kind, t) ==
  app' = CASE id = NoId         -> app
           [] kind = "QUERY"    -> [app EXCEPT ![id] = t]
           [] kind \in Terminal -> [app EXCEPT ![id] = "idle"]
           [] OTHER             -> app

Miss(id, kind) ==
  app' = IF id # NoId /\ kind \in Terminal /\ app[id] = "asked"
         THEN [app EXCEPT ![id] = "unheard"] ELSE app

(* TxMsgToApplication does not wait: a message is dropped when the queue is  *)
(* still full at the second attempt, and no caller looks whether it was.     *)
Tell(id, kind, t) == Hear(id, kind, t) \/ ("tell" \in Faults /\ Miss(id, kind))

(* FreeDlgInfo or its refusal.                                               *)
FreeOrRefuse(id) == Free(id) \/ (~CanFree(id) /\ UNCHANGED poolVars)

(* MapDlgIdtoTransId: write the record and point the transaction to it.      *)
Map(id, t) ==
  /\ IF id = NoId THEN UNCHANGED poolVars ELSE Update(id, Fresh(t))
  /\ userptr' = IF id # NoId /\ Exists(t) THEN [userptr EXCEPT ![t] = id]
                ELSE userptr

DeleteTrans(t) ==
  /\ trans' = [trans EXCEPT ![t] = "deleted"]
  /\ inbound' = [inbound EXCEPT ![t] = << >>]

TxGoTo(w, place) == tx' = [tx EXCEPT ![w].at = place]
TxDone(w) == tx' = [tx EXCEPT ![w] = TxIdle]
RxAt(r, step) == rx[r].todo # << >> /\ Head(rx[r].todo) = step
RxSkip(r, n) ==
  LET todo == rx[r].todo
  IN  rx' = [rx EXCEPT ![r] = IF Len(todo) = n THEN RxIdle
                              ELSE [@ EXCEPT !.todo = SubSeq(todo, n + 1, Len(todo))]]
RxNext(r) == RxSkip(r, 1)

-----------------------------------------------------------------------------
(* The application and the cleaner.                                          *)
Post(kind, id) ==
  /\ Len(rdQueue) < QueueBound
  /\ rdQueue' = Append(rdQueue, [kind |-> kind, id |-> id])

AppQuery(id) ==
  /\ "QUERY" \in AppKinds
  /\ app[id] = "new" \/ (IdsRecur /\ app[id] = "idle")
  /\ Post("QUERY", id)
  /\ app' = [app EXCEPT ![id] = "asked"]
  /\ UNCHANGED << poolVars, libVars, tx, rx >>

AppSend(id, kind) ==
  /\ kind # "QUERY"
  /\ app[id] \notin {"new", "idle"}
  /\ Post(kind, id)
  /\ app' = IF kind = "CONV" THEN app ELSE [app EXCEPT ![id] = "idle"]
  /\ UNCHANGED << poolVars, libVars, tx, rx >>

(* Time passes: a record is then older than mDlgTimeout.                     *)
Age(id) ==
  /\ Live(id)
  /\ ~mInDlgRecordPool[id].old
  /\ mInDlgRecordPool' = [mInDlgRecordPool EXCEPT ![id].old = TRUE]
  /\ UNCHANGED << dlgIdx, nextFreeDlgIdx, lastFreeDlgIdx, recordCount >>
  /\ UNCHANGED << libVars, rdQueue, tx, rx, app >>

(* CleanTimedoutDlg finds it so and sends a prearranged end for the id.  It  *)
(* does so on every pass until the record is gone or written again.          *)
CleanAllocatedOnly(id) ==  (* a slip: the loop starts above the half size    *)
  /\ id > HalfMaxDlgSize
  /\ Live(id)
  /\ mInDlgRecordPool[id].old
  /\ Post("CLEAN", id)
  /\ UNCHANGED << poolVars, libVars, tx, rx, app >>

CleanTimedoutDlg(id) ==
  /\ Live(id)
  /\ mInDlgRecordPool[id].old
  /\ Post("CLEAN", id)
  /\ UNCHANGED << poolVars, libVars, tx, rx, app >>

-----------------------------------------------------------------------------
(* ProcessTxMsgToStack, for one message of the application.                  *)
TxTake(w) ==
  /\ tx[w].at = "idle"
  /\ rdQueue # << >>
  /\ tx' = [tx EXCEPT ![w] = [at |-> "look", kind |-> Head(rdQueue).kind,
                              id |-> Head(rdQueue).id, trans |-> NoTrans]]
  /\ rdQueue' = Tail(rdQueue)
  /\ UNCHANGED << poolVars, libVars, rx, app >>

TxAt(w, place) == tx[w].at = place
PreEnd(w) == tx[w].kind \in {"PREEND", "CLEAN"}

(* A record that was allocated and is not yet mapped has no transaction id.  *)
JustAllocated(id) ==
  \E r \in Rx : RxAt(r, "map") /\ rx[r].kind = "QUERY" /\ rx[r].id = id

TransInfo(id) == mInDlgRecordPool[id].trans

(* GetTransInfo copies the record; the copy is used from here on.            *)
TxFound(w) ==
  /\ TxAt(w, "look")
  /\ Live(tx[w].id)
  /\ LET t == TransInfo(tx[w].id)
     IN \/ /\ tx[w].kind = "QUERY"
           /\ TxDone(w)
           /\ Tell(tx[w].id, "ABORT", NoTrans)
        \/ /\ tx[w].kind # "QUERY"
           /\ tx' = [tx EXCEPT ![w].trans = t,
                               ![w].at = IF PreEnd(w) THEN "preEnd"
                                         ELSE IF JustAllocated(tx[w].id)
                                         THEN "noIds" ELSE "build"]
           /\ UNCHANGED app
  /\ UNCHANGED << poolVars, libVars, rdQueue, rx >>

(* No record: a query opens a transaction, unless the library refuses one or *)
(* no instance is in service; anything else is answered with an abort.       *)
TxOpen(w) ==
  /\ TxAt(w, "look")
  /\ ~Live(tx[w].id)
  /\ tx[w].kind = "QUERY"
  /\ \E t \in Trans :
       /\ trans[t] = "none"
       /\ trans' = [trans EXCEPT ![t] = "created"]
       /\ tx' = [tx EXCEPT ![w].trans = t, ![w].at = "build"]
  /\ UNCHANGED << poolVars, blocked, userptr, inbound, rdQueue, rx, app >>

TxNotFound(w) ==
  /\ TxAt(w, "look")
  /\ ~Live(tx[w].id)
  /\ tx[w].kind = "QUERY" => "refuse" \in Faults
  /\ IF PreEnd(w) THEN UNCHANGED app ELSE Tell(tx[w].id, "ABORT", NoTrans)
  /\ TxGoTo(w, "freeOnly")
  /\ UNCHANGED << poolVars, libVars, rdQueue, rx >>

TxFreeOnly(w) ==
  /\ TxAt(w, "freeOnly")
  /\ FreeOrRefuse(tx[w].id)
  /\ TxDone(w)
  /\ UNCHANGED << libVars, rdQueue, rx, app >>

(* A prearranged end frees the record; only who freed it goes on to delete   *)
(* the transaction.  As configured, the application then gets a time-out.    *)
NothingAfterDelete(w) == "idle"   (* a slip: the time-out is not sent         *)
AfterDelete(w) == IF PreEnd(w) /\ SndTimeOutOnPreEnd THEN "tell" ELSE "idle"
TxLeaveTo(w, place) == IF place = "idle" THEN TxDone(w) ELSE TxGoTo(w, place)

TxPreEnd(w) ==
  /\ TxAt(w, "preEnd")
  /\ FreeOrRefuse(tx[w].id)
  /\ TxLeaveTo(w, IF CanFree(tx[w].id) THEN "blockDelete" ELSE AfterDelete(w))
  /\ UNCHANGED << libVars, rdQueue, rx, app >>

(* acu_tcap_trans_block, and the delete if the block was not set.            *)
TxBlockDelete(w) ==
  /\ TxAt(w, "blockDelete")
  /\ LET t == tx[w].trans
     IN IF t \in blocked
        THEN UNCHANGED << trans, blocked, inbound >>
        ELSE DeleteTrans(t) /\ blocked' = blocked \cup {t}
  /\ TxLeaveTo(w, AfterDelete(w))
  /\ UNCHANGED << poolVars, userptr, rdQueue, rx, app >>

TxTell(w) ==
  /\ TxAt(w, "tell")
  /\ Tell(tx[w].id, "TIMEOUT", tx[w].trans)
  /\ TxDone(w)
  /\ UNCHANGED << poolVars, libVars, rdQueue, rx >>

(* Build the stack's message.  A transaction that is gone reports no local   *)
(* id, a record not yet mapped holds none: the message is dropped.           *)
TxBuildUnknown(w) ==       (* a slip: a kind that ends falls to the default  *)
  /\ TxAt(w, "build")
  /\ IF ~Exists(tx[w].trans) THEN TxDone(w) ELSE TxGoTo(w, "map")
  /\ UNCHANGED << poolVars, libVars, rdQueue, rx, app >>

TxBuild(w) ==
  /\ TxAt(w, "build") \/ TxAt(w, "noIds")
  /\ IF TxAt(w, "noIds") \/ ~Exists(tx[w].trans) THEN TxDone(w)
     ELSE TxGoTo(w, IF tx[w].kind \in Terminal THEN "block" ELSE "map")
  /\ UNCHANGED << poolVars, libVars, rdQueue, rx, app >>

TxBuildFails(w) ==
  /\ TxAt(w, "build") \/ TxAt(w, "noIds")
  /\ "build" \in Faults
  /\ Tell(tx[w].id, "ABORT", NoTrans)
  /\ TxGoTo(w, "preEnd")
  /\ UNCHANGED << poolVars, libVars, rdQueue, rx >>

TxMap(w) ==
  /\ TxAt(w, "map")
  /\ Map(tx[w].id, tx[w].trans)
  /\ TxGoTo(w, "send")
  /\ UNCHANGED << trans, blocked, inbound, rdQueue, rx, app >>

TxBlockIgnored(w) ==       (* a slip: what acu_tcap_trans_block says is lost  *)
  /\ TxAt(w, "block")
  /\ TxGoTo(w, "send")
  /\ blocked' = blocked \cup {tx[w].trans}
  /\ UNCHANGED << poolVars, trans, userptr, inbound, rdQueue, rx, app >>

(* A message that ends the dialogue first stops the stack's messages for it; *)
(* the second attempt is 500 microseconds after the first, and looks at the  *)
(* record again, and drops the message when it has no transaction id.        *)
TxBlock(w) ==
  /\ TxAt(w, "block") \/ TxAt(w, "blockAgain")
  /\ IF tx[w].trans \in blocked
     THEN /\ IF TxAt(w, "block") THEN TxGoTo(w, "blockAgain") ELSE TxDone(w)
          /\ UNCHANGED blocked
     ELSE /\ IF TxAt(w, "blockAgain") /\ JustAllocated(tx[w].id)
             THEN TxDone(w) ELSE TxGoTo(w, "send")
          /\ blocked' = blocked \cup {tx[w].trans}
  /\ UNCHANGED << poolVars, trans, userptr, inbound, rdQueue, rx, app >>

(* The stack takes the message: a query opens its transaction to the peer,   *)
(* the message that ends it closes it.                                       *)
TxSend(w) ==
  /\ TxAt(w, "send")
  /\ Exists(tx[w].trans)
  /\ trans' = [trans EXCEPT ![tx[w].trans] =
                 IF tx[w].kind \in Terminal THEN "ended"
                 ELSE IF @ = "created" THEN "open" ELSE @]
  /\ IF tx[w].kind \in Terminal THEN TxGoTo(w, "free") ELSE TxDone(w)
  /\ UNCHANGED << poolVars, blocked, userptr, inbound, rdQueue, rx, app >>

TxSendFails(w) ==
  /\ TxAt(w, "send")
  /\ "send" \in Faults \/ ~Exists(tx[w].trans)
  /\ Tell(tx[w].id, "ABORT", NoTrans)
  /\ IF Exists(tx[w].trans) THEN TxGoTo(w, "blockDelete") ELSE TxDone(w)
  /\ UNCHANGED << poolVars, libVars, rdQueue, rx >>

TxFreeKeepsTrans(w) ==     (* a slip: the transaction is not deleted          *)
  /\ TxAt(w, "free")
  /\ FreeOrRefuse(tx[w].id)
  /\ TxDone(w)
  /\ UNCHANGED << libVars, rdQueue, rx, app >>

TxFree(w) ==
  /\ TxAt(w, "free")
  /\ FreeOrRefuse(tx[w].id)
  /\ IF CanFree(tx[w].id) THEN TxGoTo(w, "delete") ELSE TxDone(w)
  /\ UNCHANGED << libVars, rdQueue, rx, app >>

TxDelete(w) ==
  /\ TxAt(w, "delete")
  /\ IF Exists(tx[w].trans) THEN DeleteTrans(tx[w].trans)
     ELSE UNCHANGED << trans, inbound >>
  /\ TxDone(w)
  /\ UNCHANGED << poolVars, blocked, userptr, rdQueue, rx, app >>

-----------------------------------------------------------------------------
(* The network, or a timer of the stack, has a message for a transaction.    *)
NetSend(t, kind) ==
  /\ kind # "QUERY"
  /\ trans[t] = "open"
  /\ Len(inbound[t]) < InboundBound
  /\ inbound' = [inbound EXCEPT ![t] = Append(@, kind)]
  /\ trans' = IF kind \in {"RESPONSE", "ABORT"} THEN [trans EXCEPT ![t] = "ended"]
              ELSE trans
  /\ UNCHANGED << poolVars, blocked, userptr, rdQueue, tx, rx, app >>

(* RxMsgFromStack and ProcessRxMsgFromStack, for one message of the stack.   *)
(* What is done for it, in order: "map" writes the record, "unblock" lets    *)
(* the stack hand out the next message of the transaction, "deliver" sends   *)
(* to the application; "delete" is skipped when the record was not freed.    *)
RouteDeletesFirst(kind) == (* a slip: the transaction goes before the record  *)
  CASE kind \in {"QUERY", "CONV"}      -> << "map", "unblock", "deliver" >>
    [] kind \in {"RESPONSE", "ABORT"}  -> << "unblock", "delete", "free", "deliver" >>
    [] kind = "TIMEOUT"                -> << "deliver", "unblock", "delete", "free" >>

Route(kind) ==
  CASE kind \in {"QUERY", "CONV"}      -> << "map", "unblock", "deliver" >>
    [] kind \in {"RESPONSE", "ABORT"}  -> << "unblock", "free", "delete", "deliver" >>
    [] kind = "TIMEOUT"                -> << "deliver", "unblock", "free", "delete" >>

RxReady(r) == rx[r].todo = << >>

(* A query comes with a transaction of its own.  It gets a dialogue id, or   *)
(* the transaction is deleted again when the pool is used up.                *)
RxQuery(r, t) ==
  /\ "QUERY" \in NetKinds
  /\ RxReady(r) /\ RxOf[t] = r
  /\ trans[t] = "none"
  /\ CanAllocate
  /\ Allocate(Fresh(t))
  /\ trans' = [trans EXCEPT ![t] = "open"]
  /\ blocked' = blocked \cup {t}
  /\ userptr' = [userptr EXCEPT ![t] = IdToTake]
  /\ rx' = [rx EXCEPT ![r] = [todo |-> Route("QUERY"), kind |-> "QUERY",
                              id |-> IdToTake, trans |-> t]]
  /\ UNCHANGED << inbound, rdQueue, tx, app >>

RxQueryKept(r, t) ==       (* a slip: the dropped query's transaction stays   *)
  /\ "QUERY" \in NetKinds
  /\ RxReady(r) /\ RxOf[t] = r
  /\ trans[t] = "none"
  /\ ~CanAllocate
  /\ trans' = [trans EXCEPT ![t] = "open"]
  /\ UNCHANGED << poolVars, blocked, userptr, inbound, rdQueue, tx, rx, app >>

RxQueryDropped(r, t) ==
  /\ "QUERY" \in NetKinds
  /\ RxReady(r) /\ RxOf[t] = r
  /\ trans[t] = "none"
  /\ ~CanAllocate
  /\ trans' = [trans EXCEPT ![t] = "deleted"]
  /\ UNCHANGED << poolVars, blocked, userptr, inbound, rdQueue, tx, rx, app >>

(* acu_tcap_ssap_msg_get blocks the transaction whose message it returns.    *)
RxGet(r, t) ==
  /\ RxReady(r) /\ RxOf[t] = r
  /\ inbound[t] # << >>
  /\ t \notin blocked
  /\ blocked' = blocked \cup {t}
  /\ inbound' = [inbound EXCEPT ![t] = Tail(@)]
  /\ rx' = [rx EXCEPT ![r] = [todo |-> << "look" >>, kind |-> Head(inbound[t]),
                              id |-> NoId, trans |-> t]]
  /\ UNCHANGED << poolVars, trans, userptr, rdQueue, tx, app >>

(* GetDialogueInfo copies the record the transaction points to, whichever    *)
(* dialogue it holds by now; a zeroed record has id 0.                       *)
DialogueInfo(t) == IF userptr[t] # NoId /\ Live(userptr[t]) THEN userptr[t] ELSE NoId

(* GetTransIds fails for a transaction that is gone, and may fail for any.   *)
IdsFail(t) == ~Exists(t) \/ "ids" \in Faults

(* A message whose transaction points to no record, or has no ids, is        *)
(* dropped and the transaction deleted.  A time-out then still goes to the   *)
(* application, for the dialogue the transaction points to if it tells.      *)
RxLook(r) ==
  /\ RxAt(r, "look")
  /\ LET t == rx[r].trans
         kind == rx[r].kind
     IN \/ /\ Exists(t) /\ (userptr[t] # NoId \/ kind = "TIMEOUT")
           /\ rx' = [rx EXCEPT ![r].todo = Route(kind), ![r].id = DialogueInfo(t)]
        \/ /\ kind # "TIMEOUT" /\ (IdsFail(t) \/ userptr[t] = NoId)
           /\ rx' = [rx EXCEPT ![r].todo = << "unblock", "delete" >>]
        \/ /\ kind = "TIMEOUT" /\ IdsFail(t)
           /\ \E id \in {NoId, DialogueInfo(t)} :
                rx' = [rx EXCEPT ![r].todo = << "unblock", "delete", "deliver" >>, ![r].id = id]
  /\ UNCHANGED << poolVars, libVars, rdQueue, tx, app >>

RxMap(r) ==
  /\ RxAt(r, "map")
  /\ Map(rx[r].id, rx[r].trans)
  /\ RxNext(r)
  /\ UNCHANGED << trans, blocked, inbound, rdQueue, tx, app >>

RxUnblock(r) ==
  /\ RxAt(r, "unblock")
  /\ blocked' = blocked \ {rx[r].trans}
  /\ RxNext(r)
  /\ UNCHANGED << poolVars, trans, userptr, inbound, rdQueue, tx, app >>

(* Slips: the transaction is deleted whoever freed the record, or never.     *)
RxFreeDeletesAlways(r) ==
  /\ RxAt(r, "free")
  /\ FreeOrRefuse(rx[r].id)
  /\ RxNext(r)
  /\ UNCHANGED << libVars, rdQueue, tx, app >>

RxFreeKeepsTrans(r) ==
  /\ RxAt(r, "free")
  /\ FreeOrRefuse(rx[r].id)
  /\ RxSkip(r, 2)
  /\ UNCHANGED << libVars, rdQueue, tx, app >>

RxFree(r) ==
  /\ RxAt(r, "free")
  /\ FreeOrRefuse(rx[r].id)
  /\ IF CanFree(rx[r].id) THEN RxNext(r) ELSE RxSkip(r, 2)
  /\ UNCHANGED << libVars, rdQueue, tx, app >>

RxDelete(r) ==
  /\ RxAt(r, "delete")
  /\ DeleteTrans(rx[r].trans)
  /\ RxNext(r)
  /\ UNCHANGED << poolVars, blocked, userptr, rdQueue, tx, app >>

(* What FillTcapStruct could not convert is not sent, whatever was freed and *)
(* deleted for it; a time-out is not converted.                              *)
RxDeliver(r) ==
  /\ RxAt(r, "deliver")
  /\ \/ Tell(rx[r].id, rx[r].kind, rx[r].trans)
     \/ "fill" \in Faults /\ rx[r].kind # "TIMEOUT" /\ Miss(rx[r].id, rx[r].kind)
  /\ RxNext(r)
  /\ UNCHANGED << poolVars, libVars, rdQueue, tx >>

-----------------------------------------------------------------------------
AppNext ==
  \/ \E id \in AppQueries : AppQuery(id)
  \/ \E id \in DlgIds, kind \in AppKinds : AppSend(id, kind)

CleanerNext == Cleaner /\ \E id \in DlgIds : Age(id) \/ CleanTimedoutDlg(id)

TxNext(w) ==
  \/ TxTake(w) \/ TxFound(w) \/ TxOpen(w) \/ TxNotFound(w) \/ TxFreeOnly(w)
  \/ TxPreEnd(w) \/ TxBlockDelete(w) \/ TxTell(w) \/ TxBuild(w) \/ TxBuildFails(w)
  \/ TxMap(w) \/ TxBlock(w) \/ TxSend(w) \/ TxSendFails(w) \/ TxFree(w) \/ TxDelete(w)

NetNext == \E t \in Trans, kind \in NetKinds : NetSend(t, kind)

RxWork(r) ==
  RxLook(r) \/ RxMap(r) \/ RxUnblock(r) \/ RxFree(r) \/ RxDelete(r) \/ RxDeliver(r)

RxTake(r) == \E t \in Trans : RxQuery(r, t) \/ RxQueryDropped(r, t) \/ RxGet(r, t)

HandlerNext ==
  \/ AppNext \/ CleanerNext \/ NetNext
  \/ \E w \in Tx : TxNext(w)
  \/ \E r \in Rx : RxWork(r) \/ RxTake(r)

HandlerSpec == Init /\ [][HandlerNext]_vars

(* Each thread goes on with its message.  Messages are taken in the order    *)
(* they came, so none waits for ever; time passes; and the cleaner, which    *)
(* comes back every three seconds, does not always find the queue full.      *)
Fairness ==
  /\ \A w \in Tx : WF_vars(TxNext(w))
  /\ \A r \in Rx : WF_vars(RxWork(r))
  /\ \A t \in Trans : SF_vars(RxGet(RxOf[t], t))
  /\ \A id \in DlgIds : /\ WF_vars(Cleaner /\ Age(id))
                         /\ SF_vars(Cleaner /\ CleanTimedoutDlg(id))

FairHandlerSpec == HandlerSpec /\ Fairness
-----------------------------------------------------------------------------
(* The types of the handler's state.                                         *)
Steps == {"look", "map", "unblock", "free", "delete", "deliver"}
Ids0  == DlgIds \cup {NoId}

HandlerTypeOK ==
  /\ TypeOK
  /\ trans \in [Trans -> TransStates]
  /\ blocked \subseteq Trans
  /\ userptr \in [Trans -> Ids0]
  /\ \A t \in Trans : inbound[t] \in Seq(NetKinds) /\ Len(inbound[t]) <= InboundBound
  /\ rdQueue \in Seq([kind : AppKinds \cup {"CLEAN"}, id : DlgIds])
  /\ Len(rdQueue) <= QueueBound
  /\ \A w \in Tx : tx[w].id \in Ids0 /\ tx[w].trans \in Trans \cup {NoTrans}
  /\ \A r \in Rx : /\ rx[r].id \in Ids0
                   /\ rx[r].trans \in Trans \cup {NoTrans}
                   /\ rx[r].todo \in Seq(Steps)
  /\ app \in [DlgIds -> Trans \cup {"new", "idle", "asked", "unheard"}]

(* A transaction that exists is the transaction of a dialogue or in the      *)
(* hands of a thread: the stack's transactions do not leak.                  *)
InHand(t) == \/ \E w \in Tx : tx[w].trans = t
             \/ \E r \in Rx : rx[r].trans = t
OwnedBy(id, t) == Live(id) /\ mInDlgRecordPool[id].trans = t

NoOrphanTrans ==
  \A t \in Trans : Exists(t) => InHand(t) \/ \E id \in DlgIds : OwnedBy(id, t)

(* A record in use names a transaction that exists, and no two name the same *)
(* one: no thread finds a deleted transaction through the pool.              *)
RecordsHaveTheirTrans ==
  \A id \in DlgIds : Live(id) =>
    /\ Exists(mInDlgRecordPool[id].trans)
    /\ \A other \in DlgIds : OwnedBy(other, mInDlgRecordPool[id].trans) => other = id

(* A thread that came to the point of deleting a transaction finds that it   *)
(* still exists, and is the only thread that came there: whoever frees the   *)
(* record, and nobody else, deletes the transaction, once.                   *)
Deleting(t) == {w \in Tx : TxAt(w, "delete") /\ tx[w].trans = t}
               \cup {r \in Rx : RxAt(r, "delete") /\ rx[r].trans = t}

DeletedOnce ==
  \A t \in Trans : Deleting(t) # {} => Exists(t) /\ Cardinality(Deleting(t)) = 1

(* A transaction that either side has ended is deleted in the end, whichever *)
(* of the two ends is processed first and whichever is dropped.              *)
EndedTransIsDeleted == \A t \in Trans : trans[t] = "ended" ~> trans[t] = "deleted"

(* CleanTimedoutDlg: a record that got too old is freed or written again.    *)
OldRecordsGo ==
  \A id \in DlgIds : (Live(id) /\ mInDlgRecordPool[id].old)
                      ~> ~(Live(id) /\ mInDlgRecordPool[id].old)

(* A query of the application comes to its end, by an answer, an abort, the  *)
(* time-out of the cleaner's end, or because the application ended it, or    *)
(* one of the two sides goes on with the conversation.  The handler tells    *)
(* the application of every end that is not its own, but it does so once: it *)
(* is told, or what tells it is lost on the way, to a full queue or because  *)
(* it could not be converted, and it waits in vain.                          *)
HeardOf(id) ==
  \/ \E w \in Tx : tx[w].kind = "CONV" /\ tx[w].id = id
  \/ \E r \in Rx : rx[r].kind = "CONV" /\ rx[r].id = id

QueriesEnd ==
  \A id \in AppQueries :
    app[id] = "asked" ~> app[id] \in Trans \cup {"idle", "unheard"} \/ HeardOf(id)

-----------------------------------------------------------------------------
(* What the handler relies on and does not see to itself.                    *)
(* A record is written only while its dialogue is in use: a thread does not  *)
(* take so long from finding a record to writing it that the dialogue ends   *)
(* meanwhile.  A query of the application has no record yet.                 *)
WritesInUse ==
  /\ \A w \in Tx : TxMap(w) => tx[w].kind = "QUERY" \/ Live(tx[w].id)
  /\ \A r \in Rx : RxMap(r) => rx[r].id = NoId \/ Live(rx[r].id)

(* An id rests before it serves again: it is given to a new dialogue, by the *)
(* application or the pool, when no query for it waits, no thread works on   *)
(* it and no transaction of an earlier dialogue points to its record.        *)
Referred(id) ==
  \/ \E i \in 1 .. Len(rdQueue) : rdQueue[i].kind = "QUERY" /\ rdQueue[i].id = id
  \/ \E w \in Tx : tx[w].id = id
  \/ \E r \in Rx : rx[r].id = id
  \/ \E t \in Trans : Exists(t) /\ userptr[t] = id

IdsRest ==
  /\ \A id \in AppQueries : AppQuery(id) => ~Referred(id)
  /\ \A r \in Rx, t \in Trans : RxQuery(r, t) => ~Referred(IdToTake)

(* No transaction is given up: an end that found no record frees none, a     *)
(* prearranged end gets the block, and a query can be built.                 *)
NoneGivenUp ==
  \A w \in Tx :
    /\ TxFreeOnly(w) => ~CanFree(tx[w].id)
    /\ TxBlockDelete(w) => tx[w].trans \notin blocked
    /\ TxBuildFails(w) => tx[w].kind # "QUERY"

WrittenInUse == [][WritesInUse]_vars
Rested       == [][WritesInUse /\ IdsRest]_vars
Undisturbed  == [][WritesInUse /\ IdsRest /\ NoneGivenUp]_vars
=============================================================================
