-------------------------- MODULE TcapHandler_proofs --------------------------
(***************************************************************************)
(* Proofs about the handler process, for any transactions, threads, kinds  *)
(* of message and pool sizes.                                              *)
(***************************************************************************)
EXTENDS TcapHandler, DlgPool_proofs

-----------------------------------------------------------------------------
(* Types.                                                                    *)
Message == {m \in [kind : AppKinds \cup {"CLEAN"}, id : DlgIds] :
              m.kind = "QUERY" => m.id \in AppIds}

TxPlaces == {"look", "freeOnly", "preEnd", "blockDelete", "tell", "build", "noIds",
             "map", "block", "blockAgain", "send", "free", "delete"}

TxWork ==
  {x \in [at : TxPlaces, kind : AppKinds \cup {"CLEAN"}, id : DlgIds,
          trans : Trans \cup {NoTrans}] :
     /\ x.kind = "QUERY" => x.id \in AppIds
     /\ x.at \notin {"look", "freeOnly"} => x.trans \in Trans}

(* What is left to do of a message of the stack.                             *)
QueryLeft   == {<< "map", "unblock", "deliver" >>, << "unblock", "deliver" >>, << "deliver" >>}
AnswerLeft  == {<< "unblock", "free", "delete", "deliver" >>, << "free", "delete", "deliver" >>,
                << "delete", "deliver" >>, << "deliver" >>}
TimeoutLeft == {<< "deliver", "unblock", "free", "delete" >>, << "unblock", "free", "delete" >>,
                << "free", "delete" >>, << "delete" >>}
DropLeft    == {<< "unblock", "delete" >>, << "delete" >>}
LateLeft    == {<< "unblock", "delete", "deliver" >>, << "delete", "deliver" >>, << "deliver" >>}

RxWorkOf(r) ==
  {y \in [todo : Seq(Steps), kind : NetKinds, id : Ids0, trans : Trans] :
     /\ RxOf[y.trans] = r
     /\ \/ y.todo = << "look" >> /\ y.kind # "QUERY" /\ y.id = NoId
        \/ y.todo \in DropLeft /\ y.kind # "QUERY" /\ y.id = NoId
        \/ y.todo \in QueryLeft /\ (y.kind = "CONV" \/ (y.kind = "QUERY" /\ y.id \in DlgIds))
        \/ y.todo \in AnswerLeft /\ y.kind \in {"RESPONSE", "ABORT"}
        \/ y.todo \in TimeoutLeft \cup LateLeft /\ y.kind = "TIMEOUT"}

LibTypes ==
  /\ trans \in [Trans -> TransStates]
  /\ blocked \subseteq Trans
  /\ userptr \in [Trans -> Ids0]
  /\ inbound \in [Trans -> Seq(NetKinds \ {"QUERY"})]
  /\ \A t \in Trans : Len(inbound[t]) <= InboundBound

QueueTypes ==
  /\ rdQueue \in Seq(Message) /\ Len(rdQueue) <= QueueBound
  /\ app \in [DlgIds -> Trans \cup {"new", "idle", "asked", "unheard"}]

TxTypes == tx \in [Tx -> {TxIdle} \cup TxWork]
RxTypes == /\ DOMAIN rx = Rx /\ rx = [r \in Rx |-> rx[r]]
           /\ \A r \in Rx : rx[r] = RxIdle \/ rx[r] \in RxWorkOf(r)

HTypes == IInv /\ LibTypes /\ QueueTypes /\ TxTypes /\ RxTypes

-----------------------------------------------------------------------------
(* The ids and the records.                                                  *)
LEMMA IdSets ==
  /\ AppIds \subseteq DlgIds /\ AllocIds \subseteq DlgIds /\ AppQueries \subseteq AppIds
  /\ NoId \notin DlgIds /\ NoTrans \notin Trans
BY Sizes, PoolAssumption, HandlerAssumption DEF AppIds, AllocIds, DlgIds, NoId

LEMMA FreshInContent == \A t \in Trans : Fresh(t) \in Content /\ Fresh(t).trans = t
BY HandlerAssumption DEF Fresh

LEMMA LiveRecord ==
  ASSUME TypeOK, NEW id \in DlgIds, Live(id)
  PROVE  /\ mInDlgRecordPool[id] \in Content
         /\ mInDlgRecordPool[id].trans \in Trans
         /\ TransInfo(id) \in Trans
BY HandlerAssumption DEF TypeOK, Live, TransInfo

LEMMA TxBusy ==
  ASSUME TxTypes, NEW w \in Tx, tx[w].at # "idle"
  PROVE  tx[w] \in TxWork /\ tx[w].id \in DlgIds
BY DEF TxTypes, TxIdle, TxWork

LEMMA TxIsIdle ==
  ASSUME TxTypes, NEW w \in Tx, tx[w].at = "idle"
  PROVE  tx[w] = TxIdle
BY DEF TxTypes, TxWork, TxPlaces

LEMMA RxBusy ==
  ASSUME RxTypes, NEW r \in Rx, rx[r].todo # << >>
  PROVE  rx[r] \in RxWorkOf(r)
BY DEF RxTypes, RxIdle

(* A thread that is at a step of its message goes on to the next.            *)
LEMMA SkipSteps ==
  ASSUME NEW s \in Seq(Steps)
  PROVE  /\ Len(s) > 1 => SubSeq(s, 1 + 1, Len(s)) = Tail(s)
         /\ Len(s) > 2 => SubSeq(s, 2 + 1, Len(s)) = Tail(Tail(s))
<1>1. Len(s) \in Nat /\ (Len(s) > 1 => s # << >>)
  BY LenProperties, EmptySeq
<1>2. Len(s) > 1 => SubSeq(s, 1 + 1, Len(s)) = Tail(s)
  BY <1>1, TailIsSubSeq
<1>3. ASSUME Len(s) > 2 PROVE SubSeq(s, 2 + 1, Len(s)) = Tail(Tail(s))
  <2>1. 2 \in 1 .. Len(s) /\ Len(s) \in 2 .. Len(s)
    BY <1>1, <1>3
  <2>2. Tail(SubSeq(s, 2, Len(s))) = SubSeq(s, 2 + 1, Len(s))
    BY <2>1, HeadTailOfSubSeq
  <2>3. SubSeq(s, 2, Len(s)) = Tail(s)
    BY <1>1, <1>2, <1>3
  <2>4. QED
    BY <2>2, <2>3
<1>4. QED
  BY <1>2, <1>3

LEMMA StepsTyped ==
  /\ QueryLeft \subseteq Seq(Steps) /\ AnswerLeft \subseteq Seq(Steps)
  /\ TimeoutLeft \subseteq Seq(Steps) /\ DropLeft \subseteq Seq(Steps)
  /\ LateLeft \subseteq Seq(Steps)
  /\ << "look" >> \in Seq(Steps) /\ << >> \in Seq(Steps)
BY DEF QueryLeft, AnswerLeft, TimeoutLeft, DropLeft, LateLeft, Steps

LEMMA RxMoves ==
  ASSUME RxTypes, NEW r \in Rx, rx[r].todo # << >>, NEW n \in {1, 2}, RxSkip(r, n),
         Len(rx[r].todo) >= n
  PROVE  LET left == IF n = 1 THEN Tail(rx[r].todo) ELSE Tail(Tail(rx[r].todo))
         IN  rx' = [rx EXCEPT ![r] = IF Len(rx[r].todo) = n THEN RxIdle
               ELSE [todo |-> left, kind |-> rx[r].kind, id |-> rx[r].id, trans |-> rx[r].trans]]
<1>1. rx[r] \in RxWorkOf(r)
  BY RxBusy
<1>2. /\ rx[r].todo \in Seq(Steps) /\ Len(rx[r].todo) \in Nat
      /\ \A s : [rx[r] EXCEPT !.todo = s] =
            [todo |-> s, kind |-> rx[r].kind, id |-> rx[r].id, trans |-> rx[r].trans]
  BY <1>1, LenProperties DEF RxWorkOf
<1>3. Len(rx[r].todo) # n => SubSeq(rx[r].todo, n + 1, Len(rx[r].todo)) =
        IF n = 1 THEN Tail(rx[r].todo) ELSE Tail(Tail(rx[r].todo))
  <2>1. CASE n = 1
    BY <1>2, <2>1, SkipSteps
  <2>2. CASE n = 2
    BY <1>2, <2>2, SkipSteps
  <2>3. QED
    BY <2>1, <2>2
<1>4. rx' = [rx EXCEPT ![r] = IF Len(rx[r].todo) = n THEN RxIdle
               ELSE [rx[r] EXCEPT !.todo = SubSeq(rx[r].todo, n + 1, Len(rx[r].todo))]]
  BY DEF RxSkip
<1>5. QED
  BY <1>2, <1>3, <1>4

-----------------------------------------------------------------------------
(* Each action keeps the types.  First the threads' own places.              *)
LEMMA TxGoes ==
  ASSUME TxTypes, NEW w \in Tx, tx[w].at # "idle", NEW place \in TxPlaces,
         place \notin {"look", "freeOnly"} => tx[w].trans \in Trans, TxGoTo(w, place)
  PROVE  TxTypes'
<1>1. tx[w] \in TxWork
  BY TxBusy
<1>2. [tx[w] EXCEPT !.at = place] \in TxWork
  BY <1>1 DEF TxWork
<1>3. QED
  BY <1>2 DEF TxTypes, TxGoTo

LEMMA TxStops == ASSUME TxTypes, NEW w \in Tx, TxDone(w) PROVE TxTypes'
BY DEF TxTypes, TxDone

LEMMA TxStepTypes ==
  ASSUME TypeOK, QueueTypes, TxTypes, NEW w \in Tx, TxNext(w)
  PROVE  TxTypes'
<1>1. CASE TxTake(w)
  <2>1. Head(rdQueue) \in Message
    BY <1>1, HeadTailProperties DEF TxTake, QueueTypes
  <2>2. [at |-> "look", kind |-> Head(rdQueue).kind, id |-> Head(rdQueue).id,
         trans |-> NoTrans] \in TxWork
    BY <2>1 DEF Message, TxWork, TxPlaces
  <2>3. QED
    BY <1>1, <2>2 DEF TxTake, TxTypes
<1>2. CASE TxFound(w)
  <2>1. tx[w] \in TxWork /\ tx[w].id \in DlgIds
    BY <1>2, TxBusy DEF TxFound, TxAt
  <2>2. TransInfo(tx[w].id) \in Trans
    BY <1>2, <2>1, LiveRecord DEF TxFound
  <2>3. \A place \in TxPlaces :
          [tx[w] EXCEPT !.trans = TransInfo(tx[w].id), !.at = place] \in TxWork
    BY <2>1, <2>2 DEF TxWork
  <2>4. QED
    BY <1>2, <2>3, TxStops DEF TxFound, TxTypes, TxPlaces
<1>3. CASE TxOpen(w)
  <2>1. tx[w] \in TxWork
    BY <1>3, TxBusy DEF TxOpen, TxAt
  <2>2. \A t \in Trans : [tx[w] EXCEPT !.trans = t, !.at = "build"] \in TxWork
    BY <2>1 DEF TxWork, TxPlaces
  <2>3. QED
    BY <1>3, <2>2 DEF TxOpen, TxTypes
<1>4. CASE TxNotFound(w)
  BY <1>4, TxGoes DEF TxNotFound, TxAt, TxPlaces
<1>5. CASE TxFreeOnly(w) \/ TxTell(w) \/ TxDelete(w)
  BY <1>5, TxStops DEF TxFreeOnly, TxTell, TxDelete
<1>6. tx[w].at \notin {"idle", "look", "freeOnly"} => tx[w].trans \in Trans
  BY TxBusy DEF TxWork
<1>7. CASE TxPreEnd(w) \/ TxBlockDelete(w)
  BY <1>6, <1>7, TxStops, TxGoes
     DEF TxPreEnd, TxBlockDelete, TxAt, TxLeaveTo, AfterDelete, TxPlaces
<1>8. CASE TxBuild(w) \/ TxBuildFails(w) \/ TxMap(w)
  BY <1>6, <1>8, TxStops, TxGoes DEF TxBuild, TxBuildFails, TxMap, TxAt, TxPlaces
<1>9. CASE TxBlock(w) \/ TxSend(w) \/ TxSendFails(w) \/ TxFree(w)
  BY <1>6, <1>9, TxStops, TxGoes DEF TxBlock, TxSend, TxSendFails, TxFree, TxAt, TxPlaces
<1>10. QED
  BY <1>1, <1>2, <1>3, <1>4, <1>5, <1>7, <1>8, <1>9 DEF TxNext

LEMMA RxGoes ==
  ASSUME RxTypes, NEW r \in Rx, NEW y, y = RxIdle \/ y \in RxWorkOf(r),
         rx' = [rx EXCEPT ![r] = y]
  PROVE  RxTypes'
BY DEF RxTypes

LEMMA TailOf2 == \A a, b : Tail(<< a, b >>) = << b >> /\ Len(<< a >>) = 1
OBVIOUS

LEMMA TailOf3 == \A a, b, c : Tail(<< a, b, c >>) = << b, c >>
OBVIOUS

LEMMA TailOf4 == \A a, b, c, d : Tail(<< a, b, c, d >>) = << b, c, d >>
OBVIOUS

LEMMA LeftOverSteps ==
  /\ \A s \in QueryLeft   : Len(s) # 1 => Tail(s) \in QueryLeft
  /\ \A s \in AnswerLeft  : Len(s) # 1 => Tail(s) \in AnswerLeft
  /\ \A s \in TimeoutLeft : Len(s) # 1 => Tail(s) \in TimeoutLeft
  /\ \A s \in DropLeft    : Len(s) # 1 => Tail(s) \in DropLeft
  /\ \A s \in LateLeft    : Len(s) # 1 => Tail(s) \in LateLeft
BY TailOf2, TailOf3, TailOf4 DEF QueryLeft, AnswerLeft, TimeoutLeft, DropLeft, LateLeft

LEMMA RxAdvances ==
  ASSUME RxTypes, NEW r \in Rx, rx[r].todo # << >>, ~RxAt(r, "look"), RxNext(r)
  PROVE  RxTypes'
<1>1. rx[r] \in RxWorkOf(r) /\ Len(rx[r].todo) >= 1
  BY RxBusy, LenProperties, EmptySeq DEF RxWorkOf
<1>2. rx' = [rx EXCEPT ![r] = IF Len(rx[r].todo) = 1 THEN RxIdle
               ELSE [todo |-> Tail(rx[r].todo), kind |-> rx[r].kind,
                     id |-> rx[r].id, trans |-> rx[r].trans]]
  BY <1>1, RxMoves DEF RxNext
<1>3. ASSUME Len(rx[r].todo) # 1
      PROVE  /\ rx[r].todo \in QueryLeft => Tail(rx[r].todo) \in QueryLeft
             /\ rx[r].todo \in AnswerLeft => Tail(rx[r].todo) \in AnswerLeft
             /\ rx[r].todo \in TimeoutLeft => Tail(rx[r].todo) \in TimeoutLeft
             /\ rx[r].todo \in DropLeft => Tail(rx[r].todo) \in DropLeft
             /\ rx[r].todo \in LateLeft => Tail(rx[r].todo) \in LateLeft
  BY <1>3, LeftOverSteps
<1>4. rx[r].todo # << "look" >>
  BY DEF RxAt
<1>5. Len(rx[r].todo) # 1 =>
        [todo |-> Tail(rx[r].todo), kind |-> rx[r].kind,
         id |-> rx[r].id, trans |-> rx[r].trans] \in RxWorkOf(r)
  BY <1>1, <1>3, <1>4, StepsTyped DEF RxWorkOf
<1>6. QED
  BY <1>2, <1>5, RxGoes

(* A record that another thread freed: the delete is skipped.                *)
LEMMA RxSkipsDelete ==
  ASSUME RxTypes, NEW r \in Rx, RxAt(r, "free"), RxSkip(r, 2)
  PROVE  /\ RxTypes'
         /\ rx[r].todo = << "free", "delete", "deliver" >>
              => rx' = [rx EXCEPT ![r].todo = << "deliver" >>]
         /\ rx[r].todo = << "free", "delete" >> => rx' = [rx EXCEPT ![r] = RxIdle]
         /\ rx[r].todo \in {<< "free", "delete", "deliver" >>, << "free", "delete" >>}
<1>1. rx[r] \in RxWorkOf(r)
  BY RxBusy DEF RxAt
<1>2. \/ rx[r].todo = << "free", "delete", "deliver" >> /\ rx[r].kind \in {"RESPONSE", "ABORT"}
      \/ rx[r].todo = << "free", "delete" >>
  BY <1>1 DEF RxWorkOf, RxAt, QueryLeft, AnswerLeft, TimeoutLeft, DropLeft, LateLeft
<1>3. rx' = [rx EXCEPT ![r] = IF Len(rx[r].todo) = 2 THEN RxIdle
               ELSE [todo |-> Tail(Tail(rx[r].todo)), kind |-> rx[r].kind,
                     id |-> rx[r].id, trans |-> rx[r].trans]]
  <2>1. rx[r].todo # << >> /\ Len(rx[r].todo) >= 2
    <3>1. \A a, b, c : /\ << a, b, c >> # << >> /\ Len(<< a, b, c >>) = 3
                       /\ << a, b >> # << >> /\ Len(<< a, b >>) = 2
      OBVIOUS
    <3>2. QED
      BY <1>2, <3>1
  <2>2. QED
    BY <2>1, RxMoves
<1> DEFINE long == << "free", "delete", "deliver" >>
           short == << "free", "delete" >>
<1>a. Len(short) = 2 /\ Len(long) = 3 /\ short # long
  OBVIOUS
<1>4. CASE rx[r].todo = short
  <2>1. rx' = [rx EXCEPT ![r] = RxIdle]
    BY <1>3, <1>4, <1>a
  <2>2. RxTypes'
    BY <2>1, RxGoes
  <2>3. QED
    BY <1>4, <1>a, <2>1, <2>2
<1>5. CASE rx[r].todo = long
  <2>1. Len(rx[r].todo) # 2 /\ Tail(Tail(rx[r].todo)) = << "deliver" >>
    BY <1>5
  <2>2. [todo |-> << "deliver" >>, kind |-> rx[r].kind, id |-> rx[r].id,
         trans |-> rx[r].trans] \in RxWorkOf(r)
    BY <1>1, <1>2, <1>5, StepsTyped DEF RxWorkOf, AnswerLeft
  <2>3. rx' = [rx EXCEPT ![r].todo = << "deliver" >>]
    BY <1>1, <1>3, <2>1 DEF RxWorkOf
  <2>4. RxTypes'
    BY <1>3, <2>1, <2>2, RxGoes
  <2>5. QED
    BY <1>5, <1>a, <2>3, <2>4
<1>6. QED
  BY <1>2, <1>4, <1>5

LEMMA RxStepTypes ==
  ASSUME IInv, LibTypes, RxTypes, NEW r \in Rx, RxWork(r) \/ RxTake(r)
  PROVE  RxTypes'
<1>1. CASE RxLook(r)
  <2>1. rx[r] \in RxWorkOf(r) /\ rx[r].kind # "QUERY" /\ rx[r].id = NoId
    <3>1. rx[r] \in RxWorkOf(r) /\ Head(rx[r].todo) = "look"
      BY <1>1, RxBusy DEF RxLook, RxAt
    <3>2. QED
      BY <3>1 DEF RxWorkOf, QueryLeft, AnswerLeft, TimeoutLeft, DropLeft, LateLeft
  <2>2. [rx[r] EXCEPT !.todo = << "unblock", "delete" >>] \in RxWorkOf(r)
    BY <2>1, StepsTyped DEF RxWorkOf, DropLeft
  <2>3. DialogueInfo(rx[r].trans) \in Ids0
    BY <2>1 DEF DialogueInfo, LibTypes, RxWorkOf, Ids0
  <2>4. [rx[r] EXCEPT !.todo = Route(rx[r].kind), !.id = DialogueInfo(rx[r].trans)]
          \in RxWorkOf(r)
    BY <2>1, <2>3, StepsTyped, HandlerAssumption
       DEF RxWorkOf, Route, QueryLeft, AnswerLeft, TimeoutLeft
  <2>5. ASSUME NEW id \in {NoId, DialogueInfo(rx[r].trans)}, rx[r].kind = "TIMEOUT"
        PROVE  [rx[r] EXCEPT !.todo = << "unblock", "delete", "deliver" >>, !.id = id]
                 \in RxWorkOf(r)
    BY <2>1, <2>3, <2>5, StepsTyped DEF RxWorkOf, LateLeft, Ids0
  <2>6. CASE rx' = [rx EXCEPT ![r].todo = << "unblock", "delete" >>]
    <3>1. rx' = [rx EXCEPT ![r] = [rx[r] EXCEPT !.todo = << "unblock", "delete" >>]]
      BY <2>6
    <3>2. QED
      BY <2>2, <3>1, RxGoes
  <2>7. CASE rx' = [rx EXCEPT ![r].todo = Route(rx[r].kind), ![r].id = DialogueInfo(rx[r].trans)]
    <3>1. rx' = [rx EXCEPT ![r] = [rx[r] EXCEPT !.todo = Route(rx[r].kind),
                                                !.id = DialogueInfo(rx[r].trans)]]
      BY <2>7
    <3>2. QED
      BY <2>4, <3>1, RxGoes
  <2>8. ASSUME NEW id \in {NoId, DialogueInfo(rx[r].trans)}, rx[r].kind = "TIMEOUT",
               rx' = [rx EXCEPT ![r].todo = << "unblock", "delete", "deliver" >>, ![r].id = id]
        PROVE  RxTypes'
    <3>1. rx' = [rx EXCEPT ![r] = [rx[r] EXCEPT !.todo = << "unblock", "delete", "deliver" >>,
                                                !.id = id]]
      BY <2>8
    <3>2. QED
      BY <2>5, <2>8, <3>1, RxGoes
  <2>9. QED
    BY <1>1, <2>6, <2>7, <2>8 DEF RxLook
<1>2. CASE RxMap(r) \/ RxUnblock(r) \/ RxDelete(r) \/ RxDeliver(r)
  BY <1>2, RxAdvances DEF RxMap, RxUnblock, RxDelete, RxDeliver, RxAt
<1>3. CASE RxFree(r)
  BY <1>3, RxAdvances, RxSkipsDelete DEF RxFree, RxAt
<1>4. ASSUME NEW t \in Trans, RxQuery(r, t) PROVE RxTypes'
  <2>1. IdToTake \in DlgIds
    BY <1>4, AllocatedIdIsFree DEF RxQuery
  <2>2. [todo |-> Route("QUERY"), kind |-> "QUERY", id |-> IdToTake, trans |-> t]
          \in RxWorkOf(r)
    BY <1>4, <2>1, StepsTyped DEF RxQuery, RxWorkOf, Route, QueryLeft, Ids0
  <2>3. QED
    BY <1>4, <2>2, RxGoes DEF RxQuery
<1>5. ASSUME NEW t \in Trans, RxGet(r, t) PROVE RxTypes'
  <2>1. Head(inbound[t]) \in NetKinds \ {"QUERY"}
    BY <1>5, HeadTailProperties DEF RxGet, LibTypes
  <2>2. [todo |-> << "look" >>, kind |-> Head(inbound[t]), id |-> NoId, trans |-> t]
          \in RxWorkOf(r)
    BY <1>5, <2>1, StepsTyped DEF RxGet, RxWorkOf, Ids0
  <2>3. QED
    BY <1>5, <2>2, RxGoes DEF RxGet
<1>6. ASSUME NEW t \in Trans, RxQueryDropped(r, t) PROVE RxTypes'
  BY <1>6 DEF RxQueryDropped, RxTypes
<1>7. QED
  BY <1>1, <1>2, <1>3, <1>4, <1>5, <1>6 DEF RxWork, RxTake

-----------------------------------------------------------------------------
(* The library's and the application's side.                                 *)
LEMMA DeletedTypes ==
  ASSUME trans \in [Trans -> TransStates], inbound \in [Trans -> Seq(NetKinds \ {"QUERY"})],
         \A t \in Trans : Len(inbound[t]) <= InboundBound,
         NEW t \in Trans, DeleteTrans(t)
  PROVE  /\ trans' \in [Trans -> TransStates]
         /\ inbound' \in [Trans -> Seq(NetKinds \ {"QUERY"})]
         /\ \A u \in Trans : Len(inbound'[u]) <= InboundBound
<1>1. << >> \in Seq(NetKinds \ {"QUERY"}) /\ Len(<< >>) <= InboundBound
  BY HandlerAssumption
<1>2. QED
  BY <1>1 DEF DeleteTrans, TransStates

LEMMA TxLibTypes ==
  ASSUME LibTypes, TxTypes, NEW w \in Tx, TxNext(w)
  PROVE  LibTypes'
<1>1. tx[w].at # "idle" => tx[w].id \in DlgIds
  BY TxBusy
<1>2. tx[w].at \notin {"idle", "look", "freeOnly"} => tx[w].trans \in Trans
  BY TxBusy DEF TxWork
<1>3. CASE TxTake(w) \/ TxFound(w) \/ TxNotFound(w) \/ TxFreeOnly(w) \/ TxPreEnd(w)
            \/ TxTell(w) \/ TxBuild(w) \/ TxBuildFails(w) \/ TxSendFails(w) \/ TxFree(w)
  BY <1>3 DEF TxTake, TxFound, TxNotFound, TxFreeOnly, TxPreEnd, TxTell, TxBuild,
              TxBuildFails, TxSendFails, TxFree, libVars, LibTypes
<1>4. CASE TxOpen(w) \/ TxSend(w)
  BY <1>2, <1>4 DEF TxOpen, TxSend, TxAt, LibTypes, TransStates
<1>5. CASE TxBlockDelete(w) \/ TxDelete(w)
  <2>1. tx[w].trans \in Trans
    BY <1>2, <1>5 DEF TxBlockDelete, TxDelete, TxAt
  <2>2. UNCHANGED << trans, inbound >> \/ DeleteTrans(tx[w].trans)
    BY <1>5 DEF TxBlockDelete, TxDelete
  <2>3. /\ userptr' = userptr
        /\ blocked' \subseteq blocked \cup {tx[w].trans}
    BY <1>5 DEF TxBlockDelete, TxDelete
  <2>4. QED
    BY <2>1, <2>2, <2>3, DeletedTypes DEF LibTypes
<1>6. CASE TxMap(w)
  BY <1>1, <1>6 DEF TxMap, Map, TxAt, LibTypes, Ids0
<1>7. CASE TxBlock(w)
  BY <1>2, <1>7 DEF TxBlock, TxAt, LibTypes
<1>8. QED
  BY <1>3, <1>4, <1>5, <1>6, <1>7 DEF TxNext

LEMMA RxLibTypes ==
  ASSUME IInv, LibTypes, RxTypes, NEW r \in Rx, RxWork(r) \/ RxTake(r)
  PROVE  LibTypes'
<1>1. rx[r].todo # << >> => rx[r].id \in Ids0 /\ rx[r].trans \in Trans
  BY RxBusy DEF RxWorkOf
<1>2. CASE RxLook(r) \/ RxFree(r) \/ RxDeliver(r)
  BY <1>2 DEF RxLook, RxFree, RxDeliver, libVars, LibTypes
<1>3. CASE RxMap(r) \/ RxUnblock(r)
  BY <1>1, <1>3 DEF RxMap, RxUnblock, RxAt, Map, LibTypes
<1>4. CASE RxDelete(r)
  BY <1>1, <1>4, DeletedTypes DEF RxDelete, RxAt, LibTypes
<1>5. ASSUME NEW t \in Trans, RxQuery(r, t) PROVE LibTypes'
  <2>1. IdToTake \in Ids0
    BY <1>5, AllocatedIdIsFree DEF RxQuery, Ids0
  <2>2. QED
    BY <1>5, <2>1 DEF RxQuery, LibTypes, TransStates
<1>6. ASSUME NEW t \in Trans, RxQueryDropped(r, t) PROVE LibTypes'
  BY <1>6 DEF RxQueryDropped, LibTypes, TransStates
<1>7. ASSUME NEW t \in Trans, RxGet(r, t) PROVE LibTypes'
  <2>1. /\ Tail(inbound[t]) \in Seq(NetKinds \ {"QUERY"})
        /\ Len(Tail(inbound[t])) = Len(inbound[t]) - 1
        /\ Len(inbound[t]) \in Nat
    BY <1>7, HeadTailProperties, LenProperties DEF RxGet, LibTypes
  <2>2. \A u \in Trans : Len(inbound'[u]) <= InboundBound
    BY <1>7, <2>1, HandlerAssumption DEF RxGet, LibTypes
  <2>3. QED
    BY <1>7, <2>1, <2>2 DEF RxGet, LibTypes
<1>8. QED
  BY <1>2, <1>3, <1>4, <1>5, <1>6, <1>7 DEF RxWork, RxTake

LEMMA NetTypes ==
  ASSUME LibTypes, NEW t \in Trans, NEW kind \in NetKinds, NetSend(t, kind)
  PROVE  LibTypes'
<1>1. /\ Append(inbound[t], kind) \in Seq(NetKinds \ {"QUERY"})
      /\ Len(Append(inbound[t], kind)) = Len(inbound[t]) + 1
      /\ Len(inbound[t]) \in Nat
  BY AppendProperties, LenProperties DEF NetSend, LibTypes
<1>2. inbound' = [inbound EXCEPT ![t] = Append(inbound[t], kind)]
  BY DEF NetSend
<1>3. \A u \in Trans : Len(inbound'[u]) <= InboundBound
  BY <1>1, <1>2, HandlerAssumption DEF NetSend, LibTypes
<1>4. trans' \in [Trans -> TransStates]
  BY DEF NetSend, LibTypes, TransStates
<1>5. QED
  BY <1>1, <1>2, <1>3, <1>4 DEF NetSend, LibTypes

LEMMA PostTypes ==
  ASSUME rdQueue \in Seq(Message), NEW m \in Message, Post(m.kind, m.id)
  PROVE  rdQueue' \in Seq(Message) /\ Len(rdQueue') <= QueueBound /\ rdQueue' = Append(rdQueue, m)
<1>1. m = [kind |-> m.kind, id |-> m.id]
  BY DEF Message
<1>2. rdQueue' = Append(rdQueue, m) /\ Len(rdQueue) < QueueBound
  BY <1>1 DEF Post
<1>3. QED
  BY <1>2, AppendProperties, LenProperties, HandlerAssumption

LEMMA TellTypes ==
  ASSUME app \in [DlgIds -> Trans \cup {"new", "idle", "asked", "unheard"}], NEW id \in Ids0, NEW kind,
         NEW t, kind = "QUERY" => t \in Trans, Tell(id, kind, t) \/ Miss(id, kind)
  PROVE  app' \in [DlgIds -> Trans \cup {"new", "idle", "asked", "unheard"}]
BY DEF Tell, Hear, Miss, Ids0

LEMMA QueueStepTypes ==
  ASSUME HTypes, HandlerNext
  PROVE  QueueTypes'
<1> USE DEF HTypes
<1>1. ASSUME NEW id \in AppQueries, AppQuery(id) PROVE QueueTypes'
  <2>1. [kind |-> "QUERY", id |-> id] \in Message
    BY <1>1, IdSets DEF AppQuery, Message
  <2>2. QED
    BY <1>1, <2>1, PostTypes DEF AppQuery, QueueTypes
<1>2. ASSUME NEW id \in DlgIds, NEW kind \in AppKinds, AppSend(id, kind) PROVE QueueTypes'
  <2>1. [kind |-> kind, id |-> id] \in Message
    BY <1>2 DEF AppSend, Message
  <2>2. QED
    BY <1>2, <2>1, PostTypes DEF AppSend, QueueTypes
<1>3. ASSUME NEW id \in DlgIds, CleanTimedoutDlg(id) PROVE QueueTypes'
  <2>1. [kind |-> "CLEAN", id |-> id] \in Message
    BY HandlerAssumption DEF Message
  <2>2. QED
    BY <1>3, <2>1, PostTypes DEF CleanTimedoutDlg, QueueTypes
<1>4. ASSUME NEW id \in DlgIds, Age(id) PROVE QueueTypes'
  BY <1>4 DEF Age, QueueTypes
<1>5. ASSUME NEW t \in Trans, NEW kind \in NetKinds, NetSend(t, kind) PROVE QueueTypes'
  BY <1>5 DEF NetSend, QueueTypes
<1>6. ASSUME NEW w \in Tx, TxNext(w) PROVE QueueTypes'
  <2>1. tx[w].at # "idle" => tx[w].id \in Ids0
    BY TxBusy DEF Ids0
  <2>2. CASE TxTake(w)
    <3>1. /\ Tail(rdQueue) \in Seq(Message) /\ Len(Tail(rdQueue)) = Len(rdQueue) - 1
          /\ Len(rdQueue) \in Nat
      BY <2>2, HeadTailProperties, LenProperties DEF TxTake, QueueTypes
    <3>2. QED
      BY <2>2, <3>1, HandlerAssumption DEF TxTake, QueueTypes
  <2>3. CASE TxFound(w) \/ TxNotFound(w) \/ TxTell(w) \/ TxBuildFails(w) \/ TxSendFails(w)
    BY <2>1, <2>3, TellTypes
       DEF TxFound, TxNotFound, TxTell, TxBuildFails, TxSendFails, TxAt, QueueTypes
  <2>4. CASE \/ TxOpen(w) \/ TxFreeOnly(w) \/ TxPreEnd(w) \/ TxBlockDelete(w) \/ TxBuild(w)
             \/ TxMap(w) \/ TxBlock(w) \/ TxSend(w) \/ TxFree(w) \/ TxDelete(w)
    BY <2>4 DEF TxOpen, TxFreeOnly, TxPreEnd, TxBlockDelete, TxBuild, TxMap, TxBlock, TxSend,
                TxFree, TxDelete, QueueTypes
  <2>5. QED
    BY <1>6, <2>2, <2>3, <2>4 DEF TxNext
<1>7. ASSUME NEW r \in Rx, RxWork(r) \/ RxTake(r) PROVE QueueTypes'
  <2>1. CASE RxDeliver(r)
    <3>1. rx[r].id \in Ids0 /\ rx[r].trans \in Trans
      BY <2>1, RxBusy DEF RxDeliver, RxAt, RxWorkOf
    <3>2. QED
      BY <2>1, <3>1, TellTypes DEF RxDeliver, QueueTypes
  <2>2. CASE RxLook(r) \/ RxMap(r) \/ RxUnblock(r) \/ RxFree(r) \/ RxDelete(r)
    BY <2>2 DEF RxLook, RxMap, RxUnblock, RxFree, RxDelete, QueueTypes
  <2>3. CASE RxTake(r)
    BY <2>3 DEF RxTake, RxQuery, RxQueryDropped, RxGet, QueueTypes
  <2>4. QED
    BY <1>7, <2>1, <2>2, <2>3 DEF RxWork
<1>8. QED
  BY <1>1, <1>2, <1>3, <1>4, <1>5, <1>6, <1>7 DEF HandlerNext, AppNext, CleanerNext, NetNext

-----------------------------------------------------------------------------
(* What the handler does with the pool, the pool's manager allows.           *)
LEMMA FreeIsAPoolStep ==
  ASSUME NEW id, FreeOrRefuse(id)
  PROVE  [Next]_poolVars
BY DEF FreeOrRefuse, Free, FreeAllocated, FreeAppChosen, CanFree, Next, poolVars

LEMMA MapIsAPoolStep ==
  ASSUME NEW id \in Ids0, NEW t \in Trans, Map(id, t), id # NoId => id \in AppIds \/ Live(id)
  PROVE  [Next]_poolVars
<1>1. CASE id = NoId
  BY <1>1 DEF Map, poolVars
<1>2. CASE id # NoId
  BY <1>2, FreshInContent DEF Map, Ids0, UpdateInUse, Next
<1>3. QED
  BY <1>1, <1>2

LEMMA PoolSteps ==
  ASSUME HTypes, HandlerNext, WritesInUse
  PROVE  [Next]_poolVars
<1> USE DEF HTypes
<1>1. CASE AppNext \/ NetNext
  BY <1>1 DEF AppNext, AppQuery, AppSend, NetNext, NetSend, poolVars
<1>2. ASSUME NEW id \in DlgIds, Age(id) PROVE [Next]_poolVars
  <2> DEFINE rec == [mInDlgRecordPool[id] EXCEPT !.old = TRUE]
  <2>1. mInDlgRecordPool[id] \in Content
    BY <1>2, LiveRecord DEF Age, IInv
  <2>2. rec \in Content
    BY <2>1, HandlerAssumption
  <2>3. mInDlgRecordPool' = [mInDlgRecordPool EXCEPT ![id] = rec]
    BY <1>2 DEF Age
  <2>4. UpdateInUse(id, rec)
    BY <1>2, <2>3 DEF Age, UpdateInUse, Update
  <2>5. QED
    BY <2>2, <2>4 DEF Next
<1>3. ASSUME NEW id \in DlgIds, CleanTimedoutDlg(id) PROVE [Next]_poolVars
  BY <1>3 DEF CleanTimedoutDlg
<1>4. ASSUME NEW w \in Tx, TxNext(w) PROVE [Next]_poolVars
  <2>1. CASE TxFreeOnly(w) \/ TxPreEnd(w) \/ TxFree(w)
    BY <2>1, FreeIsAPoolStep DEF TxFreeOnly, TxPreEnd, TxFree
  <2>2. CASE TxMap(w)
    <3>1. tx[w] \in TxWork /\ tx[w].id \in DlgIds /\ tx[w].trans \in Trans
      BY <2>2, TxBusy DEF TxMap, TxAt, TxWork
    <3>2. tx[w].id \in AppIds \/ Live(tx[w].id)
      BY <2>2, <3>1 DEF WritesInUse, TxWork
    <3>3. QED
      BY <2>2, <3>1, <3>2, MapIsAPoolStep DEF TxMap, Ids0
  <2>3. CASE \/ TxTake(w) \/ TxFound(w) \/ TxOpen(w) \/ TxNotFound(w) \/ TxBlockDelete(w)
             \/ TxTell(w) \/ TxBuild(w) \/ TxBuildFails(w) \/ TxBlock(w) \/ TxSend(w)
             \/ TxSendFails(w) \/ TxDelete(w)
    BY <2>3 DEF TxTake, TxFound, TxOpen, TxNotFound, TxBlockDelete, TxTell, TxBuild,
                TxBuildFails, TxBlock, TxSend, TxSendFails, TxDelete, poolVars
  <2>4. QED
    BY <1>4, <2>1, <2>2, <2>3 DEF TxNext
<1>5. ASSUME NEW r \in Rx, RxWork(r) \/ RxTake(r) PROVE [Next]_poolVars
  <2>1. CASE RxFree(r)
    BY <2>1, FreeIsAPoolStep DEF RxFree
  <2>2. CASE RxMap(r)
    <3>1. rx[r].id \in Ids0 /\ rx[r].trans \in Trans
      BY <2>2, RxBusy DEF RxMap, RxAt, RxWorkOf
    <3>2. rx[r].id # NoId => Live(rx[r].id)
      BY <2>2 DEF WritesInUse
    <3>3. QED
      BY <2>2, <3>1, <3>2, MapIsAPoolStep DEF RxMap
  <2>3. ASSUME NEW t \in Trans, RxQuery(r, t) PROVE [Next]_poolVars
    BY <2>3, FreshInContent DEF RxQuery, Next
  <2>4. CASE RxLook(r) \/ RxUnblock(r) \/ RxDelete(r) \/ RxDeliver(r)
    BY <2>4 DEF RxLook, RxUnblock, RxDelete, RxDeliver
  <2>5. ASSUME NEW t \in Trans, RxQueryDropped(r, t) \/ RxGet(r, t) PROVE [Next]_poolVars
    BY <2>5 DEF RxQueryDropped, RxGet
  <2>6. QED
    BY <1>5, <2>1, <2>2, <2>3, <2>4, <2>5 DEF RxWork, RxTake
<1>6. QED
  BY <1>1, <1>2, <1>3, <1>4, <1>5 DEF HandlerNext, CleanerNext

LEMMA TypesKept ==
  ASSUME HTypes, [HandlerNext /\ WritesInUse]_vars
  PROVE  HTypes'
<1>1. CASE UNCHANGED vars
  <2>1. UNCHANGED poolVars /\ UNCHANGED << trans, blocked, userptr, inbound, rdQueue, tx, rx, app >>
    BY <1>1 DEF vars, libVars
  <2>2. IInv'
    BY <2>1, StepKeepsIInv DEF HTypes
  <2>3. QED
    BY <2>1, <2>2 DEF HTypes, LibTypes, QueueTypes, TxTypes, RxTypes
<1>2. CASE HandlerNext /\ WritesInUse
  <2>1. IInv'
    BY <1>2, PoolSteps, StepKeepsIInv DEF HTypes
  <2>2. QueueTypes'
    BY <1>2, QueueStepTypes
  <2>3. CASE AppNext \/ CleanerNext
    BY <2>1, <2>2, <2>3
       DEF AppNext, AppQuery, AppSend, CleanerNext, Age, CleanTimedoutDlg, libVars,
           HTypes, LibTypes, TxTypes, RxTypes
  <2>4. ASSUME NEW t \in Trans, NEW kind \in NetKinds, NetSend(t, kind) PROVE HTypes'
    <3>1. LibTypes'
      BY <2>4, NetTypes DEF HTypes
    <3>2. QED
      BY <2>1, <2>2, <2>4, <3>1 DEF NetSend, HTypes, TxTypes, RxTypes
  <2>5. ASSUME NEW w \in Tx, TxNext(w) PROVE HTypes'
    <3>1. LibTypes' /\ TxTypes'
      BY <2>5, TxLibTypes, TxStepTypes DEF HTypes, IInv
    <3>2. rx' = rx
      BY <2>5 DEF TxNext, TxTake, TxFound, TxOpen, TxNotFound, TxFreeOnly, TxPreEnd,
                  TxBlockDelete, TxTell, TxBuild, TxBuildFails, TxMap, TxBlock, TxSend,
                  TxSendFails, TxFree, TxDelete
    <3>3. QED
      BY <2>1, <2>2, <3>1, <3>2 DEF HTypes, RxTypes
  <2>6. ASSUME NEW r \in Rx, RxWork(r) \/ RxTake(r) PROVE HTypes'
    <3>1. LibTypes' /\ RxTypes'
      BY <2>6, RxLibTypes, RxStepTypes DEF HTypes
    <3>2. tx' = tx
      BY <2>6 DEF RxWork, RxTake, RxLook, RxMap, RxUnblock, RxFree, RxDelete, RxDeliver,
                  RxQuery, RxQueryDropped, RxGet
    <3>3. QED
      BY <2>1, <2>2, <3>1, <3>2 DEF HTypes, TxTypes
  <2>7. QED
    BY <1>2, <2>3, <2>4, <2>5, <2>6 DEF HandlerNext, NetNext
<1>3. QED
  BY <1>1, <1>2

LEMMA SeqOfSubset ==
  ASSUME NEW S, NEW T, S \subseteq T, NEW s \in Seq(S)
  PROVE  s \in Seq(T)
BY LenProperties, ElementOfSeq, SeqDef

LEMMA InitTypes == Init => HTypes
<1> SUFFICES ASSUME Init PROVE HTypes
  OBVIOUS
<1>1. IInv
  BY InitIInv DEF Init
<1>2. << >> \in Seq(NetKinds \ {"QUERY"}) /\ << >> \in Seq(Message) /\ Len(<< >>) = 0
  OBVIOUS
<1>3. LibTypes /\ QueueTypes
  BY <1>2, HandlerAssumption DEF Init, LibTypes, QueueTypes, TransStates, Ids0
<1>4. TxTypes /\ RxTypes
  BY DEF Init, TxTypes, RxTypes
<1>5. QED
  BY <1>1, <1>3, <1>4 DEF HTypes

LEMMA TypesHold == HandlerSpec /\ WrittenInUse => []HTypes
<1>1. Init => HTypes
  BY InitTypes
<1>2. HTypes /\ [HandlerNext /\ WritesInUse]_vars => HTypes'
  BY TypesKept
<1>3. QED
  BY <1>1, <1>2, PTL DEF HandlerSpec, WrittenInUse

(* A handler whose threads write a record only while its dialogue is in use  *)
(* is a caller the dialogue manager was written for: whatever the threads,   *)
(* the cleaner and the network do, the pool behaves as DlgPool specifies.    *)
THEOREM HandlerUsesThePool == HandlerSpec /\ WrittenInUse => Spec
<1>1. Init => PoolInit
  BY DEF Init
<1>2. HTypes /\ [HandlerNext /\ WritesInUse]_vars => [Next]_poolVars
  <2> SUFFICES ASSUME HTypes, [HandlerNext /\ WritesInUse]_vars PROVE [Next]_poolVars
    OBVIOUS
  <2>1. QED
    BY PoolSteps DEF vars
<1>3. QED
  BY <1>1, <1>2, TypesHold, PTL DEF HandlerSpec, WrittenInUse, Spec

(* ... so that no id is lost and none is handed out while it is in use.      *)
THEOREM HandlerLosesNoId == HandlerSpec /\ WrittenInUse => []IdsInRingOrInUse
BY HandlerUsesThePool, IdsArePartitioned, PTL

(* The queue and the inbound messages keep to their bounds, each thread is   *)
(* at a step of a message that it knows how to go on from, and the pool's    *)
(* shared memory stays well-formed.                                          *)
THEOREM HandlerTypeCorrect == HandlerSpec /\ WrittenInUse => []HandlerTypeOK
<1>1. HTypes => HandlerTypeOK
  <2> SUFFICES ASSUME HTypes PROVE HandlerTypeOK
    OBVIOUS
  <2>1. NetKinds \ {"QUERY"} \subseteq NetKinds
    OBVIOUS
  <2>2. \A t \in Trans : inbound[t] \in Seq(NetKinds) /\ Len(inbound[t]) <= InboundBound
    <3> SUFFICES ASSUME NEW t \in Trans PROVE inbound[t] \in Seq(NetKinds)
      BY DEF HTypes, LibTypes
    <3>1. inbound[t] \in Seq(NetKinds \ {"QUERY"})
      BY DEF HTypes, LibTypes
    <3>2. QED
      BY <2>1, <3>1, SeqOfSubset
  <2>3. rdQueue \in Seq([kind : AppKinds \cup {"CLEAN"}, id : DlgIds])
    <3>1. Message \subseteq [kind : AppKinds \cup {"CLEAN"}, id : DlgIds]
      BY DEF Message
    <3>2. rdQueue \in Seq(Message)
      BY DEF HTypes, QueueTypes
    <3>3. QED
      BY <3>1, <3>2, SeqOfSubset
  <2>4. \A w \in Tx : tx[w].id \in Ids0 /\ tx[w].trans \in Trans \cup {NoTrans}
    BY DEF HTypes, TxTypes, TxWork, TxIdle, Ids0
  <2>5. \A r \in Rx : /\ rx[r].id \in Ids0
                      /\ rx[r].trans \in Trans \cup {NoTrans}
                      /\ rx[r].todo \in Seq(Steps)
    <3> TAKE r \in Rx
    <3>1. CASE rx[r] = RxIdle
      BY <3>1, StepsTyped DEF RxIdle, Ids0
    <3>2. CASE rx[r] \in RxWorkOf(r)
      BY <3>2 DEF RxWorkOf
    <3>3. QED
      BY <3>1, <3>2 DEF HTypes, RxTypes
  <2>6. QED
    BY <2>2, <2>3, <2>4, <2>5 DEF HTypes, IInv, LibTypes, QueueTypes, HandlerTypeOK
<1>2. QED
  BY <1>1, TypesHold, PTL
=============================================================================
